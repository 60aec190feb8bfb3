--------------------------- MODULE FrontendProofs ---------------------------
(***************************************************************************)
(* What holds of the running server, for any number of requests, cleaners, *)
(* sessions and ports:                                                     *)
(*                                                                         *)
(*   always  - it keeps its types, uses the database only through the      *)
(*             transactions of SessionStore and tunnels as a PipeRegistry, *)
(*             spares pending sessions, gives a name only to the session   *)
(*             its password was drawn for, and takes what serves a session *)
(*             from it only by the hand of a latecomer;                    *)
(*   Steady  - nobody is deleted within the grace;                         *)
(*   Gentle  - nothing is left behind for a session that is gone.          *)
(*                                                                         *)
(* Apart from these, for any constants: while the names that are being     *)
(* cleaned or verified rest with their sessions, what is activated is      *)
(* served.  Every condition is stated where it is needed.                  *)
(***************************************************************************)
EXTENDS Frontend, SessionStoreProofs

\* The shape of a handler's state at each of its program points.
Verify == [pc : {"perms", "deny", "user", "route", "activate"}, sess : Copy, nonce : Nonces]

LEMMA HandlerShape ==
    ASSUME NEW h \in Handler
    PROVE  /\ h.pc = "create" => h.port \in Ports
           /\ h.pc = "nonce" => h.tok \in SetupTokens
           /\ h.pc \in {"perms", "deny", "user", "route", "activate"} => h \in Verify
BY DEF Handler, Idle, Verify

LEMMA VerifyShape ==
    ASSUME NEW h \in Verify
    PROVE  /\ h.sess.tok \in SetupTokens /\ h.sess.sub \in Subdomains
           /\ h.sess.port \in Ports /\ h.sess \in Copy
           /\ \A q \in {"perms", "deny", "user", "route", "activate"} :
                [h EXCEPT !.pc = q] \in Verify
BY DEF Verify, Copy

LEMMA VerifyIsHandler == Verify \subseteq Handler /\ Idle \in Handler
BY DEF Verify, Handler

\* The shape of a cleaner's state.
Scan   == [pc : {"scan"}, todo : SUBSET Snapshot,
           doomed : SUBSET SetupTokens, names : SUBSET Subdomains]
NextC  == [pc : {"next"}, doomed : SUBSET SetupTokens]
User   == [pc : {"user"}, doomed : SUBSET SetupTokens, tok : SetupTokens, sub : Subdomains]
Delete == [pc : {"delete"}, doomed : SUBSET SetupTokens, tok : SetupTokens]

LEMMA CleanerShape ==
    ASSUME NEW h \in Cleaner
    PROVE  /\ h.pc = "scan" => h \in Scan
           /\ h.pc = "next" => h \in NextC
           /\ h.pc = "user" => h \in User
           /\ h.pc = "delete" => h \in Delete
BY DEF Cleaner, Idle, Scan, NextC, User, Delete

LEMMA CleanerParts ==
    Scan \cup NextC \cup User \cup Delete \cup {Idle} \subseteq Cleaner
BY DEF Cleaner, Scan, NextC, User, Delete

LEMMA LastPort == Cardinality(Ports) \in Ports
BY FrontendAssumption

\* The counter stays in the range of ports.
LEMMA AfterIsPort ==
    ASSUME NEW p \in Ports, NEW d \in 1..Cardinality(Ports)
    PROVE  After(p, d) \in Ports
BY FrontendAssumption DEF After

-----------------------------------------------------------------------------
(* Every action is a transaction of the store or leaves it alone.          *)

LEMMA StoreStep ==
    ASSUME ServerTypeOK, FrontNext
    PROVE  [StoreNext]_storeVars
<1>1. ASSUME NEW r \in Requests, ScriptCreate(r) PROVE StoreNext
  <2>1. req[r] \in Handler /\ req[r].pc = "create"
    BY <1>1 DEF ServerTypeOK, ScriptCreate
  <2>2. req[r].port \in Ports /\ "http" \in Modes
    BY <2>1, HandlerShape, FrontendAssumption
  <2> QED BY <1>1, <2>2 DEF ScriptCreate, StoreNext
<1>2. ASSUME NEW t \in SetupTokens, NEW p \in Wire, Register(t, p) PROVE StoreNext
  BY <1>2, FrontendAssumption DEF Register, StoreNext
<1>3. ASSUME NEW r \in Requests, ChallengeEnd(r) PROVE [StoreNext]_storeVars
  <2>1. req[r].tok \in SetupTokens
    BY <1>3, HandlerShape DEF ServerTypeOK, ChallengeEnd
  <2> QED BY <1>3, <2>1 DEF ChallengeEnd, StoreNext, storeVars
<1>4. ASSUME NEW r \in Requests, VerifyDeny(r) PROVE [StoreNext]_storeVars
  <2>1. req[r].sess.tok \in SetupTokens
    BY <1>4, HandlerShape, VerifyShape DEF ServerTypeOK, VerifyDeny
  <2> QED BY <1>4, <2>1 DEF VerifyDeny, StoreNext, storeVars
<1>5. ASSUME NEW r \in Requests, VerifyActivate(r) PROVE [StoreNext]_storeVars
  <2>1. req[r].sess.tok \in SetupTokens
    BY <1>5, HandlerShape, VerifyShape DEF ServerTypeOK, VerifyActivate
  <2> QED BY <1>5, <2>1 DEF VerifyActivate, StoreNext, storeVars
<1>6. ASSUME NEW c \in Cleaners, CleanDelete(c) PROVE [StoreNext]_storeVars
  <2>1. clean[c].tok \in SetupTokens
    BY <1>6, CleanerShape DEF ServerTypeOK, CleanDelete, Delete
  <2> QED BY <1>6, <2>1 DEF CleanDelete, StoreNext, storeVars
<1>7. ASSUME Time PROVE StoreNext
  BY <1>7 DEF Time, StoreNext
<1>8. ASSUME NEW r \in Requests,
             \/ ScriptCheck(r) \/ ScriptPort(r) \/ ScriptRefused(r)
             \/ VerifyPerms(r) \/ VerifyAddUser(r) \/ VerifyRoute(r)
             \/ \E p \in Wire : ChallengeBegin(r, p) \/ VerifyBegin(r, p)
      PROVE  UNCHANGED storeVars
  BY <1>8 DEF ScriptCheck, ScriptPort, ScriptRefused, VerifyPerms, VerifyAddUser, VerifyRoute,
              ChallengeBegin, VerifyBegin, storeVars
<1>9. ASSUME NEW c \in Cleaners, CleanStep(c), ~CleanDelete(c)
      PROVE  UNCHANGED storeVars
  BY <1>9 DEF CleanStep, CleanBegin, CleanScan, CleanRoutes, CleanNext, CleanUser,
              CleanEnd, storeVars
<1>10. ASSUME NEW x \in Clients, Disconnect(x) \/ \E p \in Ports : Connect(x, p)
       PROVE  UNCHANGED storeVars
  BY <1>10 DEF Connect, Disconnect, storeVars
<1>11. ASSUME ReloadConfig \/ Restart PROVE UNCHANGED storeVars
  BY <1>11 DEF ReloadConfig, Restart, storeVars
<1> QED BY <1>1, <1>2, <1>3, <1>4, <1>5, <1>6, <1>7, <1>8, <1>9, <1>10, <1>11
        DEF FrontNext, HandlerStep

-----------------------------------------------------------------------------
(* The types of the server.  One lemma per group of actions.               *)

\* The handler of /<port>.
LEMMA ScriptTypes ==
    ASSUME StoreTypeOK, ServerTypeOK, NEW r \in Requests,
           \/ ScriptCheck(r) \/ ScriptPort(r) \/ ScriptCreate(r) \/ ScriptRefused(r)
    PROVE  ServerTypeOK'
<1>1. CASE ScriptCheck(r)
  <2>1. [pc |-> "port"] \in Handler
    BY DEF Handler
  <2> QED BY <1>1, <2>1 DEF ScriptCheck, Goto, ServerTypeOK, serverVars, tunnelVars
<1>2. CASE ScriptPort(r)
  <2>1. PICK d \in 1..Cardinality(Ports) :
            /\ nextPort' = After(nextPort, d)
            /\ req' = [req EXCEPT ![r] = [pc |-> "create", port |-> After(nextPort, d)]]
    BY <1>2 DEF ScriptPort, Goto
  <2>2. After(nextPort, d) \in Ports
    BY AfterIsPort DEF ServerTypeOK
  <2>3. [pc |-> "create", port |-> After(nextPort, d)] \in Handler
    BY <2>2 DEF Handler
  <2> QED BY <1>2, <2>1, <2>2, <2>3 DEF ScriptPort, ServerTypeOK, tunnelVars
<1>3. CASE ScriptCreate(r) \/ ScriptRefused(r)
  BY <1>3, VerifyIsHandler
     DEF ScriptCreate, ScriptRefused, Goto, ServerTypeOK, serverVars, tunnelVars
<1> QED BY <1>1, <1>2, <1>3

\* A session found by its key is a session.
LEMMA FoundType ==
    ASSUME StoreTypeOK, NEW p \in PubHex, GetSessionByPubkey(p) # None
    PROVE  /\ GetSessionByPubkey(p) \in SetupTokens
           /\ sessions[GetSessionByPubkey(p)] \in Session
BY DEF StoreTypeOK, GetSessionByPubkey, Lookup, Live

\* The handler of /challenge.
LEMMA ChallengeTypes ==
    ASSUME StoreTypeOK, ServerTypeOK, NEW r \in Requests,
           ChallengeEnd(r) \/ \E p \in Wire : ChallengeBegin(r, p)
    PROVE  ServerTypeOK'
<1>1. ASSUME NEW p \in Wire, ChallengeBegin(r, p) PROVE ServerTypeOK'
  <2> DEFINE t == GetSessionByPubkey(p)
  <2>1. t \in SetupTokens
    BY <1>1, FoundType, FrontendAssumption DEF ChallengeBegin
  <2>2. [pc |-> "nonce", tok |-> t] \in Handler
    BY <2>1 DEF Handler
  <2>3. req' = [req EXCEPT ![r] = [pc |-> "nonce", tok |-> t]]
    BY <1>1 DEF ChallengeBegin, Goto
  <2> QED BY <1>1, <2>2, <2>3 DEF ChallengeBegin, ServerTypeOK, serverVars, tunnelVars
<1>2. CASE ChallengeEnd(r)
  BY <1>2, VerifyIsHandler DEF ChallengeEnd, Goto, ServerTypeOK, tunnelVars
<1> QED BY <1>1, <1>2

\* The handler of /verify.
LEMMA VerifyTypes ==
    ASSUME StoreTypeOK, ServerTypeOK, NEW r \in Requests,
           \/ \E p \in Wire : VerifyBegin(r, p)
           \/ VerifyPerms(r) \/ VerifyDeny(r) \/ VerifyAddUser(r) \/ VerifyRoute(r)
           \/ VerifyActivate(r)
    PROVE  ServerTypeOK'
<1>1. ASSUME NEW p \in Wire, VerifyBegin(r, p) PROVE ServerTypeOK'
  <2> DEFINE t == GetSessionByPubkey(p)
             h == [pc |-> "perms", sess |-> CopyOf(t), nonce |-> sessions[t].nonce]
  <2>1. t \in SetupTokens /\ sessions[t] \in Session /\ sessions[t].nonce # None
    BY <1>1, FoundType, FrontendAssumption DEF VerifyBegin
  <2>2. CopyOf(t) \in Copy /\ sessions[t].nonce \in Nonces
    BY <2>1 DEF CopyOf, Copy, Session
  <2>3. h \in Handler
    BY <2>2 DEF Handler
  <2>4. req' = [req EXCEPT ![r] = h]
    BY <1>1 DEF VerifyBegin, Goto
  <2> HIDE DEF h
  <2> QED BY <1>1, <2>3, <2>4 DEF VerifyBegin, ServerTypeOK, serverVars, tunnelVars
<1>2. ASSUME req[r].pc \in {"perms", "deny", "user", "route", "activate"}
      PROVE  /\ req[r] \in Verify
             /\ \A q \in {"perms", "deny", "user", "route", "activate"} :
                    [req[r] EXCEPT !.pc = q] \in Handler
  <2>1. req[r] \in Verify
    BY <1>2, HandlerShape DEF ServerTypeOK
  <2> QED BY <2>1, VerifyShape, VerifyIsHandler
<1>3. CASE VerifyPerms(r) \/ VerifyDeny(r)
  BY <1>2, <1>3, VerifyIsHandler
     DEF VerifyPerms, VerifyDeny, Goto, ServerTypeOK, serverVars, tunnelVars
<1>4. CASE VerifyAddUser(r)
  <2>1. req[r].sess.sub \in Subdomains /\ req[r].sess.tok \in SetupTokens
    BY <1>2, <1>4, VerifyShape DEF VerifyAddUser
  <2> QED BY <1>2, <1>4, <2>1 DEF VerifyAddUser, Goto, ServerTypeOK, tunnelVars
<1>5. CASE VerifyRoute(r)
  <2>1. req[r].sess.sub \in Subdomains /\ req[r].sess.port \in Ports
    BY <1>2, <1>5, VerifyShape DEF VerifyRoute
  <2> QED BY <1>2, <1>5, <2>1 DEF VerifyRoute, Goto, ServerTypeOK, tunnelVars
<1>6. CASE VerifyActivate(r)
  <2>1. req[r].sess.tok \in SetupTokens
    BY <1>2, <1>6, VerifyShape DEF VerifyActivate
  <2>2. told' \in SUBSET SetupTokens
    BY <1>6, <2>1 DEF VerifyActivate, ServerTypeOK
  <2> QED BY <1>6, <2>2, VerifyIsHandler DEF VerifyActivate, Goto, ServerTypeOK, serverVars
<1> QED BY <1>1, <1>3, <1>4, <1>5, <1>6

\* The two cleaners.
LEMMA CleanTypes ==
    ASSUME StoreTypeOK, ServerTypeOK, NEW c \in Cleaners, CleanStep(c)
    PROVE  ServerTypeOK'
<1> DEFINE h == clean[c]
<1>0. h \in Cleaner
  BY DEF ServerTypeOK
<1>1. CASE CleanBegin(c)
  <2> DEFINE todo == {[tok |-> t, sub |-> sessions[t].sub, port |-> sessions[t].port,
                       expired |-> ~sessions[t].infinity /\ sessions[t].left = 0] :
                      t \in {u \in SetupTokens : Cleanable(u)}}
             new == [pc |-> "scan", doomed |-> {}, names |-> {}, todo |-> todo]
  <2>1. ASSUME NEW t \in SetupTokens, Cleanable(t)
        PROVE  [tok |-> t, sub |-> sessions[t].sub, port |-> sessions[t].port,
                expired |-> ~sessions[t].infinity /\ sessions[t].left = 0] \in Snapshot
    <3>1. sessions[t] \in Session
      BY <2>1 DEF Cleanable, Active, Live, StoreTypeOK
    <3> QED BY <3>1 DEF Snapshot, Session
  <2>2. todo \in SUBSET Snapshot
    BY <2>1
  <2> HIDE DEF todo
  <2>3. new \in Scan
    BY <2>2 DEF Scan
  <2>4. clean' = [clean EXCEPT ![c] = new]
    BY <1>1 DEF CleanBegin, CleanGoto, todo
  <2> HIDE DEF new
  <2> QED BY <1>1, <2>3, <2>4, CleanerParts
          DEF CleanBegin, ServerTypeOK, serverVars, tunnelVars
<1>2. CASE CleanScan(c)
  <2>1. h \in Scan
    BY <1>0, <1>2, CleanerShape DEF CleanScan
  <2>2. PICK x \in h.todo : clean' = [clean EXCEPT ![c] = [h EXCEPT
            !.todo   = @ \ {x},
            !.doomed = IF Stale(x) THEN @ \cup {x.tok} ELSE @,
            !.names  = IF Stale(x) THEN @ \cup {x.sub} ELSE @]]
    BY <1>2 DEF CleanScan, CleanGoto
  <2>3. x.tok \in SetupTokens /\ x.sub \in Subdomains
    BY <2>1, <2>2 DEF Scan, Snapshot
  <2> DEFINE new == [h EXCEPT
            !.todo   = @ \ {x},
            !.doomed = IF Stale(x) THEN @ \cup {x.tok} ELSE @,
            !.names  = IF Stale(x) THEN @ \cup {x.sub} ELSE @]
  <2>4. new \in Scan
    BY <2>1, <2>3 DEF Scan
  <2>5. clean' = [clean EXCEPT ![c] = new]
    BY <2>2
  <2> HIDE DEF new
  <2> QED BY <1>2, <2>4, <2>5, CleanerParts
          DEF CleanScan, ServerTypeOK, serverVars, tunnelVars
<1>3. CASE CleanRoutes(c)
  <2>1. h \in Scan
    BY <1>0, <1>3, CleanerShape DEF CleanRoutes
  <2>2. [pc |-> "next", doomed |-> h.doomed] \in NextC
    BY <2>1 DEF Scan, NextC
  <2>3. routes' \in [Subdomains -> Ports \cup {None}]
    BY <1>3 DEF CleanRoutes, ServerTypeOK
  <2> QED BY <1>3, <2>2, <2>3, CleanerParts
          DEF CleanRoutes, CleanGoto, ServerTypeOK, tunnelVars
<1>4. CASE CleanNext(c)
  <2>1. h \in NextC
    BY <1>0, <1>4, CleanerShape DEF CleanNext
  <2>2. PICK t \in h.doomed :
            clean' = [clean EXCEPT ![c] =
                IF Live(t)
                THEN [pc |-> "user", doomed |-> h.doomed \ {t}, tok |-> t,
                      sub |-> sessions[t].sub]
                ELSE [pc |-> "next", doomed |-> h.doomed \ {t}]]
    BY <1>4 DEF CleanNext, CleanGoto
  <2>3. t \in SetupTokens /\ h.doomed \ {t} \in SUBSET SetupTokens
    BY <2>1 DEF NextC
  <2>4. Live(t) => sessions[t].sub \in Subdomains
    BY <2>3 DEF StoreTypeOK, Live, Session
  <2>5. Live(t) => [pc |-> "user", doomed |-> h.doomed \ {t}, tok |-> t,
                    sub |-> sessions[t].sub] \in User
    BY <2>3, <2>4 DEF User
  <2>6. [pc |-> "next", doomed |-> h.doomed \ {t}] \in NextC
    BY <2>3 DEF NextC
  <2> QED BY <1>4, <2>2, <2>5, <2>6, CleanerParts
          DEF CleanNext, ServerTypeOK, serverVars, tunnelVars
<1>5. CASE CleanUser(c)
  <2>1. h \in User
    BY <1>0, <1>5, CleanerShape DEF CleanUser
  <2>2. [pc |-> "delete", doomed |-> h.doomed, tok |-> h.tok] \in Delete
    BY <2>1 DEF User, Delete
  <2> QED BY <1>5, <2>2, CleanerParts DEF CleanUser, CleanGoto, ServerTypeOK, tunnelVars
<1>6. CASE CleanDelete(c)
  <2>1. h \in Delete
    BY <1>0, <1>6, CleanerShape DEF CleanDelete
  <2>2. [pc |-> "next", doomed |-> h.doomed] \in NextC
    BY <2>1 DEF NextC, Delete
  <2> QED BY <1>6, <2>2, CleanerParts
          DEF CleanDelete, CleanGoto, ServerTypeOK, serverVars, tunnelVars
<1>7. CASE CleanEnd(c)
  BY <1>7, CleanerParts DEF CleanEnd, CleanGoto, ServerTypeOK, serverVars, tunnelVars
<1> QED BY <1>1, <1>2, <1>3, <1>4, <1>5, <1>6, <1>7 DEF CleanStep

\* Clients, the operator, crashes and the clock.
LEMMA OtherTypes ==
    ASSUME StoreTypeOK, ServerTypeOK,
           \/ \E t \in SetupTokens, p \in Wire : Register(t, p)
           \/ \E x \in Clients : Disconnect(x) \/ \E p \in Ports : Connect(x, p)
           \/ ReloadConfig \/ Restart \/ Time
    PROVE  ServerTypeOK'
<1>1. ASSUME NEW t \in SetupTokens, NEW p \in Wire, Register(t, p) PROVE ServerTypeOK'
  BY <1>1 DEF Register, ServerTypeOK, serverVars, tunnelVars
<1>2. ASSUME NEW x \in Clients, NEW p \in Ports, Connect(x, p) PROVE ServerTypeOK'
  BY <1>2 DEF Connect, ServerTypeOK, serverVars
<1>3. ASSUME NEW x \in Clients, Disconnect(x) PROVE ServerTypeOK'
  BY <1>3 DEF Disconnect, ServerTypeOK, serverVars
<1>4. CASE ReloadConfig
  BY <1>4 DEF ReloadConfig, ServerTypeOK, tunnelVars
<1>5. CASE Restart
  <2>1. \A s \in Subdomains :
            Restored(s) # None => /\ Restored(s) \in SetupTokens
                                  /\ sessions[Restored(s)].port \in Ports
    BY DEF Restored, StoreTypeOK, Active, Live, Session
  <2>2. users' \in [Subdomains -> SetupTokens \cup {None}]
    BY <1>5, <2>1 DEF Restart
  <2>3. routes' \in [Subdomains -> Ports \cup {None}]
    BY <1>5, <2>1 DEF Restart
  <2>4. restarts' \in 0..MaxRestarts
    BY <1>5, FrontendAssumption DEF Restart, ServerTypeOK
  <2> QED BY <1>5, <2>2, <2>3, <2>4, LastPort, VerifyIsHandler, CleanerParts
          DEF Restart, ServerTypeOK
<1>6. CASE Time
  BY <1>6 DEF Time, ServerTypeOK, serverVars, tunnelVars
<1> QED BY <1>1, <1>2, <1>3, <1>4, <1>5, <1>6

LEMMA InitTypes == FrontInit => ServerTypeOK
BY LastPort, VerifyIsHandler, CleanerParts, FrontendAssumption DEF FrontInit, ServerTypeOK

LEMMA StepTypes == StoreTypeOK /\ ServerTypeOK /\ [FrontNext]_vars => ServerTypeOK'
<1> SUFFICES ASSUME StoreTypeOK, ServerTypeOK, [FrontNext]_vars PROVE ServerTypeOK'
  OBVIOUS
<1>1. CASE UNCHANGED vars
  BY <1>1 DEF vars, ServerTypeOK
<1>2. ASSUME NEW r \in Requests,
             \/ ScriptCheck(r) \/ HandlerStep(r)
             \/ \E p \in Wire : ChallengeBegin(r, p) \/ VerifyBegin(r, p)
      PROVE  ServerTypeOK'
  BY <1>2, ScriptTypes, ChallengeTypes, VerifyTypes DEF HandlerStep
<1>3. ASSUME NEW c \in Cleaners, CleanStep(c) PROVE ServerTypeOK'
  BY <1>3, CleanTypes
<1>4. ASSUME \/ \E t \in SetupTokens, p \in Wire : Register(t, p)
             \/ \E x \in Clients : Disconnect(x) \/ \E p \in Ports : Connect(x, p)
             \/ ReloadConfig \/ Restart \/ Time
      PROVE  ServerTypeOK'
  BY <1>4, OtherTypes
<1> QED BY <1>1, <1>2, <1>3, <1>4 DEF FrontNext

-----------------------------------------------------------------------------
(* The invariant of the server: the store's, and the server's types.       *)

FrontInv == StoreInv /\ ServerTypeOK

LEMMA StutterOrStore == ServerTypeOK /\ [FrontNext]_vars => [StoreNext]_storeVars
BY StoreStep DEF vars, storeVars

\* The invariant holds of every behaviour of the server.
THEOREM FrontInvariant == FrontSpec => []FrontInv
<1>1. FrontInit => FrontInv
  BY InitInv, InitTypes DEF FrontInit, FrontInv
<1>2. FrontInv /\ [FrontNext]_vars => FrontInv'
  BY StepInv, StutterOrStore, StepTypes DEF FrontInv, StoreInv
<1> QED BY <1>1, <1>2, PTL DEF FrontSpec

\* Every variable of the server has its type, whatever the interleaving of
\* handlers, cleaners, clients, reloads and crashes.
THEOREM FrontTypeCorrect == FrontSpec => []FrontTypeOK
<1>1. FrontInv => FrontTypeOK
  BY DEF FrontInv, FrontTypeOK, StoreInv
<1> QED BY <1>1, FrontInvariant, PTL

\* The running server implements the store's specification: no handler and
\* no cleaner does to the buckets what is not one of their transactions.
THEOREM FrontUsesStore == FrontSpec => UsesStore
<1>1. FrontInit => StoreInit
  BY DEF FrontInit
<1>2. FrontInv /\ [FrontNext]_vars => [StoreNext]_storeVars
  BY StutterOrStore DEF FrontInv
<1> QED BY <1>1, <1>2, FrontInvariant, PTL DEF FrontSpec, UsesStore, StoreSpec

\* So the running server inherits the store's theorems: exact index, keys
\* that lead to their owner, stable sessions, and the registry of leases.
THEOREM ServerKeepsStoreCorrect ==
    FrontSpec => /\ []SubIndexExact /\ []KeyLeadsToOwner
                 /\ SessionIdentityStable /\ DeletedForever /\ ImplementsRegistry
BY FrontUsesStore, SubIndexCorrect, KeyOwnerCorrect, IdentityCorrect,
   DeletedForeverCorrect, RefinesRegistry DEF UsesStore

-----------------------------------------------------------------------------
(* Cleaners spare pending sessions, however stale their lists are.         *)

\* The tokens a cleaner may still delete.
Targets(h) ==
    CASE h.pc = "scan"             -> h.doomed \cup {x.tok : x \in h.todo}
      [] h.pc = "next"             -> h.doomed
      [] h.pc \in {"user", "delete"} -> h.doomed \cup {h.tok}
      [] OTHER                     -> {}

\* Such a token was drawn, and its session was activated or is gone: since a
\* session is never pending again and never returns, this remains so.
Settled(t) == t \in issued /\ ~Pending(t)
ReapInv == \A c \in Cleaners : \A t \in Targets(clean[c]) : Settled(t)

LEMMA SettledStays ==
    ASSUME StoreInv, [StoreNext]_storeVars, NEW t \in SetupTokens, Settled(t)
    PROVE  Settled(t)'
<1>1. t \in issued'
  BY DEF Settled, StoreNext, CreateSession, RegisterPubkey, UpdateSessionNonce,
         ActivateSession, DeleteSession, Tick, storeVars
<1>2. CASE Live(t)
  BY <1>1, <1>2, IdentityLemma
     DEF IdentityStep, Settled, Pending, Live, storeVars
<1>3. CASE ~Live(t)
  BY <1>1, <1>3, NoReturnLemma
     DEF NoReturnStep, Settled, Pending, Live, storeVars
<1> QED BY <1>2, <1>3

\* A clean-up adds no target after its first step.
LEMMA TargetsShrink ==
    ASSUME FrontInv, NEW c \in Cleaners, CleanStep(c), ~CleanBegin(c)
    PROVE  Targets(clean'[c]) \subseteq Targets(clean[c])
<1> DEFINE h == clean[c]
<1>0. h \in Cleaner /\ clean \in [Cleaners -> Cleaner]
  BY DEF FrontInv, ServerTypeOK
<1>1. CASE CleanScan(c)
  <2>1. h \in Scan
    BY <1>0, <1>1, CleanerShape DEF CleanScan
  <2>2. PICK x \in h.todo : clean'[c] = [h EXCEPT
            !.todo   = @ \ {x},
            !.doomed = IF Stale(x) THEN @ \cup {x.tok} ELSE @,
            !.names  = IF Stale(x) THEN @ \cup {x.sub} ELSE @]
    BY <1>0, <1>1 DEF CleanScan, CleanGoto
  <2>3. /\ clean'[c].pc = "scan" /\ clean'[c].todo = h.todo \ {x}
        /\ clean'[c].doomed \subseteq h.doomed \cup {x.tok}
    BY <2>1, <2>2 DEF Scan
  <2> QED BY <2>1, <2>2, <2>3 DEF Targets, Scan
<1>2. CASE CleanRoutes(c)
  BY <1>0, <1>2 DEF CleanRoutes, CleanGoto, Targets
<1>3. CASE CleanNext(c)
  BY <1>0, <1>3 DEF CleanNext, CleanGoto, Targets
<1>4. CASE CleanUser(c) \/ CleanDelete(c) \/ CleanEnd(c)
  BY <1>0, <1>4 DEF CleanUser, CleanDelete, CleanEnd, CleanGoto, Targets, Idle
<1> QED BY <1>1, <1>2, <1>3, <1>4 DEF CleanStep

\* What a cleaner lists first is activated.
LEMMA BeginSettled ==
    ASSUME FrontInv, NEW c \in Cleaners, CleanBegin(c), NEW t \in Targets(clean'[c])
    PROVE  t \in SetupTokens /\ Settled(t)
<1>1. /\ clean'[c].pc = "scan" /\ clean'[c].doomed = {}
      /\ \A x \in clean'[c].todo : x.tok \in SetupTokens /\ Cleanable(x.tok)
  BY DEF FrontInv, ServerTypeOK, CleanBegin, CleanGoto
<1>2. t \in SetupTokens /\ Cleanable(t)
  BY <1>1 DEF Targets
<1> QED BY <1>2 DEF FrontInv, StoreInv, TokensIssued, Settled, Cleanable, Active, Pending

LEMMA TargetTypes ==
    ASSUME ServerTypeOK, NEW c \in Cleaners, NEW t \in Targets(clean[c])
    PROVE  t \in SetupTokens
<1>1. clean[c] \in Cleaner
  BY DEF ServerTypeOK
<1> QED BY <1>1, CleanerShape DEF Targets, Scan, NextC, User, Delete, Snapshot

LEMMA InitReap == FrontInit => ReapInv
<1>1. Targets(Idle) = {}
  BY DEF Targets, Idle
<1> QED BY <1>1 DEF FrontInit, ReapInv

\* A cleaner changes by its own steps, and ends with the process.
LEMMA CleanFrame ==
    ASSUME FrontInv, FrontNext, NEW c \in Cleaners
    PROVE  clean'[c] = clean[c] \/ CleanStep(c) \/ Restart
<1>1. ASSUME NEW d \in Cleaners \ {c}, CleanStep(d) PROVE clean'[c] = clean[c]
  BY <1>1 DEF CleanStep, CleanBegin, CleanScan, CleanRoutes, CleanNext, CleanUser,
              CleanDelete, CleanEnd, CleanGoto, FrontInv, ServerTypeOK
<1>2. ASSUME NEW r \in Requests,
             \/ ScriptCheck(r) \/ HandlerStep(r)
             \/ \E p \in Wire : ChallengeBegin(r, p) \/ VerifyBegin(r, p)
      PROVE  clean' = clean
  BY <1>2 DEF ScriptCheck, HandlerStep, ChallengeBegin, VerifyBegin, ScriptPort,
              ScriptCreate, ScriptRefused, ChallengeEnd, VerifyPerms, VerifyDeny, VerifyAddUser,
              VerifyRoute, VerifyActivate
<1>3. ASSUME \/ \E u \in SetupTokens, p \in Wire : Register(u, p)
             \/ \E x \in Clients : Disconnect(x) \/ \E p \in Ports : Connect(x, p)
             \/ ReloadConfig \/ Time
      PROVE  clean' = clean
  BY <1>3 DEF Register, Connect, Disconnect, ReloadConfig, Time
<1> QED BY <1>1, <1>2, <1>3 DEF FrontNext

LEMMA StepReap == FrontInv /\ ReapInv /\ [FrontNext]_vars => ReapInv'
<1> SUFFICES ASSUME FrontInv, ReapInv, [FrontNext]_vars,
                    NEW c \in Cleaners, NEW t \in Targets(clean'[c])
             PROVE  Settled(t)'
  BY DEF ReapInv, Targets
<1>1. [StoreNext]_storeVars /\ StoreInv
  BY StutterOrStore DEF FrontInv
<1>2. ASSUME t \in Targets(clean[c]) PROVE Settled(t)'
  BY <1>1, <1>2, SettledStays, TargetTypes DEF ReapInv, FrontInv
<1>3. CASE CleanBegin(c)
  BY <1>1, <1>3, BeginSettled, SettledStays
<1>4. CASE CleanStep(c) /\ ~CleanBegin(c)
  BY <1>2, <1>4, TargetsShrink
<1>5. CASE Restart
  BY <1>5 DEF Restart, Targets, Idle
<1>6. ASSUME clean'[c] = clean[c] PROVE Settled(t)'
  BY <1>2, <1>6
<1>7. CASE UNCHANGED vars
  BY <1>6, <1>7 DEF vars
<1> QED BY <1>3, <1>4, <1>5, <1>6, <1>7, CleanFrame

\* The transactions that delete nothing.
LEMMA LivesOn ==
    ASSUME StoreInv, NEW t \in SetupTokens, Live(t),
           \/ \E u \in SetupTokens, s \in Subdomains, m \in Modes, p \in Ports,
                 inf \in BOOLEAN, ttl \in TTLs : CreateSession(u, s, m, p, inf, ttl)
           \/ \E u \in SetupTokens, p \in PubHex : RegisterPubkey(u, p)
           \/ \E u \in SetupTokens, n \in Nonces : UpdateSessionNonce(u, n)
           \/ \E u \in SetupTokens : ActivateSession(u)
           \/ \E u \in SetupTokens \ {t} : DeleteSession(u)
           \/ Tick
           \/ UNCHANGED storeVars
    PROVE  Live(t)'
<1>1. sessions \in [SetupTokens -> Session \cup {None}] /\ sessions[t] \in Session
  BY DEF StoreInv, StoreTypeOK, Live
<1>2. ASSUME NEW u \in SetupTokens, NEW s \in Subdomains, NEW m \in Modes,
             NEW p \in Ports, NEW inf \in BOOLEAN, NEW ttl \in TTLs,
             CreateSession(u, s, m, p, inf, ttl)
      PROVE  Live(t)'
  <2>1. u # t
    BY <1>2 DEF CreateSession, Fresh, StoreInv, TokensIssued
  <2> QED BY <2>1, <1>1, <1>2 DEF CreateSession, Live
<1>3. ASSUME NEW u \in SetupTokens, NEW p \in PubHex, RegisterPubkey(u, p)
      PROVE  Live(t)'
  <2>1. [sessions[t] EXCEPT !.key = p.key] \in Session
    BY <1>1 DEF Session, PubHex
  <2> QED BY <2>1, <1>1, <1>3, NoneAssumption DEF RegisterPubkey, Live
<1>4. ASSUME NEW u \in SetupTokens, NEW n \in Nonces, UpdateSessionNonce(u, n)
      PROVE  Live(t)'
  <2>1. WithNonce(sessions[t], n) \in Session
    BY <1>1, ZeroAge DEF Session, WithNonce
  <2> QED BY <2>1, <1>1, <1>4, NoneAssumption DEF UpdateSessionNonce, Live
<1>5. ASSUME NEW u \in SetupTokens, ActivateSession(u) PROVE Live(t)'
  <2>1. AsActivated(sessions[t]) \in Session
    BY <1>1, ZeroAge DEF Session, AsActivated
  <2> QED BY <2>1, <1>1, <1>5, NoneAssumption DEF ActivateSession, Live
<1>6. ASSUME NEW u \in SetupTokens \ {t}, DeleteSession(u) PROVE Live(t)'
  BY <1>1, <1>6 DEF DeleteSession, Live
<1>7. CASE Tick
  BY <1>1, <1>7, AgedType, NoneAssumption DEF Tick, Live
<1>8. CASE UNCHANGED storeVars
  BY <1>8 DEF storeVars, Live
<1> QED BY <1>2, <1>3, <1>4, <1>5, <1>6, <1>7, <1>8

\* A session is deleted by a verification that is denied or by a cleaner.
LEMMA DeletedBy ==
    ASSUME FrontInv, FrontNext, NEW t \in SetupTokens, Live(t), ~Live(t)'
    PROVE  \/ \E r \in Requests : VerifyDeny(r) /\ req[r].sess.tok = t
           \/ \E c \in Cleaners : CleanDelete(c) /\ clean[c].tok = t
<1> USE DEF FrontInv
<1>1. ASSUME NEW r \in Requests, ScriptCreate(r) PROVE FALSE
  <2>1. req[r].port \in Ports /\ "http" \in Modes
    BY <1>1, HandlerShape, FrontendAssumption DEF ServerTypeOK, ScriptCreate
  <2>2. PICK u \in SetupTokens, s \in Subdomains, inf \in BOOLEAN, ttl \in TTLs :
            CreateSession(u, s, "http", req[r].port, inf, ttl)
    BY <1>1 DEF ScriptCreate
  <2> QED BY <2>1, <2>2, LivesOn
<1>2. ASSUME NEW u \in SetupTokens, NEW p \in Wire, Register(u, p) PROVE FALSE
  BY <1>2, LivesOn, FrontendAssumption DEF Register
<1>3. ASSUME NEW r \in Requests, ChallengeEnd(r) PROVE FALSE
  <2>1. req[r].tok \in SetupTokens
    BY <1>3, HandlerShape DEF ServerTypeOK, ChallengeEnd
  <2>2. \/ \E n \in Nonces : UpdateSessionNonce(req[r].tok, n)
        \/ UNCHANGED storeVars
    BY <1>3 DEF ChallengeEnd
  <2> QED BY <2>1, <2>2, LivesOn
<1>4. ASSUME NEW r \in Requests, VerifyDeny(r) PROVE req[r].sess.tok = t
  <2>1. req[r].sess.tok \in SetupTokens
    BY <1>4, HandlerShape, VerifyShape DEF ServerTypeOK, VerifyDeny
  <2>2. UNCHANGED storeVars \/ DeleteSession(req[r].sess.tok)
    BY <1>4 DEF VerifyDeny
  <2> QED BY <2>1, <2>2, LivesOn
<1>5. ASSUME NEW r \in Requests, VerifyActivate(r) PROVE FALSE
  <2>1. req[r].sess.tok \in SetupTokens
    BY <1>5, HandlerShape, VerifyShape DEF ServerTypeOK, VerifyActivate
  <2>2. UNCHANGED storeVars \/ ActivateSession(req[r].sess.tok)
    BY <1>5 DEF VerifyActivate
  <2> QED BY <2>1, <2>2, LivesOn
<1>6. ASSUME NEW c \in Cleaners, CleanDelete(c) PROVE clean[c].tok = t
  <2>1. clean[c].tok \in SetupTokens
    BY <1>6, CleanerShape DEF ServerTypeOK, CleanDelete, Delete
  <2>2. UNCHANGED storeVars \/ DeleteSession(clean[c].tok)
    BY <1>6 DEF CleanDelete
  <2> QED BY <2>1, <2>2, LivesOn
<1>7. ASSUME Time PROVE FALSE
  BY <1>7, LivesOn DEF Time
<1>8. ASSUME UNCHANGED storeVars PROVE FALSE
  BY <1>8, LivesOn
<1>9. ASSUME NEW r \in Requests,
             \/ ScriptCheck(r) \/ ScriptPort(r) \/ ScriptRefused(r)
             \/ VerifyPerms(r) \/ VerifyAddUser(r) \/ VerifyRoute(r)
             \/ \E p \in Wire : ChallengeBegin(r, p) \/ VerifyBegin(r, p)
      PROVE  UNCHANGED storeVars
  BY <1>9 DEF ScriptCheck, ScriptPort, ScriptRefused, VerifyPerms, VerifyAddUser, VerifyRoute,
              ChallengeBegin, VerifyBegin, storeVars
<1>10. ASSUME NEW c \in Cleaners, CleanStep(c), ~CleanDelete(c)
       PROVE  UNCHANGED storeVars
  BY <1>10 DEF CleanStep, CleanBegin, CleanScan, CleanRoutes, CleanNext, CleanUser,
               CleanEnd, storeVars
<1>11. ASSUME \/ \E x \in Clients : Disconnect(x) \/ \E p \in Ports : Connect(x, p)
              \/ ReloadConfig \/ Restart
       PROVE  UNCHANGED storeVars
  BY <1>11 DEF Connect, Disconnect, ReloadConfig, Restart, storeVars
<1> QED BY <1>1, <1>2, <1>3, <1>4, <1>5, <1>6, <1>7, <1>8, <1>9, <1>10, <1>11
        DEF FrontNext, HandlerStep

\* Whatever is listed and however late it is deleted, a pending session is
\* never deleted by a cleaner: only its own denied verification removes it.
THEOREM PendingSpared == FrontSpec => PendingKept
<1>1. FrontInv /\ ReapInv /\ [FrontNext]_vars => [PendingStep]_vars
  <2> SUFFICES ASSUME FrontInv, ReapInv, FrontNext, NEW t \in SetupTokens,
                      Pending(t), ~Live(t)'
               PROVE  \E r \in Requests : req[r].pc = "deny" /\ req[r].sess.tok = t
    BY DEF PendingStep
  <2>1. ASSUME NEW c \in Cleaners, CleanDelete(c), clean[c].tok = t PROVE FALSE
    BY <2>1 DEF CleanDelete, ReapInv, Targets, Settled
  <2> QED BY <2>1, DeletedBy DEF Pending, VerifyDeny
<1> QED BY <1>1, InitReap, StepReap, FrontInvariant, PTL DEF FrontSpec, PendingKept

-----------------------------------------------------------------------------
(* What a step may do to a session, to a verification and to the cleaners' *)
(* targets: what the invariants below are made of changes in few ways.     *)

\* A verification under way.
Held(r) == req[r].pc \in {"perms", "deny", "user", "route", "activate"}

\* The shape of a verification, and of a cleaner and its targets.
LEMMA HeldShape ==
    ASSUME FrontInv, NEW r \in Requests, Held(r)
    PROVE  /\ req[r] \in Verify
           /\ req[r].sess \in Copy
           /\ req[r].sess.tok \in SetupTokens
           /\ req[r].sess.sub \in Subdomains
           /\ req[r].sess.port \in Ports
BY HandlerShape, VerifyShape DEF FrontInv, ServerTypeOK, Held

\* A step of the store that neither creates nor activates t, nor ages it.
SameStage(t) ==
    /\ Live(t)
    /\ sessions'[t].activated = sessions[t].activated
    /\ sessions'[t].activeAge = sessions[t].activeAge

LEMMA QuietStage ==
    ASSUME StoreInv, NEW t \in SetupTokens, Live(t)',
           \/ \E u \in SetupTokens, p \in PubHex : RegisterPubkey(u, p)
           \/ \E u \in SetupTokens, n \in Nonces : UpdateSessionNonce(u, n)
           \/ \E u \in SetupTokens \ {t} : ActivateSession(u)
           \/ \E u \in SetupTokens : DeleteSession(u)
           \/ UNCHANGED storeVars
    PROVE  SameStage(t)
<1>1. sessions \in [SetupTokens -> Session \cup {None}]
  BY DEF StoreInv, StoreTypeOK
<1>2. ASSUME NEW u \in SetupTokens, NEW p \in PubHex, RegisterPubkey(u, p)
      PROVE  SameStage(t)
  <2>1. Live(u) /\ sessions[u] \in Session
    BY <1>1, <1>2 DEF RegisterPubkey, Registrable, Pending, Live
  <2>2. CASE u = t
    BY <1>1, <1>2, <2>1, <2>2 DEF RegisterPubkey, SameStage, Session
  <2>3. CASE u # t
    BY <1>1, <1>2, <2>3 DEF RegisterPubkey, SameStage, Live
  <2> QED BY <2>2, <2>3
<1>3. ASSUME NEW u \in SetupTokens, NEW n \in Nonces, UpdateSessionNonce(u, n)
      PROVE  SameStage(t)
  <2>1. Live(u) /\ sessions[u] \in Session
    BY <1>1, <1>3 DEF UpdateSessionNonce, Live
  <2>2. CASE u = t
    BY <1>1, <1>3, <2>1, <2>2 DEF UpdateSessionNonce, WithNonce, SameStage, Session
  <2>3. CASE u # t
    BY <1>1, <1>3, <2>3 DEF UpdateSessionNonce, SameStage, Live
  <2> QED BY <2>2, <2>3
<1>4. ASSUME NEW u \in SetupTokens \ {t}, ActivateSession(u) PROVE SameStage(t)
  BY <1>1, <1>4 DEF ActivateSession, SameStage, Live
<1>5. ASSUME NEW u \in SetupTokens, DeleteSession(u) PROVE SameStage(t)
  <2>1. u # t
    BY <1>1, <1>5 DEF DeleteSession, Live
  <2> QED BY <1>1, <1>5, <2>1 DEF DeleteSession, SameStage, Live
<1>6. CASE UNCHANGED storeVars
  BY <1>6 DEF storeVars, SameStage, Live
<1> QED BY <1>2, <1>3, <1>4, <1>5, <1>6

\* A session that is there after a step was there before, as active and as
\* old, unless the step created it, or activated it, or was the clock's.
Created(t)   == t \notin issued /\ ~Live(t) /\ ~Active(t)'
Aging(t)     == /\ Time /\ Live(t)
                /\ sessions'[t].activated = sessions[t].activated
                /\ sessions'[t].activeAge =
                      IF sessions[t].activated THEN Older(sessions[t].activeAge)
                                               ELSE sessions[t].activeAge
Activated(t) == /\ Live(t) /\ Active(t)' /\ sessions'[t].activeAge = 0
                /\ \E r \in Requests : VerifyActivate(r) /\ req[r].sess.tok = t

LEMMA SessionStep ==
    ASSUME FrontInv, FrontNext, NEW t \in SetupTokens, Live(t)'
    PROVE  SameStage(t) \/ Created(t) \/ Aging(t) \/ Activated(t)
<1> USE DEF FrontInv
<1>0. sessions \in [SetupTokens -> Session \cup {None}]
  BY DEF StoreInv, StoreTypeOK
<1>1. ASSUME NEW r \in Requests, ScriptCreate(r) PROVE SameStage(t) \/ Created(t)
  <2>1. PICK u \in SetupTokens, s \in Subdomains, inf \in BOOLEAN, ttl \in TTLs :
            CreateSession(u, s, "http", req[r].port, inf, ttl)
    BY <1>1 DEF ScriptCreate
  <2>2. CASE u = t
    <3>1. t \notin issued /\ ~Live(t)
      BY <2>1, <2>2 DEF CreateSession, Fresh, StoreInv, TokensIssued
    <3>2. ~sessions'[t].activated
      BY <1>0, <2>1, <2>2 DEF CreateSession
    <3> QED BY <3>1, <3>2 DEF Created, Active
  <2>3. CASE u # t
    BY <1>0, <2>1, <2>3 DEF CreateSession, SameStage, Live
  <2> QED BY <2>2, <2>3
<1>2. ASSUME NEW u \in SetupTokens, NEW p \in Wire, Register(u, p) PROVE SameStage(t)
  BY <1>2, QuietStage, FrontendAssumption DEF Register
<1>3. ASSUME NEW r \in Requests, ChallengeEnd(r) PROVE SameStage(t)
  <2>1. req[r].tok \in SetupTokens
    BY <1>3, HandlerShape DEF ServerTypeOK, ChallengeEnd
  <2>2. \/ \E n \in Nonces : UpdateSessionNonce(req[r].tok, n)
        \/ UNCHANGED storeVars
    BY <1>3 DEF ChallengeEnd
  <2> QED BY <2>1, <2>2, QuietStage
<1>4. ASSUME NEW r \in Requests, VerifyDeny(r) PROVE SameStage(t)
  <2>1. req[r].sess.tok \in SetupTokens
    BY <1>4, HandlerShape, VerifyShape DEF ServerTypeOK, VerifyDeny
  <2>2. UNCHANGED storeVars \/ DeleteSession(req[r].sess.tok)
    BY <1>4 DEF VerifyDeny
  <2> QED BY <2>1, <2>2, QuietStage
<1>5. ASSUME NEW r \in Requests, VerifyActivate(r) PROVE SameStage(t) \/ Activated(t)
  <2>1. req[r].sess.tok \in SetupTokens
    BY <1>5, HandlerShape, VerifyShape DEF ServerTypeOK, VerifyActivate
  <2>2. UNCHANGED storeVars \/ ActivateSession(req[r].sess.tok)
    BY <1>5 DEF VerifyActivate
  <2>3. CASE ActivateSession(t) /\ req[r].sess.tok = t
    <3>1. sessions[t] \in Session /\ sessions'[t] = AsActivated(sessions[t]) /\ Live(t)
      BY <1>0, <2>3 DEF ActivateSession, Live
    <3>2. sessions'[t].activated /\ sessions'[t].activeAge = 0
      BY <3>1 DEF Session, AsActivated
    <3> QED BY <1>5, <2>3, <3>1, <3>2 DEF Activated, Active
  <2> QED BY <2>1, <2>2, <2>3, QuietStage
<1>6. ASSUME NEW c \in Cleaners, CleanDelete(c) PROVE SameStage(t)
  <2>1. clean[c].tok \in SetupTokens
    BY <1>6, CleanerShape DEF ServerTypeOK, CleanDelete, Delete
  <2>2. UNCHANGED storeVars \/ DeleteSession(clean[c].tok)
    BY <1>6 DEF CleanDelete
  <2> QED BY <2>1, <2>2, QuietStage
<1>7. ASSUME Time PROVE Aging(t)
  <2>1. Live(t) /\ sessions[t] \in Session /\ sessions'[t] = Aged(sessions[t])
    BY <1>0, <1>7 DEF Time, Tick, Live
  <2> QED BY <1>7, <2>1 DEF Aging, Aged, Session
<1>8. ASSUME UNCHANGED storeVars PROVE SameStage(t)
  BY <1>8, QuietStage
<1>9. ASSUME NEW r \in Requests,
             \/ ScriptCheck(r) \/ ScriptPort(r) \/ ScriptRefused(r)
             \/ VerifyPerms(r) \/ VerifyAddUser(r) \/ VerifyRoute(r)
             \/ \E p \in Wire : ChallengeBegin(r, p) \/ VerifyBegin(r, p)
      PROVE  UNCHANGED storeVars
  BY <1>9 DEF ScriptCheck, ScriptPort, ScriptRefused, VerifyPerms, VerifyAddUser, VerifyRoute,
              ChallengeBegin, VerifyBegin, storeVars
<1>10. ASSUME NEW c \in Cleaners, CleanStep(c), ~CleanDelete(c)
       PROVE  UNCHANGED storeVars
  BY <1>10 DEF CleanStep, CleanBegin, CleanScan, CleanRoutes, CleanNext, CleanUser,
               CleanEnd, storeVars
<1>11. ASSUME \/ \E x \in Clients : Disconnect(x) \/ \E p \in Ports : Connect(x, p)
              \/ ReloadConfig \/ Restart
       PROVE  UNCHANGED storeVars
  BY <1>11 DEF Connect, Disconnect, ReloadConfig, Restart, storeVars
<1> QED BY <1>1, <1>2, <1>3, <1>4, <1>5, <1>6, <1>7, <1>8, <1>9, <1>10, <1>11
        DEF FrontNext, HandlerStep

\* A verification that is there after a step was there before, with the same
\* copy, or has just begun with the copy of a pending session.
Begun(r) == \E p \in Wire : VerifyBegin(r, p)
Moved(r) ==
    /\ Held(r)
    /\ req'[r].sess = req[r].sess
    /\ req'[r].pc # "perms" =>
            \/ req[r].pc # "perms" /\ (req'[r].pc = "deny" <=> req[r].pc = "deny")
            \/ req[r].pc = "perms" /\ (req'[r].pc = "deny" <=> ~Permitted(req[r].sess))
    /\ req'[r].pc \in {"route", "activate"} =>
            req[r].pc \in {"route", "activate"} \/ VerifyAddUser(r)

LEMMA HeldStep ==
    ASSUME FrontInv, FrontNext, NEW r \in Requests, Held(r)'
    PROVE  Moved(r) \/ Begun(r)
<1> USE DEF FrontInv
<1>0. req \in [Requests -> Handler]
  BY DEF ServerTypeOK
<1>1. ASSUME req'[r] = req[r] PROVE Moved(r)
  BY <1>1 DEF Moved, Held
<1>2. ASSUME NEW q \in Requests, NEW h, Goto(q, h), q # r PROVE req'[r] = req[r]
  BY <1>0, <1>2 DEF Goto
<1>3. ASSUME NEW q \in Requests, VerifyPerms(q) \/ VerifyAddUser(q) \/ VerifyRoute(q)
      PROVE  Moved(r)
  <2>1. CASE q # r
    BY <1>1, <1>2, <1>3, <2>1 DEF VerifyPerms, VerifyAddUser, VerifyRoute
  <2>2. CASE q = r
    <3>1. Held(r) /\ req[r] \in Verify
      BY <1>3, <2>2, HeldShape DEF Held, VerifyPerms, VerifyAddUser, VerifyRoute
    <3>2. \A s : /\ [req[r] EXCEPT !.pc = s].sess = req[r].sess
                 /\ [req[r] EXCEPT !.pc = s].pc = s
      BY <3>1 DEF Verify
    <3>4. \/ req[r].pc = "perms" /\ Permitted(req[r].sess)
                /\ req'[r] = [req[r] EXCEPT !.pc = "user"]
          \/ req[r].pc = "perms" /\ ~Permitted(req[r].sess)
                /\ req'[r] = [req[r] EXCEPT !.pc = "deny"]
          \/ VerifyAddUser(r) /\ req'[r] = [req[r] EXCEPT !.pc = "route"]
          \/ req[r].pc = "route" /\ req'[r] = [req[r] EXCEPT !.pc = "activate"]
      BY <1>0, <1>3, <2>2 DEF VerifyPerms, VerifyAddUser, VerifyRoute, Goto
    <3>5. VerifyAddUser(r) => req[r].pc = "user"
      BY DEF VerifyAddUser
    <3> QED BY <3>1, <3>2, <3>4, <3>5 DEF Moved
  <2> QED BY <2>1, <2>2
<1>4. ASSUME NEW q \in Requests,
             \/ ScriptCheck(q) \/ ScriptPort(q) \/ ScriptCreate(q) \/ ScriptRefused(q)
             \/ ChallengeEnd(q) \/ VerifyDeny(q) \/ VerifyActivate(q)
             \/ \E p \in Wire : ChallengeBegin(q, p)
      PROVE  Moved(r)
  <2>1. CASE q # r
    BY <1>1, <1>2, <1>4, <2>1
       DEF ScriptCheck, ScriptPort, ScriptCreate, ScriptRefused, ChallengeEnd,
           VerifyDeny, VerifyActivate, ChallengeBegin
  <2>2. CASE q = r
    <3>1. \/ req'[r] = Idle \/ req'[r] = [pc |-> "port"]
          \/ \E p : req'[r] = [pc |-> "create", port |-> p]
          \/ \E t : req'[r] = [pc |-> "nonce", tok |-> t]
      BY <1>0, <1>4, <2>2
         DEF ScriptCheck, ScriptPort, ScriptCreate, ScriptRefused, ChallengeEnd,
             VerifyDeny, VerifyActivate, ChallengeBegin, Goto
    <3>2. /\ Idle.pc = "idle" /\ [pc |-> "port"].pc = "port"
          /\ \A p : [pc |-> "create", port |-> p].pc = "create"
          /\ \A t : [pc |-> "nonce", tok |-> t].pc = "nonce"
      BY DEF Idle
    <3>3. req'[r].pc \in {"idle", "port", "create", "nonce"}
      BY <3>1, <3>2
    <3> QED BY <3>3 DEF Held
  <2> QED BY <2>1, <2>2
<1>5. ASSUME NEW q \in Requests, NEW p \in Wire, VerifyBegin(q, p)
      PROVE  Moved(r) \/ Begun(r)
  BY <1>1, <1>2, <1>5 DEF VerifyBegin, Begun
<1>6. CASE Restart
  BY <1>6 DEF Restart, Held, Idle
<1>7. ASSUME UNCHANGED req PROVE Moved(r)
  BY <1>1, <1>7
<1>8. ASSUME \/ \E t \in SetupTokens, p \in Wire : Register(t, p)
             \/ \E c \in Cleaners : CleanStep(c)
             \/ \E x \in Clients : Disconnect(x) \/ \E p \in Ports : Connect(x, p)
             \/ ReloadConfig \/ Time
      PROVE  UNCHANGED req
  BY <1>8 DEF Register, CleanStep, CleanBegin, CleanScan, CleanRoutes, CleanNext,
              CleanUser, CleanDelete, CleanEnd, Connect, Disconnect, ReloadConfig, Time
<1> QED BY <1>3, <1>4, <1>5, <1>6, <1>7, <1>8 DEF FrontNext, HandlerStep

\* What a verification begins with: a pending session that has a key.
LEMMA BegunFacts ==
    ASSUME FrontInv, NEW r \in Requests, Begun(r)
    PROVE  /\ UNCHANGED storeVars
           /\ req'[r].pc = "perms"
           /\ LET t == req'[r].sess.tok IN
              /\ t \in SetupTokens /\ t \in issued /\ Pending(t)
              /\ req'[r].sess = CopyOf(t)
              /\ sessions[t].key # None
<1>1. PICK p \in Wire : VerifyBegin(r, p)
  BY DEF Begun
<1> DEFINE t == GetSessionByPubkey(p)
<1>2. p \in PubHex /\ p.key # None
  BY FrontendAssumption, NoneAssumption DEF PubHex
<1>3. t \in SetupTokens /\ sessions[t] \in Session /\ t # None /\ ~sessions[t].activated
  BY <1>1, <1>2, FoundType DEF VerifyBegin, FrontInv, StoreInv
<1>4. Live(t) /\ t \in issued /\ sessions[t].key = p.key
  BY <1>2, <1>3, NoneAssumption
     DEF Live, FrontInv, StoreInv, TokensIssued, KeyIndexSound, GetSessionByPubkey, Lookup
<1>5. /\ req'[r].pc = "perms" /\ req'[r].sess = CopyOf(t) /\ CopyOf(t).tok = t
      /\ UNCHANGED storeVars
  BY <1>1 DEF VerifyBegin, Goto, CopyOf, FrontInv, ServerTypeOK
<1> HIDE DEF t
<1> QED BY <1>2, <1>3, <1>4, <1>5 DEF Pending

\* What becomes of a session that was there: it stays the same or is gone.
LEMMA SameSession ==
    ASSUME StoreInv, [StoreNext]_storeVars, NEW t \in SetupTokens
    PROVE  /\ t \in issued => t \in issued'
           /\ t \in issued /\ Live(t)' => Live(t)
           /\ Live(t) /\ Live(t)' =>
                /\ sessions'[t].sub = sessions[t].sub
                /\ sessions'[t].port = sessions[t].port
                /\ CopyOf(t)' = CopyOf(t)
                /\ sessions[t].key # None => sessions'[t].key # None
                /\ Active(t) => Active(t)'
<1>1. t \in issued => t \in issued'
  BY DEF StoreNext, CreateSession, RegisterPubkey, UpdateSessionNonce,
         ActivateSession, DeleteSession, Tick, storeVars
<1>2. t \in issued /\ Live(t)' => Live(t)
  BY NoReturnLemma DEF NoReturnStep, Live, storeVars
<1>3. ASSUME Live(t), Live(t)'
      PROVE  /\ sessions'[t].sub = sessions[t].sub
             /\ sessions'[t].port = sessions[t].port
             /\ sessions'[t].infinity = sessions[t].infinity
             /\ sessions[t].key # None => sessions'[t].key = sessions[t].key
             /\ sessions[t].activated => sessions'[t].activated
  BY <1>3, IdentityLemma DEF IdentityStep, Live, storeVars
<1> QED BY <1>1, <1>2, <1>3 DEF CopyOf, Active

-----------------------------------------------------------------------------
(* What handlers work with and what chisel knows is true of the session,   *)
(* without any assumption on cleaners, configurations or slow handlers.    *)

\* The copy in a handler is the session's as long as that lives, whose key
\* was registered.
CopyFaithful == \A r \in Requests : Held(r) =>
    LET t == req[r].sess.tok IN
    /\ t \in issued
    /\ Live(t) => req[r].sess = CopyOf(t) /\ sessions[t].key # None

\* So nothing is activated without a key,
ActiveHasKey == \A t \in SetupTokens : Active(t) => sessions[t].key # None

\* and the password under a name is that of a session of this name.
RightfulUsers == \A s \in Subdomains : users[s] # None =>
    LET t == users[s] IN
    /\ t \in issued
    /\ Live(t) => sessions[t].sub = s

AccessInv == CopyFaithful /\ ActiveHasKey /\ RightfulUsers

LEMMA InitAccess == FrontInit => AccessInv
<1>1. FrontInit => \A t \in SetupTokens : ~Active(t)
  BY DEF FrontInit, StoreInit, Active, Live
<1> QED BY <1>1
        DEF FrontInit, AccessInv, CopyFaithful, ActiveHasKey, RightfulUsers, Held, Idle

\* Tunnels come and go by Connect and Disconnect, or all at once in a crash.
LEMMA TunnelsFrame ==
    ASSUME FrontNext
    PROVE  \/ UNCHANGED <<at, pipes>>
           \/ \E x \in Clients : Disconnect(x) \/ \E p \in Ports : Connect(x, p)
           \/ Restart
<1>1. ASSUME NEW r \in Requests,
             \/ ScriptCheck(r) \/ HandlerStep(r)
             \/ \E p \in Wire : ChallengeBegin(r, p) \/ VerifyBegin(r, p)
      PROVE  UNCHANGED <<at, pipes>>
  BY <1>1 DEF ScriptCheck, HandlerStep, ScriptPort, ScriptCreate, ScriptRefused,
              ChallengeEnd, VerifyPerms, VerifyDeny, VerifyAddUser, VerifyRoute,
              VerifyActivate, ChallengeBegin, VerifyBegin, tunnelVars
<1>2. ASSUME \/ \E u \in SetupTokens, p \in Wire : Register(u, p)
             \/ \E c \in Cleaners : CleanStep(c)
             \/ ReloadConfig \/ Time
      PROVE  UNCHANGED <<at, pipes>>
  BY <1>2 DEF Register, CleanStep, CleanBegin, CleanScan, CleanRoutes, CleanNext,
              CleanUser, CleanDelete, CleanEnd, ReloadConfig, Time, tunnelVars
<1> QED BY <1>1, <1>2 DEF FrontNext

\* A user is registered by a verification, removed by a cleaner, and rebuilt
\* from the names after a crash.
LEMMA UsersStep ==
    ASSUME FrontInv, FrontNext, NEW s \in Subdomains
    PROVE  \/ users'[s] = users[s]
           \/ \E r \in Requests :
                /\ VerifyAddUser(r) /\ UNCHANGED storeVars
                /\ s = req[r].sess.sub /\ users'[s] = req[r].sess.tok
           \/ \E c \in Cleaners :
                CleanUser(c) /\ s = clean[c].sub /\ users'[s] = None
           \/ Restart /\ UNCHANGED storeVars /\ users'[s] = Restored(s)
<1> USE DEF FrontInv
<1>1. ASSUME NEW r \in Requests, VerifyAddUser(r), users'[s] # users[s]
      PROVE  s = req[r].sess.sub /\ users'[s] = req[r].sess.tok /\ UNCHANGED storeVars
  BY <1>1 DEF VerifyAddUser, ServerTypeOK
<1>2. ASSUME NEW c \in Cleaners, CleanUser(c), users'[s] # users[s]
      PROVE  s = clean[c].sub /\ users'[s] = None
  BY <1>2 DEF CleanUser, ServerTypeOK
<1>3. CASE Restart
  BY <1>3 DEF Restart
<1>4. ASSUME NEW r \in Requests,
             \/ ScriptCheck(r) \/ ScriptPort(r) \/ ScriptCreate(r) \/ ScriptRefused(r)
             \/ ChallengeEnd(r) \/ VerifyPerms(r) \/ VerifyDeny(r) \/ VerifyRoute(r)
             \/ VerifyActivate(r)
             \/ \E p \in Wire : ChallengeBegin(r, p) \/ VerifyBegin(r, p)
      PROVE  users' = users
  BY <1>4 DEF ScriptCheck, ScriptPort, ScriptCreate, ScriptRefused, ChallengeEnd,
              VerifyPerms, VerifyDeny, VerifyRoute, VerifyActivate, ChallengeBegin,
              VerifyBegin, serverVars
<1>5. ASSUME NEW c \in Cleaners, CleanStep(c), ~CleanUser(c) PROVE users' = users
  BY <1>5 DEF CleanStep, CleanBegin, CleanScan, CleanRoutes, CleanNext, CleanDelete,
              CleanEnd, serverVars
<1>6. ASSUME \/ \E u \in SetupTokens, p \in Wire : Register(u, p)
             \/ \E x \in Clients : Disconnect(x) \/ \E p \in Ports : Connect(x, p)
             \/ ReloadConfig \/ Time
      PROVE  users' = users
  BY <1>6 DEF Register, Connect, Disconnect, ReloadConfig, Time, serverVars
<1> QED BY <1>1, <1>2, <1>3, <1>4, <1>5, <1>6 DEF FrontNext, HandlerStep

\* So is a route.
LEMMA RoutesStep ==
    ASSUME FrontInv, FrontNext, NEW s \in Subdomains
    PROVE  \/ routes'[s] = routes[s]
           \/ \E r \in Requests :
                /\ VerifyRoute(r) /\ UNCHANGED storeVars
                /\ s = req[r].sess.sub /\ routes'[s] = req[r].sess.port
           \/ \E c \in Cleaners :
                CleanRoutes(c) /\ s \in clean[c].names /\ routes'[s] = None
           \/ /\ Restart /\ UNCHANGED storeVars
              /\ routes'[s] = IF Restored(s) = None THEN None
                              ELSE sessions[Restored(s)].port
<1> USE DEF FrontInv
<1>1. ASSUME NEW r \in Requests, VerifyRoute(r), routes'[s] # routes[s]
      PROVE  s = req[r].sess.sub /\ routes'[s] = req[r].sess.port /\ UNCHANGED storeVars
  BY <1>1 DEF VerifyRoute, ServerTypeOK
<1>2. ASSUME NEW c \in Cleaners, CleanRoutes(c), routes'[s] # routes[s]
      PROVE  s \in clean[c].names /\ routes'[s] = None
  BY <1>2 DEF CleanRoutes, ServerTypeOK
<1>3. CASE Restart
  BY <1>3 DEF Restart
<1>4. ASSUME NEW r \in Requests,
             \/ ScriptCheck(r) \/ ScriptPort(r) \/ ScriptCreate(r) \/ ScriptRefused(r)
             \/ ChallengeEnd(r) \/ VerifyPerms(r) \/ VerifyDeny(r) \/ VerifyAddUser(r)
             \/ VerifyActivate(r)
             \/ \E p \in Wire : ChallengeBegin(r, p) \/ VerifyBegin(r, p)
      PROVE  routes' = routes
  BY <1>4 DEF ScriptCheck, ScriptPort, ScriptCreate, ScriptRefused, ChallengeEnd,
              VerifyPerms, VerifyDeny, VerifyAddUser, VerifyActivate, ChallengeBegin,
              VerifyBegin, serverVars
<1>5. ASSUME NEW c \in Cleaners, CleanStep(c), ~CleanRoutes(c) PROVE routes' = routes
  BY <1>5 DEF CleanStep, CleanBegin, CleanScan, CleanUser, CleanNext, CleanDelete,
              CleanEnd, serverVars
<1>6. ASSUME \/ \E u \in SetupTokens, p \in Wire : Register(u, p)
             \/ \E x \in Clients : Disconnect(x) \/ \E p \in Ports : Connect(x, p)
             \/ ReloadConfig \/ Time
      PROVE  routes' = routes
  BY <1>6 DEF Register, Connect, Disconnect, ReloadConfig, Time, serverVars
<1> QED BY <1>1, <1>2, <1>3, <1>4, <1>5, <1>6 DEF FrontNext, HandlerStep

LEMMA StepAccess ==
    FrontInv /\ AccessInv /\ [FrontNext]_vars => AccessInv'
<1> SUFFICES ASSUME FrontInv, AccessInv, FrontNext PROVE AccessInv'
  <2>1. CASE UNCHANGED vars
    BY <2>1 DEF vars, AccessInv, CopyFaithful, ActiveHasKey, RightfulUsers, Held, Live,
                Active, CopyOf
  <2> QED BY <2>1
<1> USE DEF FrontInv, AccessInv
<1>0. [StoreNext]_storeVars
  BY StutterOrStore
<1>1. CopyFaithful'
  <2> SUFFICES ASSUME NEW r \in Requests, Held(r)'
               PROVE  LET t == req[r].sess.tok IN
                      /\ (t \in issued)'
                      /\ Live(t)' => (req[r].sess = CopyOf(t) /\ sessions[t].key # None)'
    BY DEF CopyFaithful
  <2>1. CASE Moved(r)
    <3>1. Held(r) /\ req'[r].sess = req[r].sess /\ req[r].sess.tok \in SetupTokens
      BY <2>1, HeldShape DEF Moved
    <3> QED BY <3>1, <1>0, SameSession DEF CopyFaithful
  <2>2. CASE Begun(r)
    BY <2>2, BegunFacts DEF storeVars, Live, CopyOf
  <2> QED BY <2>1, <2>2, HeldStep
<1>2. ActiveHasKey'
  <2> SUFFICES ASSUME NEW t \in SetupTokens, Active(t)' PROVE sessions'[t].key # None
    BY DEF ActiveHasKey
  <2>1. CASE Active(t)
    BY <2>1, <1>0, SameSession DEF ActiveHasKey, Active
  <2>2. CASE Activated(t)
    <3>1. PICK r \in Requests : VerifyActivate(r) /\ req[r].sess.tok = t
      BY <2>2 DEF Activated
    <3>2. Live(t) /\ sessions[t].key # None
      BY <2>2, <3>1 DEF Activated, CopyFaithful, VerifyActivate, Held
    <3> QED BY <3>2, <1>0, SameSession DEF Active
  <2> QED BY <2>1, <2>2, SessionStep DEF Active, Live, SameStage, Created, Aging
<1>3. RightfulUsers'
  <2> SUFFICES ASSUME NEW s \in Subdomains, users'[s] # None
               PROVE  /\ users'[s] \in issued'
                      /\ Live(users[s])' => sessions'[users'[s]].sub = s
    BY DEF RightfulUsers
  <2>1. CASE users'[s] = users[s]
    <3>1. users[s] \in SetupTokens
      BY <2>1 DEF ServerTypeOK
    <3> QED BY <2>1, <3>1, <1>0, SameSession DEF RightfulUsers
  <2>2. CASE users'[s] = bySub[s] /\ UNCHANGED storeVars
    <3>1. bySub[s] \in SetupTokens
      BY <2>2 DEF StoreInv, StoreTypeOK
    <3>2. Live(bySub[s]) /\ sessions[bySub[s]].sub = s /\ bySub[s] \in issued
      BY <3>1 DEF StoreInv, SubIndexExact, TokensIssued
    <3> QED BY <2>2, <3>2 DEF storeVars
  <2>3. ASSUME NEW r \in Requests, VerifyAddUser(r), users'[s] = req[r].sess.tok,
               s = req[r].sess.sub, UNCHANGED storeVars
        PROVE  /\ users'[s] \in issued'
               /\ Live(users[s])' => sessions'[users'[s]].sub = s
    <3> DEFINE t == req[r].sess.tok
    <3>1. t \in issued /\ (Live(t) => req[r].sess = CopyOf(t))
      BY <2>3 DEF CopyFaithful, VerifyAddUser, Held
    <3>2. Live(t) => sessions[t].sub = s
      BY <2>3, <3>1 DEF CopyOf
    <3>3. users'[s] = t /\ sessions' = sessions /\ issued' = issued
      BY <2>3 DEF storeVars
    <3> HIDE DEF t
    <3> QED BY <3>1, <3>2, <3>3 DEF Live
  <2> QED BY <2>1, <2>2, <2>3, UsersStep DEF Restored
<1> QED BY <1>1, <1>2, <1>3

THEOREM AccessInvariant == FrontSpec => []AccessInv
BY InitAccess, StepAccess, FrontInvariant, PTL DEF FrontSpec

\* However many handlers, cleaners and configurations, and whatever copy a
\* handler worked on: the password chisel has under a name was drawn for a
\* session of that name, and nothing is activated without a registered key.
THEOREM AccessIsRightful == FrontSpec => [](RightfulUsers /\ ActiveHasKey)
<1>1. AccessInv => RightfulUsers /\ ActiveHasKey
  BY DEF AccessInv
<1> QED BY <1>1, AccessInvariant, PTL

\* Tunnels, as the server sees them, are a registry of pipes: the abstract
\* specification that the goroutines of Tunnel implement is the one that the
\* server relies on.
LEMMA PipesStep ==
    FrontInv /\ [FrontNext]_vars => [Tunnels!Next]_Tunnels!pipeVars
<1> SUFFICES ASSUME FrontInv, FrontNext PROVE [Tunnels!Next]_Tunnels!pipeVars
  BY DEF vars, Tunnels!pipeVars
<1>1. ASSUME NEW x \in Clients, NEW p \in Ports, Connect(x, p) PROVE Tunnels!Open(x, p)
  BY <1>1 DEF Connect, Tunnels!Open
<1>2. ASSUME NEW x \in Clients, Disconnect(x) PROVE Tunnels!Close(x)
  BY <1>2 DEF Disconnect, Tunnels!Close
<1>3. CASE Restart
  BY <1>3 DEF Restart, Tunnels!CloseAll, Tunnels!Next
<1>4. CASE UNCHANGED <<at, pipes>>
  BY <1>4 DEF Tunnels!pipeVars
<1> QED BY <1>1, <1>2, <1>3, <1>4, TunnelsFrame DEF Tunnels!Next

\* The server is built of the session store and of a registry of pipes.
THEOREM ServerUsesParts == FrontSpec => ServerUses
<1>1. FrontInit => Tunnels!Init
  BY DEF FrontInit, Tunnels!Init
<1>2. FrontSpec => UsesPipes
  BY <1>1, PipesStep, FrontInvariant, PTL DEF FrontSpec, UsesPipes, Tunnels!Spec
<1> QED BY <1>2, FrontUsesStore DEF ServerUses

-----------------------------------------------------------------------------
(* The grace period, for any number of cleaners: it takes one configuration*)
(* (a reload may deny what another handler has activated) and handlers     *)
(* that end before the clock moves (a slow one may activate again what a   *)
(* cleaner has listed).                                                    *)

Steady ==
    /\ Prompt
    /\ \A p, q \in Permissions : p = q

\* No time has passed since another request activated what a handler holds,
HeldYoung == \A r \in Requests : Held(r) =>
    LET t == req[r].sess.tok IN Active(t) => sessions[t].activeAge = 0

\* whatever went on was permitted, what did not was not, and what is activated
\* still is,
HeldPermitted   == \A r \in Requests : Held(r) /\ req[r].pc # "perms" =>
    (req[r].pc = "deny" <=> ~Permitted(req[r].sess))
ActivePermitted == \A t \in SetupTokens : Active(t) => Permitted(CopyOf(t))

\* and a cleaner's targets are past their grace as long as they live.
TargetsPast == \A c \in Cleaners : \A t \in Targets(clean[c]) :
    Active(t) => sessions[t].activeAge >= Grace

GraceInv == HeldYoung /\ HeldPermitted /\ ActivePermitted /\ TargetsPast

LEMMA InitGrace == FrontInit => GraceInv
<1>1. FrontInit => \A t : t \in SetupTokens => ~Active(t)
  BY DEF FrontInit, StoreInit, Active, Live
<1>2. Targets(Idle) = {}
  BY DEF Targets, Idle
<1> QED BY <1>1, <1>2 DEF FrontInit, GraceInv, HeldYoung, HeldPermitted,
                           ActivePermitted, TargetsPast, Held, Idle

\* A cleaner's targets are those it had, or what it has just listed.
LEMMA TargetsStep ==
    ASSUME FrontInv, [FrontNext]_vars, NEW c \in Cleaners, NEW t \in Targets(clean'[c])
    PROVE  \/ t \in Targets(clean[c])
           \/ /\ CleanBegin(c) /\ UNCHANGED storeVars
              /\ t \in SetupTokens /\ Cleanable(t)
<1>1. CASE CleanBegin(c)
  <2>1. /\ clean'[c].pc = "scan" /\ clean'[c].doomed = {}
        /\ \A x \in clean'[c].todo : x.tok \in SetupTokens /\ Cleanable(x.tok)
    BY <1>1 DEF FrontInv, ServerTypeOK, CleanBegin, CleanGoto
  <2>2. t \in SetupTokens /\ Cleanable(t)
    BY <2>1 DEF Targets
  <2> QED BY <1>1, <2>2 DEF CleanBegin
<1>2. CASE CleanStep(c) /\ ~CleanBegin(c)
  BY <1>2, TargetsShrink
<1>3. CASE Restart
  BY <1>3 DEF Restart, Targets, Idle
<1>4. clean'[c] = clean[c] => t \in Targets(clean[c])
  OBVIOUS
<1>5. UNCHANGED vars => clean'[c] = clean[c]
  BY DEF vars
<1> QED BY <1>1, <1>2, <1>3, <1>4, <1>5, CleanFrame

LEMMA SamePermissions ==
    ASSUME Steady, FrontInv, [FrontNext]_vars
    PROVE  perms' = perms
<1>1. perms \in Permissions
  BY DEF FrontInv, ServerTypeOK
<1>2. perms' \in Permissions
  BY StepTypes DEF FrontInv, StoreInv, ServerTypeOK
<1> QED BY <1>1, <1>2 DEF Steady

\* What a cleaner may delete is held by no handler, unless there is no grace
\* at all: so no activation restarts the age of a target.
LEMMA ActivatedTarget ==
    ASSUME GraceInv, NEW t \in SetupTokens, Activated(t),
           Active(t), sessions[t].activeAge >= Grace
    PROVE  sessions'[t].activeAge >= Grace
<1>1. PICK r \in Requests : VerifyActivate(r) /\ req[r].sess.tok = t
  BY DEF Activated
<1>2. Held(r)
  BY <1>1 DEF VerifyActivate, Held
<1>3. sessions[t].activeAge = 0 /\ sessions'[t].activeAge = 0
  BY <1>1, <1>2 DEF GraceInv, HeldYoung, Activated
<1> QED BY <1>3

LEMMA StepGrace ==
    ASSUME Steady
    PROVE  FrontInv /\ AccessInv /\ ReapInv /\ GraceInv /\ [FrontNext]_vars => GraceInv'
<1> SUFFICES ASSUME FrontInv, AccessInv, ReapInv, GraceInv, FrontNext PROVE GraceInv'
  <2>1. CASE UNCHANGED vars
    BY <2>1 DEF vars, GraceInv, HeldYoung, HeldPermitted, ActivePermitted, TargetsPast,
                Held, Live, Active, Permitted, CopyOf
  <2> QED BY <2>1
<1>0. [StoreNext]_storeVars /\ StoreInv /\ perms' = perms
  BY StutterOrStore, SamePermissions DEF FrontInv
<1>1. \A x : Permitted(x)' <=> Permitted(x)
  BY <1>0 DEF Permitted
<1>2. HeldYoung'
  <2> SUFFICES ASSUME NEW r \in Requests, Held(r)', Active(req[r].sess.tok)'
               PROVE  sessions'[req'[r].sess.tok].activeAge = 0
    BY DEF HeldYoung
  <2>1. CASE Begun(r)
    BY <2>1, BegunFacts DEF storeVars, Pending, Active, Live
  <2>2. CASE Moved(r)
    <3>0. Held(r) /\ req'[r].sess = req[r].sess /\ req[r].sess.tok \in SetupTokens
      BY <2>2, HeldShape DEF Moved
    <3>1. PICK t \in SetupTokens : Held(r) /\ t = req[r].sess.tok /\ t = req'[r].sess.tok
      BY <3>0
    <3>2. Live(t)' /\ Active(t)'
      BY <3>1 DEF Active, Live
    <3>3. Active(t) => sessions[t].activeAge = 0
      BY <3>1 DEF GraceInv, HeldYoung
    <3>4. ~Time
      BY <3>1 DEF Time, Steady, Held, Idle
    <3>5. SameStage(t) \/ Created(t) \/ Activated(t)
      BY <3>1, <3>2, <3>4, SessionStep DEF Aging
    <3>6. sessions'[t].activeAge = 0
      BY <3>2, <3>3, <3>5 DEF SameStage, Created, Activated, Active
    <3> QED BY <3>1, <3>6
  <2> QED BY <2>1, <2>2, HeldStep
<1>3. HeldPermitted'
  <2> SUFFICES ASSUME NEW r \in Requests, Held(r)', req'[r].pc # "perms"
               PROVE  req'[r].pc = "deny" <=> ~Permitted(req[r].sess)'
    BY DEF HeldPermitted
  <2>1. Moved(r)
    BY HeldStep, BegunFacts
  <2> QED BY <1>0, <2>1 DEF Moved, GraceInv, HeldPermitted, Permitted
<1>4. ActivePermitted'
  <2> SUFFICES ASSUME NEW t \in SetupTokens, Active(t)' PROVE Permitted(CopyOf(t))'
    BY DEF ActivePermitted
  <2>1. Live(t) /\ Permitted(CopyOf(t))
    <3>1. CASE Active(t)
      BY <3>1 DEF GraceInv, ActivePermitted, Active
    <3>2. CASE Activated(t)
      <4>1. PICK r \in Requests : VerifyActivate(r) /\ req[r].sess.tok = t
        BY <3>2 DEF Activated
      <4>2. Held(r) /\ req[r].pc \notin {"perms", "deny"} /\ Live(t)
        BY <3>2, <4>1 DEF VerifyActivate, Held, Activated
      <4> QED BY <4>1, <4>2 DEF GraceInv, HeldPermitted, AccessInv, CopyFaithful
    <3> QED BY <3>1, <3>2, SessionStep DEF Active, Live, SameStage, Created, Aging
  <2>2. CopyOf(t)' = CopyOf(t)
    BY <1>0, <2>1, SameSession DEF Active
  <2> QED BY <1>0, <2>1, <2>2 DEF Permitted
<1>5. TargetsPast'
  <2> SUFFICES ASSUME NEW c \in Cleaners, NEW t \in Targets(clean'[c]), Active(t)'
               PROVE  sessions'[t].activeAge >= Grace
    BY DEF TargetsPast, Targets
  <2>1. CASE t \in Targets(clean[c])
    <3>1. t \in SetupTokens /\ t \in issued /\ ~Pending(t)
      BY <2>1, TargetTypes DEF ReapInv, Settled, FrontInv
    <3>2. Active(t) /\ sessions[t].activeAge >= Grace
      BY <1>0, <2>1, <3>1, SameSession DEF GraceInv, TargetsPast, Active, Pending
    <3>3. sessions[t].activeAge \in Ages /\ Grace \in Ages
      BY <3>1, <3>2, FrontendAssumption
         DEF FrontInv, StoreInv, StoreTypeOK, Active, Live, Session
    <3>4. CASE Aging(t)
      BY <3>2, <3>3, <3>4, HorizonAssumption DEF Aging, Older, Ages
    <3>5. CASE Activated(t)
      BY <3>1, <3>2, <3>5, ActivatedTarget
    <3> QED BY <3>1, <3>2, <3>4, <3>5, SessionStep DEF Active, SameStage, Created
  <2>2. CASE UNCHANGED storeVars /\ t \in SetupTokens /\ Cleanable(t)
    <3>1. sessions[t].activeAge \in Ages /\ Grace \in Ages /\ sessions' = sessions
      BY <2>2, FrontendAssumption
         DEF FrontInv, StoreInv, StoreTypeOK, Cleanable, Active, Live, Session, storeVars
    <3> QED BY <2>2, <3>1 DEF Cleanable, PastGrace, Ages
  <2> QED BY <2>1, <2>2, TargetsStep
<1> QED BY <1>2, <1>3, <1>4, <1>5 DEF GraceInv

\* No activated session is deleted within its grace, however many cleaners
\* run and however stale their lists are: not by a cleaner, whose targets are
\* past it, nor by a verification that is denied, whose session is pending.
THEOREM GraceKept == ASSUME Steady PROVE FrontSpec => GraceRespected
<1>1. FrontInv /\ AccessInv /\ GraceInv /\ [FrontNext]_vars => [GraceStep]_vars
  <2> SUFFICES ASSUME FrontInv, AccessInv, GraceInv, FrontNext, NEW t \in SetupTokens,
                      Active(t), ~Live(t)'
               PROVE  sessions[t].activeAge >= Grace
    BY DEF GraceStep
  <2>1. ASSUME NEW c \in Cleaners, CleanDelete(c), clean[c].tok = t
        PROVE  sessions[t].activeAge >= Grace
    BY <2>1 DEF CleanDelete, GraceInv, TargetsPast, Targets
  <2>2. ASSUME NEW r \in Requests, VerifyDeny(r), req[r].sess.tok = t PROVE FALSE
    <3>1. Held(r) /\ Live(t)
      BY <2>2 DEF VerifyDeny, Held, Active
    <3>2. Permitted(req[r].sess)
      BY <2>2, <3>1 DEF AccessInv, CopyFaithful, GraceInv, ActivePermitted
    <3> QED BY <2>2, <3>1, <3>2 DEF VerifyDeny, GraceInv, HeldPermitted
  <2> QED BY <2>1, <2>2, DeletedBy DEF Active
<1>2. FrontSpec => []GraceInv
  BY InitGrace, StepGrace, InitReap, StepReap, AccessInvariant, FrontInvariant, PTL
     DEF FrontSpec
<1> QED BY <1>1, <1>2, AccessInvariant, FrontInvariant, PTL DEF FrontSpec, GraceRespected

-----------------------------------------------------------------------------
(* Nothing is left behind, for any number of cleaners, when there is a     *)
(* grace period to tell what a handler holds from what a cleaner may take. *)

Gentle == Steady /\ Grace > 0

\* A verification that is or will be permitted has its session.
AllowedLive == \A r \in Requests :
    Held(r) /\ Permitted(req[r].sess) => Live(req[r].sess.tok)

\* As long as a target lives, its cleaner knows its name, and takes its route
\* first, then its user, then its record; another cleaner may be ahead.
Tidy(h) ==
    /\ h.pc = "scan" =>
        /\ \A x \in h.todo : Live(x.tok) => x.sub = sessions[x.tok].sub
        /\ \A t \in h.doomed : Live(t) => sessions[t].sub \in h.names
    /\ h.pc \in {"next", "user", "delete"} =>
        \A t \in Targets(h) : Live(t) => routes[sessions[t].sub] = None
    /\ h.pc = "user" /\ Live(h.tok) => h.sub = sessions[h.tok].sub
    /\ h.pc = "delete" /\ Live(h.tok) => users[sessions[h.tok].sub] = None
CleanersTidy == \A c \in Cleaners : Tidy(clean[c])

\* A user or a route belongs to an activated session, or to one whose
\* verification has just registered it, and is the one this session is due.
HasUser(t)  == Active(t) \/ \E r \in Requests :
    req[r].pc \in {"route", "activate"} /\ req[r].sess.tok = t
HasRoute(t) == Active(t) \/ \E r \in Requests :
    req[r].pc = "activate" /\ req[r].sess.tok = t
Owned == \A s \in Subdomains :
    /\ users[s] # None  => /\ users[s] = bySub[s]
                           /\ HasUser(bySub[s])
    /\ routes[s] # None => /\ bySub[s] # None
                           /\ routes[s] = sessions[bySub[s]].port
                           /\ HasRoute(bySub[s])

OwnInv == AllowedLive /\ CleanersTidy /\ Owned

\* What is known of every state from here on.
SafeInv == FrontInv /\ AccessInv /\ ReapInv /\ GraceInv

LEMMA SafeStep ==
    ASSUME Steady PROVE SafeInv /\ [FrontNext]_vars => SafeInv'
BY StepInv, StutterOrStore, StepTypes, StepAccess, StepReap, StepGrace
   DEF SafeInv, FrontInv, StoreInv

LEMMA InitSafe == FrontInit => SafeInv
BY InitInv, InitTypes, InitAccess, InitReap, InitGrace DEF SafeInv, FrontInv, FrontInit

THEOREM SafeInvariant == ASSUME Steady PROVE FrontSpec => []SafeInv
BY InitSafe, SafeStep, PTL DEF FrontSpec

\* The name of a live session leads to it, and it is the only one of it.
LEMMA OneOwner ==
    ASSUME StoreInv, NEW t \in SetupTokens, Live(t)
    PROVE  /\ sessions[t] \in Session
           /\ sessions[t].sub \in Subdomains
           /\ bySub[sessions[t].sub] = t
           /\ \A u \in SetupTokens :
                Live(u) /\ sessions[u].sub = sessions[t].sub => u = t
<1>1. sessions[t] \in Session /\ sessions[t].sub \in Subdomains
  BY DEF StoreInv, StoreTypeOK, Live, Session
<1> QED BY <1>1 DEF StoreInv, SubIndexExact

\* What a permitted verification holds of its session.
LEMMA Permit ==
    ASSUME SafeInv, AllowedLive, NEW r \in Requests, Held(r), Permitted(req[r].sess)
    PROVE  /\ req[r].sess.tok \in SetupTokens
           /\ Live(req[r].sess.tok)
           /\ req[r].sess = CopyOf(req[r].sess.tok)
           /\ sessions[req[r].sess.tok].sub = req[r].sess.sub
           /\ sessions[req[r].sess.tok].port = req[r].sess.port
           /\ bySub[req[r].sess.sub] = req[r].sess.tok
           /\ \A t \in SetupTokens :
                Live(t) /\ sessions[t].sub = req[r].sess.sub => t = req[r].sess.tok
<1>1. /\ req[r].sess.tok \in SetupTokens
      /\ Live(req[r].sess.tok) /\ req[r].sess = CopyOf(req[r].sess.tok)
  BY HeldShape DEF SafeInv, AllowedLive, AccessInv, CopyFaithful
<1>2. /\ sessions[req[r].sess.tok].sub = req[r].sess.sub
      /\ sessions[req[r].sess.tok].port = req[r].sess.port
  BY <1>1 DEF CopyOf
<1> QED BY <1>1, <1>2, OneOwner DEF SafeInv, FrontInv

\* A target that lives is activated, past its grace.
LEMMA LiveTarget ==
    ASSUME SafeInv, NEW c \in Cleaners, NEW t \in Targets(clean[c]), Live(t)
    PROVE  /\ t \in SetupTokens /\ Active(t) /\ sessions[t].activeAge >= Grace
BY TargetTypes DEF SafeInv, FrontInv, ReapInv, Settled, Pending, Active, GraceInv, TargetsPast

\* So a permitted verification and a cleaner never have the same live session
\* in hand, nor two of one name.
LEMMA Apart ==
    ASSUME Gentle, SafeInv, AllowedLive, NEW r \in Requests, Held(r),
           Permitted(req[r].sess),
           NEW c \in Cleaners, NEW t \in Targets(clean[c]), Live(t)
    PROVE  t # req[r].sess.tok /\ sessions[t].sub # req[r].sess.sub
<1>1. Active(t) /\ sessions[t].activeAge >= Grace /\ t \in SetupTokens
  BY LiveTarget
<1>2. t # req[r].sess.tok
  BY <1>1, FrontendAssumption DEF SafeInv, GraceInv, HeldYoung, Gentle, Ages
<1> QED BY <1>1, <1>2, Permit

\* A denied verification has a pending session, which no other verification
\* has registered anything for.
LEMMA DeniedIsPending ==
    ASSUME SafeInv, NEW r \in Requests, Held(r), ~Permitted(req[r].sess),
           Live(req[r].sess.tok)
    PROVE  /\ ~Active(req[r].sess.tok)
           /\ \A q \in Requests : Held(q) /\ req[q].sess.tok = req[r].sess.tok
                => ~Permitted(req[q].sess) /\ req[q].pc \in {"perms", "deny"}
<1> USE DEF SafeInv, AccessInv, GraceInv
<1>1. \A q \in Requests : Held(q) /\ req[q].sess.tok = req[r].sess.tok
                => req[q].sess = CopyOf(req[r].sess.tok)
  BY DEF CopyFaithful
<1>2. ~Active(req[r].sess.tok)
  BY <1>1, HeldShape DEF ActivePermitted
<1> QED BY <1>1, <1>2 DEF HeldPermitted

\* Who deletes a session: its own denied verification, which is pending, or
\* a cleaner whose target it is.
LEMMA DeletedHow ==
    ASSUME SafeInv, FrontNext, NEW t \in SetupTokens, Live(t), ~Live(t)'
    PROVE  \/ \E r \in Requests : /\ req[r].pc = "deny" /\ req[r].sess.tok = t
                                  /\ ~Permitted(req[r].sess)
           \/ \E c \in Cleaners : CleanDelete(c) /\ clean[c].tok = t
<1> QED BY DeletedBy DEF SafeInv, VerifyDeny, GraceInv, HeldPermitted, Held

LEMMA StepAllowed ==
    ASSUME Gentle, SafeInv, AllowedLive, FrontNext
    PROVE  AllowedLive'
<1> SUFFICES ASSUME NEW r \in Requests, Held(r)', Permitted(req[r].sess)'
             PROVE  Live(req[r].sess.tok)'
  BY DEF AllowedLive
<1>1. CASE Begun(r)
  BY <1>1, BegunFacts DEF SafeInv, Pending, Live, storeVars
<1>2. CASE Moved(r)
  <2>1. /\ Held(r) /\ req'[r].sess = req[r].sess /\ req[r].sess.tok \in SetupTokens
        /\ perms' = perms
    BY <1>2, HeldShape, SamePermissions DEF Moved, SafeInv, Gentle
  <2>2. Permitted(req[r].sess)
    BY <2>1 DEF Permitted
  <2>3. PICK t \in SetupTokens : t = req[r].sess.tok /\ Live(t)
    BY <2>1, <2>2 DEF AllowedLive
  <2>4. ASSUME NEW q \in Requests, req[q].pc = "deny", req[q].sess.tok = t,
               ~Permitted(req[q].sess)
        PROVE  FALSE
    BY <2>1, <2>2, <2>3, <2>4, DeniedIsPending DEF Held
  <2>5. ASSUME NEW c \in Cleaners, CleanDelete(c), clean[c].tok = t PROVE FALSE
    BY <2>1, <2>2, <2>3, <2>5, Apart DEF CleanDelete, Targets
  <2>6. Live(t)'
    BY <2>3, <2>4, <2>5, DeletedHow
  <2> QED BY <2>1, <2>3, <2>6 DEF Live
<1> QED BY <1>1, <1>2, HeldStep DEF SafeInv

\* What becomes of the name of a target that lives: no verification touches
\* it, so a route or a user that is gone stays gone, but for a crash.
LEMMA TargetQuiet ==
    ASSUME Gentle, SafeInv, AllowedLive, FrontNext, NEW c \in Cleaners,
           NEW t \in Targets(clean[c]), Live(t)'
    PROVE  /\ t \in SetupTokens /\ Live(t)
           /\ sessions[t].sub \in Subdomains
           /\ sessions'[t].sub = sessions[t].sub
           /\ ~Restart =>
                /\ users[sessions[t].sub] = None => users'[sessions[t].sub] = None
                /\ routes[sessions[t].sub] = None => routes'[sessions[t].sub] = None
<1> USE DEF SafeInv, FrontInv
<1>1. t \in SetupTokens /\ t \in issued
  BY TargetTypes DEF ReapInv, Settled
<1>2. Live(t) /\ sessions'[t].sub = sessions[t].sub
  BY <1>1, StutterOrStore, SameSession
<1>3. sessions[t].sub \in Subdomains
  BY <1>1, <1>2, OneOwner
<1>4. ASSUME NEW r \in Requests, VerifyAddUser(r) \/ VerifyRoute(r)
      PROVE  sessions[t].sub # req[r].sess.sub
  <2>1. Held(r) /\ Permitted(req[r].sess)
    BY <1>4 DEF VerifyAddUser, VerifyRoute, Held, GraceInv, HeldPermitted
  <2> QED BY <1>2, <2>1, Apart
<1> QED BY <1>1, <1>2, <1>3, <1>4, UsersStep, RoutesStep

LEMMA StepTidy ==
    ASSUME Gentle, SafeInv, AllowedLive, CleanersTidy, FrontNext
    PROVE  CleanersTidy'
<1> USE DEF SafeInv, FrontInv
<1> SUFFICES ASSUME NEW c \in Cleaners PROVE Tidy(clean[c])'
  BY DEF CleanersTidy
<1> DEFINE h == clean[c]
           g == clean'[c]
<1>0. h \in Cleaner /\ clean \in [Cleaners -> Cleaner] /\ Tidy(h)
  BY DEF ServerTypeOK, CleanersTidy
<1>1. CASE g = Idle
  <2>1. Tidy(Idle)'
    BY DEF Tidy, Idle
  <2> QED BY <1>1, <2>1 DEF Tidy, Targets
<1>2. ASSUME g = h, ~Restart PROVE Tidy(clean[c])'
  <2>1. h.pc = "scan" => \A x \in h.todo : x.tok \in Targets(h)
    BY DEF Targets
  <2>2. h.pc = "scan" => \A t \in h.doomed : t \in Targets(h)
    BY DEF Targets
  <2>3. h.pc \in {"user", "delete"} => h.tok \in Targets(h)
    BY DEF Targets
  <2>4. Targets(g) = Targets(h)
    BY <1>2 DEF Targets
  <2> HIDE DEF g
  <2>5. \A t \in Targets(h) : Live(t)' =>
            /\ Live(t) /\ sessions'[t].sub = sessions[t].sub
            /\ users[sessions[t].sub] = None => users'[sessions[t].sub] = None
            /\ routes[sessions[t].sub] = None => routes'[sessions[t].sub] = None
    BY <1>2, TargetQuiet
  <2> HIDE DEF h
  <2>6. g.pc = "scan" =>
            /\ \A x \in g.todo : Live(x.tok)' => x.sub = sessions'[x.tok].sub
            /\ \A t \in g.doomed : Live(t)' => sessions'[t].sub \in g.names
    BY <1>0, <1>2, <2>1, <2>2, <2>5 DEF Tidy
  <2>7. g.pc \in {"next", "user", "delete"} =>
            \A t \in Targets(g) : Live(t)' => routes'[sessions'[t].sub] = None
    BY <1>0, <1>2, <2>4, <2>5 DEF Tidy
  <2>8. h.pc = "user" /\ sessions'[h.tok] # None => h.sub = sessions'[h.tok].sub
    BY <1>0, <2>3, <2>5 DEF Tidy, Live
  <2>9. h.pc = "delete" /\ sessions'[h.tok] # None => users'[sessions'[h.tok].sub] = None
    BY <1>0, <2>3, <2>5 DEF Tidy, Live
  <2> QED BY <1>2, <2>6, <2>7, <2>8, <2>9 DEF Tidy, Targets, Live, g, h
<1>3. CASE CleanBegin(c)
  <2>1. /\ g.pc = "scan" /\ g.doomed = {} /\ sessions' = sessions
        /\ \A x \in g.todo : x.sub = sessions[x.tok].sub
    BY <1>0, <1>3 DEF CleanBegin, CleanGoto, storeVars
  <2> QED BY <2>1 DEF Tidy
<1>4. CASE CleanScan(c)
  <2>1. h \in Scan /\ sessions' = sessions
    BY <1>0, <1>4, CleanerShape DEF CleanScan, storeVars
  <2>2. PICK x \in h.todo : g = [h EXCEPT
            !.todo   = @ \ {x},
            !.doomed = IF Stale(x) THEN @ \cup {x.tok} ELSE @,
            !.names  = IF Stale(x) THEN @ \cup {x.sub} ELSE @]
    BY <1>0, <1>4 DEF CleanScan, CleanGoto
  <2>3. /\ g.pc = "scan" /\ g.todo \subseteq h.todo
        /\ \/ g.doomed = h.doomed /\ g.names = h.names
           \/ g.doomed = h.doomed \cup {x.tok} /\ g.names = h.names \cup {x.sub}
    BY <2>1, <2>2 DEF Scan
  <2>4. h.pc = "scan"
    BY <1>4 DEF CleanScan
  <2> HIDE DEF h, g
  <2>5. \A y \in g.todo : Live(y.tok) => y.sub = sessions[y.tok].sub
    BY <1>0, <2>3, <2>4 DEF Tidy
  <2>6. \A t \in g.doomed : Live(t) => sessions[t].sub \in g.names
    BY <1>0, <2>2, <2>3, <2>4 DEF Tidy
  <2> QED BY <2>1, <2>3, <2>5, <2>6 DEF Tidy, Live, g
<1>5. CASE CleanRoutes(c)
  <2>1. h \in Scan /\ sessions' = sessions /\ StoreTypeOK
    BY <1>0, <1>5, CleanerShape DEF CleanRoutes, storeVars, StoreInv
  <2>2. /\ g = [pc |-> "next", doomed |-> h.doomed] /\ h.pc = "scan"
        /\ \A s \in Subdomains : s \in h.names => routes'[s] = None
    BY <1>0, <1>5 DEF CleanRoutes, CleanGoto
  <2>3. \A t \in h.doomed : Live(t) => sessions[t].sub \in h.names
    BY <1>0, <2>2 DEF Tidy
  <2>4. h.names \subseteq Subdomains
    BY <2>1 DEF Scan
  <2>5. g.pc = "next" /\ g.doomed = h.doomed
    BY <2>2
  <2>6. Targets(g) = h.doomed
    BY <2>5 DEF Targets
  <2> HIDE DEF h, g
  <2> QED BY <2>1, <2>2, <2>3, <2>4, <2>5, <2>6 DEF Tidy, Live, Targets, g
<1>6. CASE CleanNext(c)
  <2>1. /\ h.pc = "next" /\ UNCHANGED <<sessions, routes>>
        /\ \E t \in h.doomed :
            \/ g = [pc |-> "user", doomed |-> h.doomed \ {t}, tok |-> t,
                    sub |-> sessions[t].sub]
            \/ g = [pc |-> "next", doomed |-> h.doomed \ {t}]
    BY <1>0, <1>6 DEF CleanNext, CleanGoto, storeVars, serverVars
  <2>2. /\ Targets(g) \subseteq Targets(h)
        /\ g.pc \in {"next", "user"}
        /\ g.pc = "user" => g.sub = sessions[g.tok].sub
    BY <2>1 DEF Targets
  <2>3. \A t \in Targets(h) : Live(t) => routes[sessions[t].sub] = None
    BY <1>0, <2>1 DEF Tidy
  <2> HIDE DEF h, g
  <2> QED BY <2>1, <2>2, <2>3 DEF Tidy, Live, Targets, g
<1>7. CASE CleanUser(c)
  <2>1. h \in User /\ StoreTypeOK
    BY <1>0, <1>7, CleanerShape DEF CleanUser, StoreInv
  <2>2. /\ h.pc = "user" /\ UNCHANGED <<sessions, routes>> /\ users'[h.sub] = None
        /\ g = [pc |-> "delete", doomed |-> h.doomed, tok |-> h.tok]
    BY <1>0, <1>7, <2>1 DEF CleanUser, CleanGoto, storeVars, ServerTypeOK, User
  <2>3. g.pc = "delete" /\ Targets(g) = Targets(h) /\ g.tok = h.tok
    BY <2>2 DEF Targets
  <2>4. /\ \A t \in Targets(h) : Live(t) => routes[sessions[t].sub] = None
        /\ Live(h.tok) => h.sub = sessions[h.tok].sub
    BY <1>0, <2>2 DEF Tidy
  <2> HIDE DEF h, g
  <2> QED BY <2>2, <2>3, <2>4 DEF Tidy, Live, Targets, g
<1>8. CASE CleanDelete(c)
  <2>1. /\ h.pc = "delete" /\ routes' = routes
        /\ g = [pc |-> "next", doomed |-> h.doomed]
    BY <1>0, <1>8 DEF CleanDelete, CleanGoto, serverVars
  <2>2. g.pc = "next" /\ Targets(g) \subseteq Targets(h)
    BY <2>1 DEF Targets
  <2>3. \A t \in Targets(h) : Live(t)' =>
            Live(t) /\ sessions'[t].sub = sessions[t].sub
    BY TargetQuiet
  <2>4. \A t \in Targets(h) : Live(t) => routes[sessions[t].sub] = None
    BY <1>0, <2>1 DEF Tidy
  <2> HIDE DEF h, g
  <2> QED BY <2>1, <2>2, <2>3, <2>4 DEF Tidy, Targets, g
<1>9. CASE CleanEnd(c) \/ Restart
  BY <1>0, <1>1, <1>9 DEF CleanEnd, CleanGoto, Restart
<1> QED BY <1>2, <1>3, <1>4, <1>5, <1>6, <1>7, <1>8, <1>9, CleanFrame DEF CleanStep

\* A verification that has registered something goes on, or activates.
LEMMA HandlerOnward ==
    ASSUME FrontInv, FrontNext, ~Restart, NEW r \in Requests,
           req[r].pc \in {"route", "activate"}
    PROVE  \/ req'[r] = req[r]
           \/ VerifyRoute(r) /\ req'[r].pc = "activate" /\ req'[r].sess = req[r].sess
           \/ VerifyActivate(r)
<1> USE DEF FrontInv
<1>0. req \in [Requests -> Handler] /\ req[r] \in Verify
  BY HandlerShape DEF ServerTypeOK
<1>1. ASSUME NEW q \in Requests \ {r},
             \/ ScriptCheck(q) \/ HandlerStep(q)
             \/ \E p \in Wire : ChallengeBegin(q, p) \/ VerifyBegin(q, p)
      PROVE  req'[r] = req[r]
  BY <1>0, <1>1
     DEF ScriptCheck, HandlerStep, ChallengeBegin, VerifyBegin, ScriptPort, ScriptCreate,
         ScriptRefused, ChallengeEnd, VerifyPerms, VerifyDeny, VerifyAddUser, VerifyRoute,
         VerifyActivate, Goto
<1>2. ASSUME \/ ScriptCheck(r) \/ ScriptPort(r) \/ ScriptCreate(r) \/ ScriptRefused(r)
             \/ ChallengeEnd(r) \/ VerifyPerms(r) \/ VerifyDeny(r) \/ VerifyAddUser(r)
             \/ \E p \in Wire : ChallengeBegin(r, p) \/ VerifyBegin(r, p)
      PROVE  FALSE
  <2>1. Idle.pc = "idle"
    BY DEF Idle
  <2>2. req[r].pc \in {"idle", "port", "create", "nonce", "perms", "deny", "user"}
    BY <1>2, <2>1
       DEF ScriptCheck, ChallengeBegin, VerifyBegin, ScriptPort, ScriptCreate,
           ScriptRefused, ChallengeEnd, VerifyPerms, VerifyDeny, VerifyAddUser
  <2> QED BY <2>2
<1>3. CASE VerifyRoute(r)
  BY <1>0, <1>3 DEF VerifyRoute, Goto, Verify
<1>4. ASSUME \/ \E t \in SetupTokens, p \in Wire : Register(t, p)
             \/ \E c \in Cleaners : CleanStep(c)
             \/ \E x \in Clients : Disconnect(x) \/ \E p \in Ports : Connect(x, p)
             \/ ReloadConfig \/ Time
      PROVE  req' = req
  BY <1>4 DEF Register, CleanStep, CleanBegin, CleanScan, CleanRoutes, CleanNext,
              CleanUser, CleanDelete, CleanEnd, Connect, Disconnect, ReloadConfig, Time
<1> QED BY <1>1, <1>2, <1>3, <1>4 DEF FrontNext, HandlerStep

\* Who has registered something keeps it until it is activated.
LEMMA HolderStays ==
    ASSUME FrontInv, FrontNext, ~Restart, NEW t \in SetupTokens, Live(t), Live(t)'
    PROVE  (HasUser(t) => HasUser(t)') /\ (HasRoute(t) => HasRoute(t)')
<1> USE DEF FrontInv
<1>1. Active(t) => Active(t)'
  BY StutterOrStore, SameSession
<1>2. ASSUME NEW r \in Requests, VerifyActivate(r), req[r].sess.tok = t PROVE Active(t)'
  <2>1. ActivateSession(t) /\ sessions[t] \in Session
    BY <1>2 DEF VerifyActivate, Live, StoreInv, StoreTypeOK
  <2>2. sessions'[t].activated
    BY <2>1 DEF ActivateSession, AsActivated, StoreInv, StoreTypeOK, Session
  <2> QED BY <2>2 DEF Active
<1>3. ASSUME NEW r \in Requests, req[r].pc \in {"route", "activate"}, req[r].sess.tok = t
      PROVE  HasUser(t)' /\ (req[r].pc = "activate" => HasRoute(t)')
  <2>1. CASE VerifyActivate(r)
    BY <1>2, <1>3, <2>1 DEF HasUser, HasRoute
  <2>2. CASE VerifyRoute(r) /\ req'[r].pc = "activate" /\ req'[r].sess = req[r].sess
    BY <1>3, <2>2 DEF HasUser, HasRoute, VerifyRoute
  <2>3. CASE req'[r] = req[r]
    BY <1>3, <2>3 DEF HasUser, HasRoute
  <2> QED BY <1>3, <2>1, <2>2, <2>3, HandlerOnward
<1> QED BY <1>1, <1>3 DEF HasUser, HasRoute

\* A session that has its route or its user is not deleted.
LEMMA OwnerLives ==
    ASSUME SafeInv, CleanersTidy, FrontNext, NEW t \in SetupTokens, Live(t),
           \/ routes[sessions[t].sub] # None /\ HasRoute(t)
           \/ users[sessions[t].sub] # None /\ HasUser(t)
    PROVE  Live(t)'
<1>1. ASSUME NEW r \in Requests, req[r].pc = "deny", req[r].sess.tok = t,
             ~Permitted(req[r].sess)
      PROVE  FALSE
  BY <1>1, DeniedIsPending DEF HasUser, HasRoute, Held
<1>2. ASSUME NEW c \in Cleaners, CleanDelete(c), clean[c].tok = t PROVE FALSE
  BY <1>2 DEF CleanDelete, CleanersTidy, Tidy, Targets
<1> QED BY <1>1, <1>2, DeletedHow

LEMMA StepOwned ==
    ASSUME Gentle, SafeInv, OwnInv, FrontNext
    PROVE  Owned'
<1> USE DEF SafeInv, FrontInv, OwnInv
<1> SUFFICES ASSUME NEW s \in Subdomains
             PROVE  /\ users'[s] # None =>
                            users'[s] = bySub'[s] /\ HasUser(bySub[s])'
                    /\ routes'[s] # None =>
                            /\ bySub'[s] # None
                            /\ routes'[s] = sessions'[bySub'[s]].port
                            /\ HasRoute(bySub[s])'
  BY DEF Owned
<1>0. StoreInv'
  BY StepInv, StutterOrStore
<1>1. CASE Restart
  <2>1. /\ users'[s] = Restored(s)
        /\ routes'[s] = IF Restored(s) = None THEN None ELSE sessions[Restored(s)].port
        /\ UNCHANGED storeVars
    BY <1>1 DEF Restart, storeVars
  <2>2. Restored(s) # None => Restored(s) = bySub[s] /\ Active(bySub[s])
    BY DEF Restored
  <2>3. /\ users'[s] # None  => users'[s] = bySub[s] /\ Active(bySub[s])
        /\ routes'[s] # None => /\ bySub[s] # None /\ Active(bySub[s])
                                /\ routes'[s] = sessions[bySub[s]].port
    BY <2>1, <2>2
  <2> QED BY <2>1, <2>3 DEF HasUser, HasRoute, Active, Live, storeVars
<1>2. ASSUME ~Restart, NEW t \in SetupTokens, bySub[s] = t,
             \/ routes[s] # None /\ HasRoute(t)
             \/ users[s] # None /\ HasUser(t)
      PROVE  /\ bySub'[s] = t
             /\ sessions'[t].port = sessions[t].port
             /\ HasUser(t) => HasUser(t)'
             /\ HasRoute(t) => HasRoute(t)'
  <2>1. Live(t) /\ sessions[t].sub = s
    BY <1>2 DEF StoreInv, SubIndexExact
  <2>2. Live(t)'
    BY <1>2, <2>1, OwnerLives
  <2>3. sessions'[t].sub = s /\ sessions'[t].port = sessions[t].port
    BY <2>1, <2>2, StutterOrStore, SameSession
  <2>4. bySub'[s] = t
    BY <1>0, <2>2, <2>3 DEF StoreInv, SubIndexExact
  <2> QED BY <1>2, <2>1, <2>2, <2>3, <2>4, HolderStays
<1>3. bySub[s] # None => bySub[s] \in SetupTokens
  BY DEF StoreInv, StoreTypeOK
<1>4. ASSUME ~Restart, users'[s] # None
      PROVE  users'[s] = bySub'[s] /\ HasUser(bySub[s])'
  <2>1. CASE users'[s] = users[s]
    BY <1>2, <1>3, <1>4, <2>1, NoneAssumption DEF Owned
  <2>2. ASSUME NEW r \in Requests, VerifyAddUser(r), UNCHANGED storeVars,
               s = req[r].sess.sub, users'[s] = req[r].sess.tok
        PROVE  users'[s] = bySub'[s] /\ HasUser(bySub[s])'
    <3>1. Held(r) /\ Permitted(req[r].sess) /\ req[r] \in Verify
      BY <2>2, HeldShape DEF VerifyAddUser, Held, GraceInv, HeldPermitted
    <3>2. bySub[s] = req[r].sess.tok /\ bySub[s] \in SetupTokens
      BY <2>2, <3>1, Permit
    <3>3. req'[r].pc = "route" /\ req'[r].sess = req[r].sess
      BY <2>2, <3>1 DEF VerifyAddUser, Goto, Verify, ServerTypeOK
    <3> QED BY <2>2, <3>2, <3>3, NoneAssumption DEF HasUser, storeVars
  <2> QED BY <1>4, <2>1, <2>2, UsersStep
<1>5. ASSUME ~Restart, routes'[s] # None
      PROVE  /\ bySub'[s] # None
             /\ routes'[s] = sessions'[bySub'[s]].port
             /\ HasRoute(bySub[s])'
  <2>1. CASE routes'[s] = routes[s]
    BY <1>2, <1>3, <1>5, <2>1, NoneAssumption DEF Owned
  <2>2. ASSUME NEW r \in Requests, VerifyRoute(r), UNCHANGED storeVars,
               s = req[r].sess.sub, routes'[s] = req[r].sess.port
        PROVE  /\ bySub'[s] # None
               /\ routes'[s] = sessions'[bySub'[s]].port
               /\ HasRoute(bySub[s])'
    <3>1. Held(r) /\ Permitted(req[r].sess) /\ req[r] \in Verify
      BY <2>2, HeldShape DEF VerifyRoute, Held, GraceInv, HeldPermitted
    <3>2. /\ bySub[s] = req[r].sess.tok /\ bySub[s] \in SetupTokens
          /\ sessions[bySub[s]].port = req[r].sess.port
      BY <2>2, <3>1, Permit
    <3>3. req'[r].pc = "activate" /\ req'[r].sess = req[r].sess
      BY <2>2, <3>1 DEF VerifyRoute, Goto, Verify, ServerTypeOK
    <3> QED BY <2>2, <3>2, <3>3, NoneAssumption DEF HasRoute, storeVars
  <2> QED BY <1>5, <2>1, <2>2, RoutesStep
<1> QED BY <1>1, <1>4, <1>5

LEMMA InitOwn == FrontInit => OwnInv
<1>1. ASSUME FrontInit PROVE CleanersTidy
  BY <1>1 DEF FrontInit, CleanersTidy, Tidy, Idle
<1> QED BY <1>1 DEF FrontInit, OwnInv, AllowedLive, Owned, Held, Idle

LEMMA StepOwn ==
    ASSUME Gentle
    PROVE  SafeInv /\ OwnInv /\ [FrontNext]_vars => OwnInv'
<1>1. ASSUME UNCHANGED vars, OwnInv PROVE OwnInv'
  BY <1>1 DEF vars, OwnInv, AllowedLive, Held, Permitted, Live, CleanersTidy, Tidy,
              Targets, Owned, HasUser, HasRoute, Active
<1> QED BY <1>1, StepAllowed, StepTidy, StepOwned DEF OwnInv

THEOREM OwnInvariant == ASSUME Gentle PROVE FrontSpec => []OwnInv
BY InitOwn, StepOwn, SafeInvariant, PTL DEF FrontSpec, Gentle

\* Nothing is left behind and nothing leads astray, however many cleaners
\* work at the same time: a route or a user is that of the live session which
\* holds the name, even while it is torn down by several; and a verification
\* whose session is being deleted by somebody else does not exist, because a
\* grace period keeps the two apart.
THEOREM NamesAreRightful == ASSUME Gentle PROVE FrontSpec => []RightfulNames
<1>1. OwnInv => RightfulNames
  BY DEF OwnInv, Owned, RightfulNames
<1> QED BY <1>1, OwnInvariant, PTL

-----------------------------------------------------------------------------
(* What is activated stays served until a latecomer takes it away, for any *)
(* number of cleaners, any configurations and slow handlers.               *)

\* What a cleaner knows of a session is true as long as that lives: its name,
\* and which of the names it is about to free is whose.
Knows(h) ==
    /\ h.pc = "scan" =>
        /\ \A x \in h.todo : Live(x.tok) => x.sub = sessions[x.tok].sub
        /\ \A s \in h.names : \E t \in h.doomed : Live(t) => sessions[t].sub = s
    /\ h.pc = "user" /\ Live(h.tok) => h.sub = sessions[h.tok].sub
CleanersKnow == \A c \in Cleaners : Knows(clean[c])

\* A target that lives was there before, under the same name.
LEMMA TargetSame ==
    ASSUME FrontInv, ReapInv, [FrontNext]_vars, NEW c \in Cleaners,
           NEW t \in Targets(clean[c]), Live(t)'
    PROVE  t \in SetupTokens /\ Live(t) /\ sessions'[t].sub = sessions[t].sub
<1>1. t \in SetupTokens /\ t \in issued
  BY TargetTypes DEF ReapInv, Settled, FrontInv
<1> QED BY <1>1, StutterOrStore, SameSession DEF FrontInv

LEMMA StepKnow ==
    ASSUME FrontInv, ReapInv, CleanersKnow, FrontNext
    PROVE  CleanersKnow'
<1> USE DEF FrontInv
<1> SUFFICES ASSUME NEW c \in Cleaners PROVE Knows(clean[c])'
  BY DEF CleanersKnow
<1> DEFINE h == clean[c]
           g == clean'[c]
<1>0. h \in Cleaner /\ clean \in [Cleaners -> Cleaner] /\ Knows(h)
  BY DEF ServerTypeOK, CleanersKnow
<1>1. \A t \in Targets(h) : Live(t)' => Live(t) /\ sessions'[t].sub = sessions[t].sub
  BY TargetSame
<1>2. CASE g = h
  <2>1. h.pc = "scan" => \A x \in h.todo : x.tok \in Targets(h)
    BY DEF Targets
  <2>2. h.pc = "scan" => \A t \in h.doomed : t \in Targets(h)
    BY DEF Targets
  <2>3. h.pc = "user" => h.tok \in Targets(h)
    BY DEF Targets
  <2> HIDE DEF h, g
  <2>4. g.pc = "scan" =>
            /\ \A x \in g.todo : Live(x.tok)' => x.sub = sessions'[x.tok].sub
            /\ \A s \in g.names : \E t \in g.doomed : Live(t)' => sessions'[t].sub = s
    BY <1>0, <1>1, <1>2, <2>1, <2>2 DEF Knows
  <2>5. g.pc = "user" /\ sessions'[g.tok] # None => g.sub = sessions'[g.tok].sub
    BY <1>0, <1>1, <1>2, <2>3 DEF Knows, Live
  <2> QED BY <2>4, <2>5 DEF Knows, Live, g
<1>3. CASE CleanBegin(c)
  <2>1. /\ g.pc = "scan" /\ g.names = {} /\ sessions' = sessions
        /\ \A x \in g.todo : x.sub = sessions[x.tok].sub
    BY <1>0, <1>3 DEF CleanBegin, CleanGoto, storeVars
  <2> QED BY <2>1 DEF Knows
<1>4. CASE CleanScan(c)
  <2>1. h \in Scan /\ sessions' = sessions
    BY <1>0, <1>4, CleanerShape DEF CleanScan, storeVars
  <2>2. PICK x \in h.todo : g = [h EXCEPT
            !.todo   = @ \ {x},
            !.doomed = IF Stale(x) THEN @ \cup {x.tok} ELSE @,
            !.names  = IF Stale(x) THEN @ \cup {x.sub} ELSE @]
    BY <1>0, <1>4 DEF CleanScan, CleanGoto
  <2>3. /\ g.pc = "scan" /\ g.todo \subseteq h.todo
        /\ \/ g.doomed = h.doomed /\ g.names = h.names
           \/ g.doomed = h.doomed \cup {x.tok} /\ g.names = h.names \cup {x.sub}
    BY <2>1, <2>2 DEF Scan
  <2>4. h.pc = "scan"
    BY <1>4 DEF CleanScan
  <2> HIDE DEF h, g
  <2>5. \A y \in g.todo : Live(y.tok) => y.sub = sessions[y.tok].sub
    BY <1>0, <2>3, <2>4 DEF Knows
  <2>6. \A s \in g.names : \E t \in g.doomed : Live(t) => sessions[t].sub = s
    BY <1>0, <2>2, <2>3, <2>4 DEF Knows
  <2> QED BY <2>1, <2>3, <2>5, <2>6 DEF Knows, Live, g
<1>5. CASE CleanNext(c)
  <2>1. /\ sessions' = sessions
        /\ \E t \in h.doomed :
            \/ g = [pc |-> "user", doomed |-> h.doomed \ {t}, tok |-> t,
                    sub |-> sessions[t].sub]
            \/ g = [pc |-> "next", doomed |-> h.doomed \ {t}]
    BY <1>0, <1>5 DEF CleanNext, CleanGoto, storeVars
  <2>2. g.pc \in {"next", "user"} /\ (g.pc = "user" => g.sub = sessions[g.tok].sub)
    BY <2>1
  <2> HIDE DEF h, g
  <2> QED BY <2>1, <2>2 DEF Knows, g
<1>6. CASE \/ CleanRoutes(c) \/ CleanUser(c) \/ CleanDelete(c)
           \/ CleanEnd(c) \/ Restart
  <2>1. g.pc \in {"next", "delete", "idle"}
    BY <1>0, <1>6 DEF CleanRoutes, CleanUser, CleanDelete, CleanEnd, CleanGoto,
                      Restart, Idle
  <2> QED BY <2>1 DEF Knows
<1> QED BY <1>2, <1>3, <1>4, <1>5, <1>6, CleanFrame DEF CleanStep

LEMMA InitKnow == FrontInit => CleanersKnow
BY DEF FrontInit, CleanersKnow, Knows, Idle

\* What a verification holds of a session that lives is true of it.
LEMMA HeldTrue ==
    ASSUME AccessInv, NEW r \in Requests, Held(r), Live(req[r].sess.tok)
    PROVE  /\ req[r].sess.sub = sessions[req[r].sess.tok].sub
           /\ req[r].sess.port = sessions[req[r].sess.tok].port
<1>1. req[r].sess = CopyOf(req[r].sess.tok)
  BY DEF AccessInv, CopyFaithful
<1>2. \A t : CopyOf(t).sub = sessions[t].sub /\ CopyOf(t).port = sessions[t].port
  BY DEF CopyOf
<1> QED BY <1>1, <1>2

\* Whoever takes the user of an activated session away is late,
LEMMA UserLost ==
    ASSUME FrontInv, AccessInv, CleanersKnow, FrontNext, ~Restart,
           NEW t \in SetupTokens, Live(t), ~Reaping(t),
           users[sessions[t].sub] = t, users'[sessions[t].sub] # t
    PROVE  \/ \E c \in Cleaners : LateCleaner(c, sessions[t].sub)
           \/ \E r \in Requests : LateVerification(r, sessions[t].sub)
<1> USE DEF FrontInv
<1>1. /\ sessions[t].sub \in Subdomains
      /\ \A u \in SetupTokens :
            Live(u) /\ sessions[u].sub = sessions[t].sub => u = t
  BY OneOwner
<1>2. ASSUME NEW r \in Requests, VerifyAddUser(r), sessions[t].sub = req[r].sess.sub,
             req[r].sess.tok # t
      PROVE  LateVerification(r, sessions[t].sub)
  <2>1. Held(r) /\ req[r].pc = "user" /\ req[r].sess.tok \in SetupTokens
    BY <1>2, HeldShape DEF VerifyAddUser, Held
  <2>2. ~Live(req[r].sess.tok)
    BY <1>1, <1>2, <2>1, HeldTrue
  <2> QED BY <1>2, <2>1, <2>2 DEF LateVerification
<1>3. ASSUME NEW c \in Cleaners, CleanUser(c), sessions[t].sub = clean[c].sub
      PROVE  LateCleaner(c, sessions[t].sub)
  <2>1. /\ clean[c].pc = "user" /\ clean[c].tok \in SetupTokens
        /\ clean[c].tok # t
    BY <1>3, CleanerShape DEF CleanUser, ServerTypeOK, User, Reaping
  <2>2. ~Live(clean[c].tok)
    BY <1>1, <1>3, <2>1 DEF CleanersKnow, Knows
  <2> QED BY <1>3, <2>1, <2>2 DEF LateCleaner
<1> QED BY <1>1, <1>2, <1>3, UsersStep

\* and so is whoever takes its route.
LEMMA RouteLost ==
    ASSUME FrontInv, AccessInv, CleanersKnow, FrontNext, ~Restart,
           NEW t \in SetupTokens, Live(t), ~Reaping(t),
           routes[sessions[t].sub] = sessions[t].port,
           routes'[sessions[t].sub] # sessions[t].port
    PROVE  \/ \E c \in Cleaners : LateCleaner(c, sessions[t].sub)
           \/ \E r \in Requests : LateVerification(r, sessions[t].sub)
<1> USE DEF FrontInv
<1>1. /\ sessions[t].sub \in Subdomains
      /\ \A u \in SetupTokens :
            Live(u) /\ sessions[u].sub = sessions[t].sub => u = t
  BY OneOwner
<1>2. ASSUME NEW r \in Requests, VerifyRoute(r), sessions[t].sub = req[r].sess.sub,
             req[r].sess.port # sessions[t].port
      PROVE  LateVerification(r, sessions[t].sub)
  <2>1. Held(r) /\ req[r].pc = "route" /\ req[r].sess.tok \in SetupTokens
    BY <1>2, HeldShape DEF VerifyRoute, Held
  <2>2. ~Live(req[r].sess.tok)
    BY <1>1, <1>2, <2>1, HeldTrue
  <2> QED BY <1>2, <2>1, <2>2 DEF LateVerification
<1>3. ASSUME NEW c \in Cleaners, CleanRoutes(c), sessions[t].sub \in clean[c].names
      PROVE  LateCleaner(c, sessions[t].sub)
  <2>1. clean[c].pc = "scan" /\ clean[c] \in Scan
    BY <1>3, CleanerShape DEF CleanRoutes, ServerTypeOK
  <2>2. PICK u \in clean[c].doomed : Live(u) => sessions[u].sub = sessions[t].sub
    BY <1>3, <2>1 DEF CleanersKnow, Knows
  <2>3. u \in SetupTokens /\ u # t
    BY <2>1, <2>2 DEF Scan, Reaping
  <2> QED BY <1>1, <1>3, <2>1, <2>2, <2>3 DEF LateCleaner
<1> QED BY <1>1, <1>2, <1>3, RoutesStep

\* What a restart rebuilds is what an activated session needs.
LEMMA RestartServes ==
    ASSUME FrontInv, Restart, NEW t \in SetupTokens, Active(t)'
    PROVE  Served(t)'
<1>1. Active(t) /\ sessions' = sessions
  BY DEF Restart, Active, Live, storeVars
<1>2. sessions[t].sub \in Subdomains /\ Restored(sessions[t].sub) = t /\ t # None
  BY <1>1, OneOwner, NoneAssumption DEF Restored, Active, FrontInv
<1> QED BY <1>1, <1>2 DEF Restart, Served

\* What an activated session has is lost to a latecomer only: a cleaner or a
\* verification that works for a session gone by now, under the same name.
THEOREM ServiceIsKept == FrontSpec => ServiceKept
<1>1. FrontInv /\ AccessInv /\ CleanersKnow /\ [FrontNext]_vars => [ServiceStep]_vars
  <2> SUFFICES ASSUME FrontInv, AccessInv, CleanersKnow, FrontNext,
                      NEW t \in SetupTokens, Active(t), ~Reaping(t), Served(t),
                      Active(t)', ~Served(t)'
               PROVE  \/ \E c \in Cleaners : LateCleaner(c, sessions[t].sub)
                      \/ \E r \in Requests : LateVerification(r, sessions[t].sub)
    BY DEF ServiceStep
  <2>1. ~Restart
    BY RestartServes
  <2>2. Live(t) /\ sessions'[t].sub = sessions[t].sub /\ sessions'[t].port = sessions[t].port
    BY StutterOrStore, SameSession DEF Active, FrontInv
  <2>3. users'[sessions[t].sub] # t \/ routes'[sessions[t].sub] # sessions[t].port
    BY <2>2 DEF Served
  <2> QED BY <2>1, <2>2, <2>3, UserLost, RouteLost DEF Served
<1>2. FrontInv /\ ReapInv /\ CleanersKnow /\ [FrontNext]_vars => CleanersKnow'
  <2>1. UNCHANGED vars /\ CleanersKnow => CleanersKnow'
    BY DEF vars, CleanersKnow, Knows, Live
  <2> QED BY <2>1, StepKnow
<1>3. FrontSpec => []ReapInv
  BY InitReap, StepReap, FrontInvariant, PTL DEF FrontSpec
<1>4. FrontSpec => []CleanersKnow
  BY <1>2, <1>3, InitKnow, FrontInvariant, PTL DEF FrontSpec
<1> QED BY <1>1, <1>4, AccessInvariant, FrontInvariant, PTL DEF FrontSpec, ServiceKept
-----------------------------------------------------------------------------
(* There is no latecomer when a name rests: when it is given out again     *)
(* only once nobody works for the session that had it.  The code gives it  *)
(* out as soon as the session is deleted, while the other cleaner or a     *)
(* verification may still be at it (run two_cleaners).                     *)

CleansName(h, s) ==
    \/ h.pc = "scan" /\ (s \in h.names \/ \E x \in h.todo : x.sub = s)
    \/ h.pc = "user" /\ s = h.sub
NamesRest == \A s \in Subdomains : bySub[s] = None /\ bySub'[s] # None =>
    /\ \A c \in Cleaners : ~CleansName(clean[c], s)
    /\ \A r \in Requests : Held(r) => req[r].sess.sub # s

\* Then whoever is at work on a name works for the session that holds it,
OnTime(h) ==
    /\ h.pc = "scan" =>
        /\ \A x \in h.todo : bySub[x.sub] \in {None, x.tok}
        /\ \A s \in h.names : bySub[s] = None \/ bySub[s] \in h.doomed
    /\ h.pc = "user" => bySub[h.sub] \in {None, h.tok}
EveryoneOnTime ==
    /\ \A c \in Cleaners : OnTime(clean[c])
    /\ \A r \in Requests : Held(r) => bySub[req[r].sess.sub] \in {None, req[r].sess.tok}

\* and what a verification has registered stays until it activates.
Prepared == \A r \in Requests :
    LET t == req[r].sess.tok
        s == req[r].sess.sub
    IN  req[r].pc \in {"route", "activate"} /\ Live(t) /\ ~Reaping(t) =>
            /\ users[s] = t
            /\ req[r].pc = "activate" => routes[s] = req[r].sess.port

ServeInv == EveryoneOnTime /\ Prepared /\ ActiveIsServed

\* A name is freed, or given out when it is free.
LEMMA NameStep ==
    ASSUME StoreInv, [StoreNext]_storeVars, NEW s \in Subdomains
    PROVE  bySub'[s] \in {bySub[s], None} \/ bySub[s] = None
BY DEF StoreInv, StoreTypeOK, StoreNext, CreateSession, NameFree, RegisterPubkey,
       UpdateSessionNonce, ActivateSession, DeleteSession, Tick, storeVars

LEMMA StepOnTime ==
    ASSUME FrontInv, ReapInv, EveryoneOnTime, FrontNext, NamesRest
    PROVE  EveryoneOnTime'
<1> USE DEF FrontInv
<1>0. \A s \in Subdomains : bySub'[s] \in {bySub[s], None} \/ bySub[s] = None
  BY StutterOrStore, NameStep
<1>1. ASSUME NEW r \in Requests, Held(r)'
      PROVE  bySub'[req'[r].sess.sub] \in {None, req'[r].sess.tok}
  <2>1. CASE Moved(r)
    <3>1. Held(r) /\ req'[r].sess = req[r].sess /\ req[r].sess.sub \in Subdomains
      BY <2>1, HeldShape DEF Moved
    <3> QED BY <1>0, <3>1 DEF EveryoneOnTime, NamesRest
  <2>2. CASE Begun(r)
    <3>1. PICK t \in SetupTokens : /\ t = req'[r].sess.tok /\ Live(t)
                                   /\ req'[r].sess = CopyOf(t) /\ bySub' = bySub
      BY <2>2, BegunFacts DEF Pending, storeVars
    <3>2. req'[r].sess.sub = sessions[t].sub
      BY <3>1 DEF CopyOf
    <3> QED BY <3>1, <3>2, OneOwner
  <2> QED BY <1>1, <2>1, <2>2, HeldStep
<1>2. ASSUME NEW c \in Cleaners PROVE OnTime(clean[c])'
  <2> DEFINE h == clean[c]
             g == clean'[c]
  <2>0. h \in Cleaner /\ clean \in [Cleaners -> Cleaner] /\ OnTime(h)
    BY DEF ServerTypeOK, EveryoneOnTime
  <2>1. ASSUME NEW s \in Subdomains, CleansName(h, s)
        PROVE  bySub'[s] \in {bySub[s], None}
    BY <1>0, <2>1 DEF NamesRest
  <2>2. CASE g = h
    <3>1. /\ h.pc = "scan" => h \in Scan
          /\ h.pc = "user" => h.sub \in Subdomains
      BY <2>0, CleanerShape DEF User
    <3>2. h.pc = "scan" => /\ \A x \in h.todo : x.sub \in Subdomains /\ CleansName(h, x.sub)
                           /\ \A s \in h.names : s \in Subdomains /\ CleansName(h, s)
      BY <3>1 DEF CleansName, Scan, Snapshot
    <3>3. h.pc = "user" => CleansName(h, h.sub)
      BY DEF CleansName
    <3> HIDE DEF h, g
    <3>4. g.pc = "scan" =>
            /\ \A x \in g.todo : bySub'[x.sub] \in {None, x.tok}
            /\ \A s \in g.names : bySub'[s] = None \/ bySub'[s] \in g.doomed
      BY <2>0, <2>1, <2>2, <3>2 DEF OnTime
    <3>5. g.pc = "user" => bySub'[g.sub] \in {None, g.tok}
      BY <2>0, <2>1, <2>2, <3>1, <3>3 DEF OnTime
    <3> QED BY <3>4, <3>5 DEF OnTime, g
  <2>3. CASE CleanBegin(c)
    <3>1. /\ g.pc = "scan" /\ g.names = {} /\ bySub' = bySub
          /\ \A x \in g.todo : /\ x.tok \in SetupTokens /\ Live(x.tok)
                               /\ x.sub = sessions[x.tok].sub
      BY <2>0, <2>3 DEF CleanBegin, CleanGoto, storeVars, Cleanable, Active
    <3>2. \A x \in g.todo : bySub[x.sub] = x.tok
      BY <3>1, OneOwner
    <3> QED BY <3>1, <3>2 DEF OnTime
  <2>4. CASE CleanScan(c)
    <3>1. h \in Scan /\ bySub' = bySub
      BY <2>0, <2>4, CleanerShape DEF CleanScan, storeVars
    <3>2. PICK x \in h.todo : g = [h EXCEPT
            !.todo   = @ \ {x},
            !.doomed = IF Stale(x) THEN @ \cup {x.tok} ELSE @,
            !.names  = IF Stale(x) THEN @ \cup {x.sub} ELSE @]
      BY <2>0, <2>4 DEF CleanScan, CleanGoto
    <3>3. /\ g.pc = "scan" /\ g.todo \subseteq h.todo
          /\ \/ g.doomed = h.doomed /\ g.names = h.names
             \/ g.doomed = h.doomed \cup {x.tok} /\ g.names = h.names \cup {x.sub}
      BY <3>1, <3>2 DEF Scan
    <3>4. h.pc = "scan"
      BY <2>4 DEF CleanScan
    <3> HIDE DEF h, g
    <3>5. \A y \in g.todo : bySub[y.sub] \in {None, y.tok}
      BY <2>0, <3>3, <3>4 DEF OnTime
    <3>6. \A s \in g.names : bySub[s] = None \/ bySub[s] \in g.doomed
      BY <2>0, <3>2, <3>3, <3>4 DEF OnTime
    <3> QED BY <3>1, <3>3, <3>5, <3>6 DEF OnTime, g
  <2>5. CASE CleanNext(c)
    <3>1. /\ h.pc = "next" /\ bySub' = bySub
          /\ \E t \in h.doomed :
            \/ Live(t) /\ g = [pc |-> "user", doomed |-> h.doomed \ {t}, tok |-> t,
                               sub |-> sessions[t].sub]
            \/ g = [pc |-> "next", doomed |-> h.doomed \ {t}]
      BY <2>0, <2>5 DEF CleanNext, CleanGoto, storeVars
    <3>2. \A t \in h.doomed : t \in SetupTokens
      BY <3>1, TargetTypes DEF Targets
    <3>3. /\ g.pc \in {"next", "user"}
          /\ g.pc = "user" => /\ g.tok \in SetupTokens /\ Live(g.tok)
                              /\ g.sub = sessions[g.tok].sub
      BY <3>1, <3>2
    <3>4. g.pc = "user" => bySub[g.sub] = g.tok
      BY <3>3, OneOwner
    <3> HIDE DEF h, g
    <3> QED BY <3>1, <3>3, <3>4 DEF OnTime, g
  <2>6. CASE \/ CleanRoutes(c) \/ CleanUser(c) \/ CleanDelete(c)
             \/ CleanEnd(c) \/ Restart
    <3>1. g.pc \in {"next", "delete", "idle"}
      BY <2>0, <2>6 DEF CleanRoutes, CleanUser, CleanDelete, CleanEnd, CleanGoto,
                        Restart, Idle
    <3> QED BY <3>1 DEF OnTime
  <2> QED BY <2>2, <2>3, <2>4, <2>5, <2>6, CleanFrame DEF CleanStep
<1> QED BY <1>1, <1>2 DEF EveryoneOnTime

\* So what a live session has, only its own clean-up takes.
LEMMA UserKept ==
    ASSUME FrontInv, EveryoneOnTime, FrontNext, ~Restart,
           NEW t \in SetupTokens, Live(t), ~Reaping(t),
           users[sessions[t].sub] = t
    PROVE  users'[sessions[t].sub] = t
<1> USE DEF FrontInv
<1>1. sessions[t].sub \in Subdomains /\ bySub[sessions[t].sub] = t /\ t # None
  BY OneOwner, NoneAssumption
<1>2. ASSUME NEW r \in Requests, VerifyAddUser(r), req[r].sess.sub = sessions[t].sub
      PROVE  req[r].sess.tok = t
  BY <1>1, <1>2 DEF VerifyAddUser, Held, EveryoneOnTime
<1>3. ASSUME NEW c \in Cleaners, CleanUser(c), clean[c].sub = sessions[t].sub
      PROVE  FALSE
  BY <1>1, <1>3 DEF CleanUser, EveryoneOnTime, OnTime, Reaping
<1> QED BY <1>1, <1>2, <1>3, UsersStep

LEMMA RouteKept ==
    ASSUME FrontInv, AccessInv, EveryoneOnTime, FrontNext, ~Restart,
           NEW t \in SetupTokens, Live(t), ~Reaping(t),
           routes[sessions[t].sub] = sessions[t].port
    PROVE  routes'[sessions[t].sub] = sessions[t].port
<1> USE DEF FrontInv
<1>1. sessions[t].sub \in Subdomains /\ bySub[sessions[t].sub] = t /\ t # None
  BY OneOwner, NoneAssumption
<1>2. ASSUME NEW r \in Requests, VerifyRoute(r), req[r].sess.sub = sessions[t].sub
      PROVE  req[r].sess.port = sessions[t].port
  <2>1. Held(r) /\ req[r].sess.tok = t
    BY <1>1, <1>2 DEF VerifyRoute, Held, EveryoneOnTime
  <2> QED BY <2>1, HeldTrue
<1>3. ASSUME NEW c \in Cleaners, CleanRoutes(c), sessions[t].sub \in clean[c].names
      PROVE  FALSE
  BY <1>1, <1>3 DEF CleanRoutes, EveryoneOnTime, OnTime, Reaping
<1> QED BY <1>1, <1>2, <1>3, RoutesStep

\* What a cleaner has condemned stays so until it is deleted.
LEMMA ReapingStays ==
    ASSUME FrontInv, FrontNext, ~Restart, NEW t \in SetupTokens, Live(t), Live(t)',
           Reaping(t)
    PROVE  Reaping(t)'
<1> USE DEF FrontInv
<1>1. PICK c \in Cleaners :
        \/ clean[c].pc \in {"scan", "next", "user", "delete"} /\ t \in clean[c].doomed
        \/ clean[c].pc \in {"user", "delete"} /\ clean[c].tok = t
  BY DEF Reaping
<1> DEFINE h == clean[c]
           g == clean'[c]
<1>0. h \in Cleaner /\ clean \in [Cleaners -> Cleaner]
  BY DEF ServerTypeOK
<1>2. SUFFICES \/ g.pc \in {"scan", "next", "user", "delete"} /\ t \in g.doomed
               \/ g.pc \in {"user", "delete"} /\ g.tok = t
  BY DEF Reaping
<1>3. CASE g = h
  BY <1>1, <1>3
<1>4. CASE CleanBegin(c)
  BY <1>1, <1>4 DEF CleanBegin, Idle
<1>5. CASE CleanScan(c)
  <2>1. h \in Scan
    BY <1>0, <1>5, CleanerShape DEF CleanScan
  <2>2. g.pc = "scan" /\ h.doomed \subseteq g.doomed
    BY <1>0, <1>5, <2>1 DEF CleanScan, CleanGoto, Scan
  <2> QED BY <1>1, <1>5, <2>2 DEF CleanScan
<1>6. CASE CleanRoutes(c)
  BY <1>0, <1>1, <1>6 DEF CleanRoutes, CleanGoto
<1>7. CASE CleanNext(c)
  <2>1. h.pc = "next" /\ t \in h.doomed
    BY <1>1, <1>7 DEF CleanNext
  <2>2. \E u \in h.doomed :
            \/ Live(u) /\ g = [pc |-> "user", doomed |-> h.doomed \ {u}, tok |-> u,
                               sub |-> sessions[u].sub]
            \/ ~Live(u) /\ g = [pc |-> "next", doomed |-> h.doomed \ {u}]
    BY <1>0, <1>7 DEF CleanNext, CleanGoto
  <2> QED BY <2>1, <2>2
<1>8. CASE CleanUser(c)
  BY <1>0, <1>1, <1>8 DEF CleanUser, CleanGoto
<1>9. CASE CleanDelete(c)
  <2>1. h.tok # t
    BY <1>9 DEF CleanDelete, DeleteSession, Live, StoreInv, StoreTypeOK
  <2> QED BY <1>0, <1>1, <1>9, <2>1 DEF CleanDelete, CleanGoto
<1>10. CASE CleanEnd(c)
  BY <1>1, <1>10 DEF CleanEnd
<1> QED BY <1>3, <1>4, <1>5, <1>6, <1>7, <1>8, <1>9, <1>10, CleanFrame DEF CleanStep

LEMMA StepPrepared ==
    ASSUME FrontInv, AccessInv, EveryoneOnTime, Prepared, FrontNext
    PROVE  Prepared'
<1> USE DEF FrontInv
<1> SUFFICES ASSUME NEW r \in Requests, req'[r].pc \in {"route", "activate"},
                    Live(req[r].sess.tok)', ~Reaping(req[r].sess.tok)'
             PROVE  /\ users'[req'[r].sess.sub] = req'[r].sess.tok
                    /\ req'[r].pc = "activate" =>
                            routes'[req'[r].sess.sub] = req'[r].sess.port
  BY DEF Prepared
<1>1. /\ Held(r) /\ req'[r].sess = req[r].sess /\ req[r] \in Verify
      /\ req[r].pc \in {"route", "activate"} \/ VerifyAddUser(r)
      /\ ~Restart
  <2>1. Moved(r)
    BY HeldStep, BegunFacts DEF Held
  <2> QED BY <2>1, HeldShape DEF Moved, Restart, Idle
<1> DEFINE t == req[r].sess.tok
           s == req[r].sess.sub
<1>2. t \in SetupTokens /\ t \in issued /\ s \in Subdomains /\ req'[r].sess.tok = t
  BY <1>1, HeldShape DEF AccessInv, CopyFaithful
<1>3. Live(t)' /\ ~Reaping(t)'
  BY <1>2 DEF Live, Reaping
<1>4. Live(t) /\ ~Reaping(t)
  BY <1>1, <1>2, <1>3, StutterOrStore, SameSession, ReapingStays
<1>5. s = sessions[t].sub /\ req[r].sess.port = sessions[t].port
  BY <1>1, <1>4, HeldTrue
<1>6. users'[s] = t
  <2>1. CASE VerifyAddUser(r)
    BY <1>2, <2>1 DEF VerifyAddUser, ServerTypeOK
  <2>2. CASE req[r].pc \in {"route", "activate"}
    BY <1>1, <1>2, <1>4, <1>5, <2>2, UserKept DEF Prepared
  <2> QED BY <1>1, <2>1, <2>2
<1>7. ASSUME req'[r].pc = "activate" PROVE routes'[s] = req[r].sess.port
  <2>1. CASE VerifyAddUser(r)
    BY <1>1, <1>7, <2>1 DEF VerifyAddUser, Goto, ServerTypeOK, Verify
  <2>2. CASE VerifyRoute(r)
    BY <1>2, <2>2 DEF VerifyRoute, ServerTypeOK
  <2>3. CASE VerifyActivate(r)
    BY <1>7, <2>3 DEF VerifyActivate, Goto, ServerTypeOK, Idle
  <2>4. CASE req'[r] = req[r]
    BY <1>1, <1>2, <1>4, <1>5, <1>7, <2>4, RouteKept DEF Prepared
  <2> QED BY <1>1, <2>1, <2>2, <2>3, <2>4, HandlerOnward
<1> QED BY <1>1, <1>6, <1>7

LEMMA StepServed ==
    ASSUME FrontInv, AccessInv, ServeInv, FrontNext
    PROVE  ActiveIsServed'
<1> USE DEF FrontInv, ServeInv
<1> SUFFICES ASSUME NEW t \in SetupTokens, Active(t)', ~Reaping(t)'
             PROVE  Served(t)'
  BY DEF ActiveIsServed
<1>1. CASE Restart
  BY <1>1, RestartServes
<1>2. ASSUME Live(t), ~Restart, Served(t) PROVE Served(t)'
  <2>1. sessions'[t].sub = sessions[t].sub /\ sessions'[t].port = sessions[t].port
    BY <1>2, StutterOrStore, SameSession DEF Active
  <2>2. ~Reaping(t)
    BY <1>2, ReapingStays DEF Active
  <2> QED BY <1>2, <2>1, <2>2, UserKept, RouteKept DEF Served
<1>3. CASE Active(t) /\ ~Restart
  <2>1. ~Reaping(t)
    BY <1>3, ReapingStays DEF Active
  <2> QED BY <1>2, <1>3, <2>1 DEF Active, ActiveIsServed
<1>4. CASE Activated(t) /\ ~Restart
  <2>1. PICK r \in Requests : VerifyActivate(r) /\ req[r].sess.tok = t
    BY <1>4 DEF Activated
  <2>2. Held(r) /\ Live(t) /\ req[r].pc = "activate"
    BY <1>4, <2>1 DEF Activated, VerifyActivate, Held
  <2>3. ~Reaping(t)
    BY <1>4, <2>2, ReapingStays DEF Active
  <2>4. sessions[t].sub = req[r].sess.sub /\ sessions[t].port = req[r].sess.port
    BY <2>1, <2>2, HeldTrue
  <2>5. Served(t)
    BY <2>1, <2>2, <2>3, <2>4 DEF Prepared, Served
  <2> QED BY <1>2, <1>4, <2>2, <2>5
<1> QED BY <1>1, <1>3, <1>4, SessionStep DEF SameStage, Created, Aging, Active, Live

LEMMA InitServe == FrontInit => ServeInv
<1>1. FrontInit => \A t \in SetupTokens : ~Active(t)
  BY DEF FrontInit, StoreInit, Active, Live
<1> QED BY <1>1 DEF FrontInit, ServeInv, EveryoneOnTime, OnTime, Held, Prepared,
                    ActiveIsServed, Idle

LEMMA StepServe ==
    FrontInv /\ AccessInv /\ ReapInv /\ ServeInv
        /\ [FrontNext]_vars /\ [NamesRest]_vars => ServeInv'
<1>1. ASSUME UNCHANGED vars, ServeInv PROVE ServeInv'
  BY <1>1 DEF vars, ServeInv, EveryoneOnTime, OnTime, Held, Prepared, ActiveIsServed,
              Served, Active, Live, Reaping
<1> QED BY <1>1, StepOnTime, StepPrepared, StepServed DEF ServeInv

THEOREM ServeInvariant == FrontSpec /\ [][NamesRest]_vars => []ServeInv
<1>1. FrontSpec => []ReapInv
  BY InitReap, StepReap, FrontInvariant, PTL DEF FrontSpec
<1> QED BY <1>1, InitServe, StepServe, AccessInvariant, FrontInvariant, PTL DEF FrontSpec

\* As long as names rest, what an activated session needs to be reached is
\* there until its clean-up, whatever handlers, both cleaners and the operator
\* do and wherever the process crashed.
THEOREM ActiveServed == FrontSpec /\ [][NamesRest]_vars => []ActiveIsServed
<1>1. ServeInv => ActiveIsServed
  BY DEF ServeInv
<1> QED BY <1>1, ServeInvariant, PTL

\* So a session within its grace has its route: what run two_cleaners shows
\* to fail is due to a name given out while the other cleaner is at it.
THEOREM FreshRouteServed ==
    ASSUME Steady PROVE FrontSpec /\ [][NamesRest]_vars => []FreshRouteKept
<1>1. SafeInv /\ ServeInv => FreshRouteKept
  <2> SUFFICES ASSUME SafeInv, ServeInv, NEW t \in SetupTokens,
                      Active(t), sessions[t].activeAge < Grace
               PROVE  routes[sessions[t].sub] = sessions[t].port
    BY DEF FreshRouteKept
  <2>1. sessions[t].activeAge \in Ages /\ Grace \in Ages
    BY FrontendAssumption
       DEF SafeInv, FrontInv, StoreInv, StoreTypeOK, Active, Live, Session
  <2>2. ~(sessions[t].activeAge >= Grace)
    BY <2>1, HorizonAssumption DEF Ages
  <2>3. ~Reaping(t)
    BY <2>2, LiveTarget DEF Reaping, Targets, Active
  <2> QED BY <2>3 DEF ServeInv, ActiveIsServed, Served
<1> QED BY <1>1, SafeInvariant, ServeInvariant, PTL
=============================================================================
