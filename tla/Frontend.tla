------------------------------ MODULE Frontend ------------------------------
(***************************************************************************)
(* The life of an HTTP tunnel in internal/server, over the session store:  *)
(*                                                                         *)
(*   handlers  - /<port> (handleScript), /register, /challenge, /verify;   *)
(*               net/http runs each request in a goroutine of its own, and *)
(*               a handler is as many steps as it makes shared accesses;   *)
(*   cleaners  - startCleaner and startDisconnectWatcher, two goroutines   *)
(*               that run the same cleanStaleRoutesAndSessions;            *)
(*   tunnels   - the chisel server: its user index, the tunnels clients    *)
(*               hold, the registry of proxy pipes by port;                *)
(*   operator  - config reload, crash and restart (ReloadChiselUsers).     *)
(*                                                                         *)
(* Sessions of mode "tcp/udp" add raw listeners and are not modelled here. *)
(* A refusal that touches no shared state (a missing parameter, a bad      *)
(* signature, a rate limit) is no step at all.                             *)
(***************************************************************************)
EXTENDS SessionStore, FiniteSets

CONSTANTS
    Requests,       \* goroutines that serve HTTP requests
    Cleaners,       \* goroutines that clean: the code has two
    Clients,        \* chisel clients, whoever runs them
    Wire,           \* the key texts clients send, a subset of PubHex
    MaxSessions,    \* cfg.Tunnel.MaxSessions, 0 = unlimited
    Grace,          \* cfg.Tunnel.ActivationGracePeriod, in ticks
    NonceTTL,       \* 5 minutes, in ticks
    Permissions,    \* the configurations the operator may load
    Prompt,         \* TRUE: a handler ends before the next tick of the clock
    MaxRestarts     \* bound on crashes

ASSUME FrontendAssumption ==
    /\ Cardinality(Ports) \in Nat \ {0} /\ Ports = 1..Cardinality(Ports)
    /\ Wire \subseteq PubHex /\ None \notin Clients
    /\ MaxSessions \in Nat /\ Grace \in Ages /\ NonceTTL \in Ages
    /\ MaxRestarts \in Nat /\ Prompt \in BOOLEAN
    /\ "http" \in Modes
    /\ Permissions \subseteq [createTunnel : BOOLEAN, infinity : BOOLEAN]

VARIABLES
    perms,      \* f.cfg: the permissions of the sessions' role
    routes,     \* f.routes: subdomain -> server port, or None
    users,      \* chisel's user index: subdomain -> password, or None
    nextPort,   \* f.nextPort
    drawn,      \* the nonces drawn so far
    req,        \* request -> the local state of its handler
    clean,      \* cleaner -> its local state
    told,       \* the tokens whose password /verify has answered
    at,         \* client -> the port its tunnel serves, or None
    pipes,      \* chisel's proxyPipes: port -> client whose tunnel serves it
    restarts

serverVars == <<perms, routes, users, nextPort, drawn>>
tunnelVars == <<told, at, pipes>>
vars == <<sessions, bySub, byKey, issued, perms, routes, users, nextPort, drawn,
          req, clean, told, at, pipes, restarts>>

-----------------------------------------------------------------------------
(* Local state of goroutines.                                              *)

\* A handler's copy of a session: what of it is used after it was read.
Copy == [tok : SetupTokens, sub : Subdomains, port : Ports, infinity : BOOLEAN]
CopyOf(t) == [tok |-> t, sub |-> sessions[t].sub, port |-> sessions[t].port,
              infinity |-> sessions[t].infinity]

Idle == [pc |-> "idle"]

Handler ==
         {Idle, [pc |-> "port"]}
    \cup [pc : {"create"}, port : Ports]
    \cup [pc : {"nonce"}, tok : SetupTokens]
    \cup [pc : {"perms", "deny", "user", "route", "activate"}, sess : Copy, nonce : Nonces]

\* A cleaner's snapshot of a session holds the decision's inputs.
Snapshot == [tok : SetupTokens, sub : Subdomains, port : Ports, expired : BOOLEAN]

Cleaner ==
         {Idle}
    \cup [pc : {"scan"}, todo : SUBSET Snapshot,
          doomed : SUBSET SetupTokens, names : SUBSET Subdomains]
    \cup [pc : {"next"}, doomed : SUBSET SetupTokens]
    \cup [pc : {"user"}, doomed : SUBSET SetupTokens, tok : SetupTokens, sub : Subdomains]
    \cup [pc : {"delete"}, doomed : SUBSET SetupTokens, tok : SetupTokens]

Goto(r, s) == req' = [req EXCEPT ![r] = s]
CleanGoto(c, s) == clean' = [clean EXCEPT ![c] = s]

-----------------------------------------------------------------------------
FrontInit ==
    /\ StoreInit
    /\ perms \in Permissions
    /\ routes = [s \in Subdomains |-> None]
    /\ users = [s \in Subdomains |-> None]
    /\ nextPort = Cardinality(Ports)
    /\ drawn = {}
    /\ req = [r \in Requests |-> Idle]
    /\ clean = [c \in Cleaners |-> Idle]
    /\ told = {}
    /\ at = [c \in Clients |-> None]
    /\ pipes = [p \in Ports |-> None]
    /\ restarts = 0

-----------------------------------------------------------------------------
(* /<port>: handleScript.  The count of sessions is read, then a port is   *)
(* chosen, then the session is created.                                    *)

ScriptCheck(r) ==
    /\ req[r] = Idle
    /\ MaxSessions > 0 => Cardinality(LiveTokens) < MaxSessions
    /\ Goto(r, [pc |-> "port"])
    /\ UNCHANGED <<storeVars, serverVars, clean, tunnelVars, restarts>>

\* Only ports of routes count as used: not those of pending sessions, nor
\* those of tunnels that outlive their session.
PortInUse(p) == \E s \in Subdomains : routes[s] = p

\* The counter wraps, and skips ports in use; with none free the handler
\* spins.  Without the wrap it would leave the range of ports (mutant).
AfterUnwrapped(p, d) == p + d
After(p, d)          == ((p + d - 1) % Cardinality(Ports)) + 1

FirstFree(d) == /\ ~PortInUse(After(nextPort, d))
                /\ \A e \in 1..(d - 1) : PortInUse(After(nextPort, e))

ScriptPort(r) ==
    /\ req[r].pc = "port"
    /\ \E d \in 1..Cardinality(Ports) :
        /\ FirstFree(d)
        /\ nextPort' = After(nextPort, d)
        /\ Goto(r, [pc |-> "create", port |-> After(nextPort, d)])
    /\ UNCHANGED <<storeVars, perms, routes, users, drawn, clean, tunnelVars, restarts>>

ScriptCreate(r) ==
    /\ req[r].pc = "create"
    /\ \E t \in SetupTokens, s \in Subdomains, inf \in BOOLEAN, ttl \in TTLs :
           CreateSession(t, s, "http", req[r].port, inf, ttl)
    /\ Goto(r, Idle)
    /\ UNCHANGED <<serverVars, clean, tunnelVars, restarts>>

\* The name asked for is taken: 409, or no random one was free: 500.
ScriptRefused(r) ==
    /\ req[r].pc = "create"
    /\ \E s \in Subdomains : ~NameFree(s)
    /\ Goto(r, Idle)
    /\ UNCHANGED <<storeVars, serverVars, clean, tunnelVars, restarts>>

-----------------------------------------------------------------------------
(* /register: handleRegister is one transaction.                           *)

Register(t, p) ==
    /\ RegisterPubkey(t, p)
    /\ UNCHANGED <<serverVars, req, clean, tunnelVars, restarts>>

-----------------------------------------------------------------------------
(* /challenge: handleChallenge reads the session, then stores a nonce.     *)

ChallengeBegin(r, p) ==
    /\ req[r] = Idle
    /\ LET t == GetSessionByPubkey(p) IN
        /\ t # None
        /\ ~sessions[t].activated
        /\ Goto(r, [pc |-> "nonce", tok |-> t])
    /\ UNCHANGED <<storeVars, serverVars, clean, tunnelVars, restarts>>

\* UpdateSessionNonce fails when the session was deleted in between.
ChallengeEnd(r) ==
    /\ req[r].pc = "nonce"
    /\ \E n \in Nonces \ drawn :
        /\ drawn' = drawn \cup {n}
        /\ IF Live(req[r].tok) THEN UpdateSessionNonce(req[r].tok, n)
                               ELSE UNCHANGED storeVars
    /\ Goto(r, Idle)
    /\ UNCHANGED <<perms, routes, users, nextPort, clean, tunnelVars, restarts>>

-----------------------------------------------------------------------------
(* /verify: handleVerify works on the copy it read first.  ConsumeNonce    *)
(* clears the nonce of that copy; the stored one stays until activation.   *)

VerifyBegin(r, p) ==
    /\ req[r] = Idle
    /\ LET t == GetSessionByPubkey(p) IN
        /\ t # None
        /\ ~sessions[t].activated
        /\ sessions[t].nonce # None
        /\ sessions[t].nonceAge <= NonceTTL
        /\ Goto(r, [pc |-> "perms", sess |-> CopyOf(t), nonce |-> sessions[t].nonce])
    /\ UNCHANGED <<storeVars, serverVars, clean, tunnelVars, restarts>>

Permitted(sess) == perms.createTunnel /\ (sess.infinity => perms.infinity)

\* The configuration is loaded once; what it denies loses its session.
VerifyPerms(r) ==
    /\ req[r].pc = "perms"
    /\ Goto(r, [req[r] EXCEPT !.pc = IF Permitted(req[r].sess) THEN "user" ELSE "deny"])
    /\ UNCHANGED <<storeVars, serverVars, clean, tunnelVars, restarts>>

VerifyDeny(r) ==
    /\ req[r].pc = "deny"
    /\ IF Live(req[r].sess.tok) THEN DeleteSession(req[r].sess.tok)
                                ELSE UNCHANGED storeVars
    /\ Goto(r, Idle)
    /\ UNCHANGED <<serverVars, clean, tunnelVars, restarts>>

VerifyAddUser(r) ==
    /\ req[r].pc = "user"
    /\ users' = [users EXCEPT ![req[r].sess.sub] = req[r].sess.tok]
    /\ Goto(r, [req[r] EXCEPT !.pc = "route"])
    /\ UNCHANGED <<storeVars, perms, routes, nextPort, drawn, clean, tunnelVars, restarts>>

VerifyRoute(r) ==
    /\ req[r].pc = "route"
    /\ routes' = [routes EXCEPT ![req[r].sess.sub] = req[r].sess.port]
    /\ Goto(r, [req[r] EXCEPT !.pc = "activate"])
    /\ UNCHANGED <<storeVars, perms, users, nextPort, drawn, clean, tunnelVars, restarts>>

\* The session is gone: the handler answers 500 and leaves the user and the
\* route it has just registered.  Otherwise the client learns its password.
VerifyActivate(r) ==
    /\ req[r].pc = "activate"
    /\ LET t == req[r].sess.tok IN
        IF Live(t) THEN ActivateSession(t) /\ told' = told \cup {t}
                   ELSE UNCHANGED <<storeVars, told>>
    /\ Goto(r, Idle)
    /\ UNCHANGED <<serverVars, clean, at, pipes, restarts>>

-----------------------------------------------------------------------------
(* cleanStaleRoutesAndSessions.                                            *)

GraceIgnored(t) == TRUE                                           \* mutant
PastGrace(t)    == Grace = 0 \/ sessions[t].activeAge >= Grace

PendingToo(t) == Live(t) /\ (Active(t) => PastGrace(t))           \* mutant
Cleanable(t)  == Active(t) /\ PastGrace(t)

\* store.All: pending sessions and those within their grace are skipped.
CleanBegin(c) ==
    /\ clean[c] = Idle
    /\ CleanGoto(c, [pc |-> "scan", doomed |-> {}, names |-> {},
         todo |-> {[tok |-> t, sub |-> sessions[t].sub, port |-> sessions[t].port,
                    expired |-> ~sessions[t].infinity /\ sessions[t].left = 0] :
                   t \in {u \in SetupTokens : Cleanable(u)}}])
    /\ UNCHANGED <<storeVars, serverVars, req, tunnelVars, restarts>>

OnlyLost(x)    == pipes[x.port] = None                            \* mutant
OnlyExpired(x) == x.expired                                       \* mutant
Stale(x)       == pipes[x.port] = None \/ x.expired

\* One session of the snapshot, against the registry of pipes of that moment.
CleanScan(c) ==
    /\ clean[c].pc = "scan"
    /\ \E x \in clean[c].todo :
        CleanGoto(c, [clean[c] EXCEPT
            !.todo   = @ \ {x},
            !.doomed = IF Stale(x) THEN @ \cup {x.tok} ELSE @,
            !.names  = IF Stale(x) THEN @ \cup {x.sub} ELSE @])
    /\ UNCHANGED <<storeVars, serverVars, req, tunnelVars, restarts>>

\* The routes go first, by name.
CleanRoutes(c) ==
    /\ clean[c].pc = "scan"
    /\ clean[c].todo = {}
    /\ routes' = [s \in Subdomains |-> IF s \in clean[c].names THEN None ELSE routes[s]]
    /\ CleanGoto(c, [pc |-> "next", doomed |-> clean[c].doomed])
    /\ UNCHANGED <<storeVars, perms, users, nextPort, drawn, req, tunnelVars, restarts>>

\* store.Get, for each token (expired ones first: the order is not kept).
CleanNext(c) ==
    /\ clean[c].pc = "next"
    /\ \E t \in clean[c].doomed :
        LET rest == clean[c].doomed \ {t} IN
        CleanGoto(c, IF Live(t)
                     THEN [pc |-> "user", doomed |-> rest, tok |-> t, sub |-> sessions[t].sub]
                     ELSE [pc |-> "next", doomed |-> rest])
    /\ UNCHANGED <<storeVars, serverVars, req, tunnelVars, restarts>>

\* chisel.DeleteUser, by name.  Forgotten, it leaves the user (mutant).
CleanNoUser(c) ==
    /\ clean[c].pc = "user"
    /\ CleanGoto(c, [pc |-> "delete", doomed |-> clean[c].doomed, tok |-> clean[c].tok])
    /\ UNCHANGED <<storeVars, serverVars, req, tunnelVars, restarts>>
CleanUser(c) ==
    /\ clean[c].pc = "user"
    /\ users' = [users EXCEPT ![clean[c].sub] = None]
    /\ CleanGoto(c, [pc |-> "delete", doomed |-> clean[c].doomed, tok |-> clean[c].tok])
    /\ UNCHANGED <<storeVars, perms, routes, nextPort, drawn, req, tunnelVars, restarts>>

\* Emptying the bucket alone would leave the indexes behind (mutant).
CleanBucket(c) ==
    /\ clean[c].pc = "delete"
    /\ sessions' = [sessions EXCEPT ![clean[c].tok] = None]
    /\ CleanGoto(c, [pc |-> "next", doomed |-> clean[c].doomed])
    /\ UNCHANGED <<bySub, byKey, issued, serverVars, req, tunnelVars, restarts>>
CleanDelete(c) ==
    /\ clean[c].pc = "delete"
    /\ IF Live(clean[c].tok) THEN DeleteSession(clean[c].tok) ELSE UNCHANGED storeVars
    /\ CleanGoto(c, [pc |-> "next", doomed |-> clean[c].doomed])
    /\ UNCHANGED <<serverVars, req, tunnelVars, restarts>>

CleanEnd(c) ==
    /\ clean[c].pc = "next"
    /\ clean[c].doomed = {}
    /\ CleanGoto(c, Idle)
    /\ UNCHANGED <<storeVars, serverVars, req, tunnelVars, restarts>>

CleanStep(c) ==
    \/ CleanBegin(c)
    \/ CleanScan(c)
    \/ CleanRoutes(c)
    \/ CleanNext(c)
    \/ CleanUser(c)
    \/ CleanDelete(c)
    \/ CleanEnd(c)

-----------------------------------------------------------------------------
(* Tunnels.  authUser accepts the password of any user of the index, and   *)
(* anybody while the index is empty; every user has the pattern ".*", so a *)
(* client that is in opens the remote it likes, its own port or not.  A    *)
(* tunnel, once up, stays up whatever happens to its user or session;      *)
(* closing it removes the entry of its port, whoever holds that by then.   *)

AuthUser == \/ \E s \in Subdomains : users[s] \in told
            \/ \A s \in Subdomains : users[s] = None

Connect(c, p) ==
    /\ at[c] = None
    /\ AuthUser
    /\ at' = [at EXCEPT ![c] = p]
    /\ pipes' = [pipes EXCEPT ![p] = c]
    /\ UNCHANGED <<storeVars, serverVars, req, clean, told, restarts>>

Disconnect(c) ==
    /\ at[c] # None
    /\ at' = [at EXCEPT ![c] = None]
    /\ pipes' = [pipes EXCEPT ![at[c]] = None]
    /\ UNCHANGED <<storeVars, serverVars, req, clean, told, restarts>>

-----------------------------------------------------------------------------
(* The operator and the clock.                                             *)

ReloadConfig ==
    /\ perms' \in Permissions
    /\ UNCHANGED <<storeVars, routes, users, nextPort, drawn, req, clean, tunnelVars, restarts>>

\* ReloadChiselUsers runs before the server serves: every activated session
\* gets its user and its route back.
RestoredIfPiped(s) ==                                             \* mutant
    LET t == bySub[s] IN
    IF t # None /\ Active(t) /\ pipes[sessions[t].port] # None THEN t ELSE None
Restored(s) == LET t == bySub[s] IN
               IF t # None /\ Active(t) THEN t ELSE None

\* A crash between any two steps: memory is lost, the database is not.
Restart ==
    /\ restarts < MaxRestarts
    /\ restarts' = restarts + 1
    /\ users' = [s \in Subdomains |-> Restored(s)]
    /\ routes' = [s \in Subdomains |->
                    IF Restored(s) = None THEN None ELSE sessions[Restored(s)].port]
    /\ nextPort' = Cardinality(Ports)
    /\ req' = [r \in Requests |-> Idle]
    /\ clean' = [c \in Cleaners |-> Idle]
    /\ at' = [c \in Clients |-> None]
    /\ pipes' = [p \in Ports |-> None]
    /\ UNCHANGED <<storeVars, perms, drawn, told>>

Time ==
    /\ Prompt => \A r \in Requests : req[r] = Idle
    /\ Tick
    /\ UNCHANGED <<serverVars, req, clean, tunnelVars, restarts>>

-----------------------------------------------------------------------------
HandlerStep(r) ==
    \/ ScriptPort(r)
    \/ ScriptCreate(r)
    \/ ScriptRefused(r)
    \/ ChallengeEnd(r)
    \/ VerifyPerms(r)
    \/ VerifyDeny(r)
    \/ VerifyAddUser(r)
    \/ VerifyRoute(r)
    \/ VerifyActivate(r)

FrontNext ==
    \/ \E r \in Requests :
        \/ ScriptCheck(r)
        \/ \E p \in Wire : ChallengeBegin(r, p) \/ VerifyBegin(r, p)
        \/ HandlerStep(r)
    \/ \E t \in SetupTokens, p \in Wire : Register(t, p)
    \/ \E c \in Cleaners : CleanStep(c)
    \/ \E c \in Clients : Disconnect(c) \/ \E p \in Ports : Connect(c, p)
    \/ ReloadConfig
    \/ Restart
    \/ Time

\* A goroutine that can run does, the tickers tick and the clock advances;
\* what clients, the operator or a crash do is up to them.
Fairness ==
    /\ \A r \in Requests : WF_vars(HandlerStep(r))
    /\ \A c \in Cleaners : WF_vars(CleanStep(c))
    /\ WF_vars(Time)

FrontSpec == FrontInit /\ [][FrontNext]_vars
FairSpec  == FrontSpec /\ Fairness

-----------------------------------------------------------------------------
(* Properties.                                                             *)

ServerTypeOK ==
    /\ perms \in Permissions
    /\ routes \in [Subdomains -> Ports \cup {None}]
    /\ users \in [Subdomains -> SetupTokens \cup {None}]
    /\ nextPort \in Ports
    /\ drawn \in SUBSET Nonces
    /\ req \in [Requests -> Handler]
    /\ clean \in [Cleaners -> Cleaner]
    /\ told \in SUBSET SetupTokens
    /\ at \in [Clients -> Ports \cup {None}]
    /\ pipes \in [Ports -> Clients \cup {None}]
    /\ restarts \in 0..MaxRestarts

FrontTypeOK == StoreTypeOK /\ ServerTypeOK

Reaping(t) == \E c \in Cleaners :
    \/ clean[c].pc \in {"scan", "next", "user", "delete"} /\ t \in clean[c].doomed
    \/ clean[c].pc \in {"user", "delete"} /\ clean[c].tok = t

\* Chisel knows the password of the session's client, and the session's name
\* routes to its port.
Served(t) == /\ users[sessions[t].sub] = t
             /\ routes[sessions[t].sub] = sessions[t].port

\* An activated session that no cleaner has condemned can be reached.  It has
\* to survive every interleaving of handlers and cleaner, and a crash anywhere
\* in a handler or in a clean-up, after which both are rebuilt.
ActiveIsServed ==
    \A t \in SetupTokens : Active(t) /\ ~Reaping(t) => Served(t)

\* Whoever works for a session that is gone, under the name s that has been
\* given to another one since.
LateCleaner(c, s) ==
    \/ clean[c].pc = "scan" /\ s \in clean[c].names
            /\ \E t \in clean[c].doomed : ~Live(t)
    \/ clean[c].pc = "user" /\ s = clean[c].sub /\ ~Live(clean[c].tok)
LateVerification(r, s) ==
    /\ req[r].pc \in {"user", "route"}
    /\ s = req[r].sess.sub
    /\ ~Live(req[r].sess.tok)

\* What an activated session has been given is lost to a latecomer only, be it
\* a cleaner or a verification: under any configurations, with handlers as slow
\* as they like, neither a crash, nor a second verification of the session, nor
\* a clean-up of others takes its user or its route.
ServiceStep == \A t \in SetupTokens :
    /\ Active(t) /\ ~Reaping(t) /\ Served(t)
    /\ Active(t)' /\ ~Reaping(t)' /\ ~Served(t)'
    => \/ \E c \in Cleaners : LateCleaner(c, sessions[t].sub)
       \/ \E r \in Requests : LateVerification(r, sessions[t].sub)
ServiceKept == [][ServiceStep]_vars

\* A name leads where it should, as long as it leads anywhere: its route to
\* the port of the session that holds it, and its chisel user to the client of
\* this session.  So nothing is left behind for a session that is gone, and no
\* handler or cleaner gives a name that was taken over to somebody else.
RightfulNames == \A s \in Subdomains :
    /\ users[s] # None  => users[s] = bySub[s]
    /\ routes[s] # None => bySub[s] # None /\ routes[s] = sessions[bySub[s]].port

\* Every step of the server is a transaction of the store or none: what is
\* proved of the store holds of the server.
UsesStore == StoreSpec

\* Seen from the server, tunnels are a PipeRegistry, the one that Tunnel
\* implements.
Tunnels == INSTANCE PipeRegistry WITH Proxies <- Clients, Keys <- Ports
UsesPipes == Tunnels!Spec

\* What the server is built of.
ServerUses == UsesStore /\ UsesPipes

\* "Grace period after activation during which a session is never considered
\* disconnected": no activated session is deleted within its grace.
GraceStep == \A t \in SetupTokens :
    Active(t) /\ ~Live(t)' => sessions[t].activeAge >= Grace
GraceRespected == [][GraceStep]_vars

\* The cleaners reap activated sessions only: a pending one goes when its
\* own verification is denied, never by a stale list of tokens.
PendingStep == \A t \in SetupTokens : Pending(t) /\ ~Live(t)' =>
    \E r \in Requests : req[r].pc = "deny" /\ req[r].sess.tok = t
PendingKept == [][PendingStep]_vars

\* A session past its lifetime goes away, connected or not.
ExpiredReaped == \A t \in SetupTokens :
    (Active(t) /\ ~sessions[t].infinity /\ sessions[t].left = 0) ~> ~Live(t)

\* So does one whose client left, unless the client comes back.
LostReaped == \A t \in SetupTokens :
    (Active(t) /\ pipes[sessions[t].port] = None)
        ~> (Live(t) => pipes[sessions[t].port] # None)

\* "NextServerPort returns a unique internal port number": no two sessions
\* have the same port.
PortsUnique == \A t, u \in LiveTokens :
    sessions[t].port = sessions[u].port => t = u

\* "route should still exist during grace period": a session within its
\* grace has its route.
FreshRouteKept == \A t \in SetupTokens :
    Active(t) /\ sessions[t].activeAge < Grace
        => routes[sessions[t].sub] = sessions[t].port
=============================================================================
