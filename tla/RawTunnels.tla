----------------------------- MODULE RawTunnels -----------------------------
(***************************************************************************)
(* The listeners of raw tunnels: what handleVerify starts for a session of *)
(* mode tcp or tcp/udp (server/tcp.go, server/udp.go), the map the cleaner *)
(* closes them by, and the clients whose pipes they wait for.  A session   *)
(* that is verified twice at once has the goroutines of both requests.     *)
(*                                                                         *)
(* Everything here goes by port, and a port outlives its session: the map, *)
(* the socket and the pipes may belong to a newer session than the         *)
(* goroutine that touches them.  Connections that a listener accepts are   *)
(* the visitors of Tunnel.                                                 *)
(***************************************************************************)
CONSTANTS
    Sessions,
    Ports,
    PortOf,         \* session -> its server port
    Verifications,  \* requests to /verify
    SessionOf,      \* request -> the session it verifies
    UDPSessions,    \* the sessions of mode tcp/udp
    None

ASSUME RawAssumption ==
    /\ PortOf \in [Sessions -> Ports]
    /\ SessionOf \in [Verifications -> Sessions]
    /\ UDPSessions \subseteq Sessions
    /\ None \notin Verifications

VARIABLES
    session,        \* session -> how far it is
    client,         \* the sessions whose client is connected
    pipes,          \* proxyPipes: the <<port, protocol>> found there
    tcp,            \* request -> its handler, then its TCP goroutine
    udp,            \* request -> its UDP goroutine
    sockets,        \* the requests whose goroutine's socket is open
    tcpListeners,   \* port -> the request whose socket is in the map, or None
    udpListeners    \* the ports in the map of UDP sockets

rawVars == <<session, client, pipes, tcp, udp, sockets, tcpListeners, udpListeners>>

-----------------------------------------------------------------------------
SessionState ==
         [pc : {"none", "pending", "active", "deleted"}]
    \cup [pc : {"reaping"}, taken : Verifications \cup {None}]

TCPState == {"none", "verify", "poll", "listen", "register", "accept", "close", "forget", "done"}
UDPState == {"none", "poll", "start", "serve", "done"}

State(s)      == [pc |-> s]
PortAt(v)     == PortOf[SessionOf[v]]
Bound(q)      == \E v \in sockets : PortAt(v) = q
Protocols(s)  == IF s \in UDPSessions THEN {"tcp", "udp"} ELSE {"tcp"}
PipesOf(s)    == {PortOf[s]} \X Protocols(s)

Init ==
    /\ session = [s \in Sessions |-> State("none")]
    /\ client = {}
    /\ pipes = {}
    /\ tcp = [v \in Verifications |-> "none"]
    /\ udp = [v \in Verifications |-> "none"]
    /\ sockets = {}
    /\ tcpListeners = [q \in Ports |-> None]
    /\ udpListeners = {}

-----------------------------------------------------------------------------
(* Sessions and their clients.                                             *)

SessionTo(s, r) == session' = [session EXCEPT ![s] = r]

PortInUse(q) == tcpListeners[q] # None \/ q \in udpListeners

\* isPortInUse is all that is asked of an external_port.  NextServerPort also
\* passes over a port that it cannot bind; the model allows for both.
Draw(s) ==
    /\ session[s].pc = "none"
    /\ ~PortInUse(PortOf[s])
    /\ SessionTo(s, State("pending"))
    /\ UNCHANGED <<client, pipes, tcp, udp, sockets, tcpListeners, udpListeners>>

\* CanListen asks for the port that the raw listener of the same session
\* holds: once that runs, the client cannot come back.
Connect(s) ==
    /\ session[s].pc = "active"
    /\ s \notin client
    /\ ~Bound(PortOf[s])
    /\ client' = client \cup {s}
    /\ UNCHANGED <<session, pipes, tcp, udp, sockets, tcpListeners, udpListeners>>

\* One proxy after the other.
OpenPipe(s) ==
    /\ s \in client
    /\ \E k \in PipesOf(s) : k \notin pipes /\ pipes' = pipes \cup {k}
    /\ UNCHANGED <<session, client, tcp, udp, sockets, tcpListeners, udpListeners>>

Disconnect(s) ==
    /\ s \in client
    /\ client' = client \ {s}
    /\ pipes' = pipes \ PipesOf(s)
    /\ UNCHANGED <<session, tcp, udp, sockets, tcpListeners, udpListeners>>

-----------------------------------------------------------------------------
(* handleVerify, and the goroutine it starts, which becomes                *)
(* startTCPListener.                                                       *)

TCPTo(v, pc) == tcp' = [tcp EXCEPT ![v] = pc]
UDPTo(v, pc) == udp' = [udp EXCEPT ![v] = pc]

\* Other requests for the same session may be under way.
VerifyBegin(v) ==
    /\ tcp[v] = "none"
    /\ session[SessionOf[v]].pc = "pending"
    /\ TCPTo(v, "verify")
    /\ UNCHANGED <<session, client, pipes, udp, sockets, tcpListeners, udpListeners>>

\* Activating a session again succeeds, as long as its record is there.
Verify(v) ==
    /\ tcp[v] = "verify"
    /\ LET s == SessionOf[v] IN
        IF session[s].pc = "deleted"
        THEN TCPTo(v, "done") /\ UNCHANGED session
        ELSE /\ TCPTo(v, "poll")
             /\ SessionTo(s, IF session[s].pc = "pending" THEN State("active") ELSE session[s])
    /\ UNCHANGED <<client, pipes, udp, sockets, tcpListeners, udpListeners>>

\* To wait for UDP whatever the mode (mutant).
FindBoth(v) ==
    /\ tcp[v] = "poll"
    /\ <<PortAt(v), "tcp">> \in pipes
    /\ TCPTo(v, "listen")
    /\ UDPTo(v, "poll")
    /\ UNCHANGED <<session, client, pipes, sockets, tcpListeners, udpListeners>>
FindPipe(v) ==
    /\ tcp[v] = "poll"
    /\ <<PortAt(v), "tcp">> \in pipes
    /\ TCPTo(v, "listen")
    /\ udp' = [udp EXCEPT ![v] = IF SessionOf[v] \in UDPSessions THEN "poll" ELSE @]
    /\ UNCHANGED <<session, client, pipes, sockets, tcpListeners, udpListeners>>

\* After five seconds.
GiveUp(v) ==
    /\ tcp[v] = "poll"
    /\ TCPTo(v, "done")
    /\ UNCHANGED <<session, client, pipes, udp, sockets, tcpListeners, udpListeners>>

\* net.Listen fails on a port that is bound, and may fail on another.
Listen(v) ==
    /\ tcp[v] = "listen"
    /\ \/ ~Bound(PortAt(v)) /\ sockets' = sockets \cup {v} /\ TCPTo(v, "register")
       \/ sockets' = sockets /\ TCPTo(v, "done")
    /\ UNCHANGED <<session, client, pipes, udp, tcpListeners, udpListeners>>

Register(v) ==
    /\ tcp[v] = "register"
    /\ tcpListeners' = [tcpListeners EXCEPT ![PortAt(v)] = v]
    /\ TCPTo(v, "accept")
    /\ UNCHANGED <<session, client, pipes, udp, sockets, udpListeners>>

\* Accept fails once the socket is closed, and may fail before.
AcceptFails(v) ==
    /\ tcp[v] = "accept"
    /\ TCPTo(v, "close")
    /\ UNCHANGED <<session, client, pipes, udp, sockets, tcpListeners, udpListeners>>

\* The deferred calls: close, then delete by port.  To return without them
\* would keep the port (mutants).
KeepSocket(v) ==
    /\ tcp[v] = "close"
    /\ TCPTo(v, "forget")
    /\ UNCHANGED <<session, client, pipes, udp, sockets, tcpListeners, udpListeners>>
CloseSocket(v) ==
    /\ tcp[v] = "close"
    /\ sockets' = sockets \ {v}
    /\ TCPTo(v, "forget")
    /\ UNCHANGED <<session, client, pipes, udp, tcpListeners, udpListeners>>

KeepEntry(v) ==
    /\ tcp[v] = "forget"
    /\ TCPTo(v, "done")
    /\ UNCHANGED <<session, client, pipes, udp, sockets, tcpListeners, udpListeners>>
Forget(v) ==
    /\ tcp[v] = "forget"
    /\ tcpListeners' = [tcpListeners EXCEPT ![PortAt(v)] = None]
    /\ TCPTo(v, "done")
    /\ UNCHANGED <<session, client, pipes, udp, sockets, udpListeners>>

-----------------------------------------------------------------------------
(* startUDPListener, and the goroutine that waits to start it.             *)

FindUDPPipe(v) ==
    /\ udp[v] = "poll"
    /\ <<PortAt(v), "udp">> \in pipes
    /\ UDPTo(v, "start")
    /\ UNCHANGED <<session, client, pipes, tcp, sockets, tcpListeners, udpListeners>>

GiveUpUDP(v) ==
    /\ udp[v] = "poll"
    /\ UDPTo(v, "done")
    /\ UNCHANGED <<session, client, pipes, tcp, sockets, tcpListeners, udpListeners>>

\* startUDPListener: a turn of the loop asks whether its port is in the map,
\* and only then binds it, which may fail, puts it there and serves, to come
\* back with the port closed and out of the map.  Were the first turn not to
\* ask, the port would get its socket (mutant).
StartUnasked(v) ==
    /\ udp[v] = "start"
    /\ UDPTo(v, "serve")
    /\ udpListeners' = udpListeners \cup {PortAt(v)}
    /\ UNCHANGED <<session, client, pipes, tcp, sockets, tcpListeners>>
StartUDP(v) ==
    /\ udp[v] \in {"start", "serve"}
    /\ LET q == PortAt(v) IN
        IF udp[v] = "serve"
        THEN UDPTo(v, "start") /\ udpListeners' = udpListeners \ {q}
        ELSE \E binds \in BOOLEAN :
                IF q \in udpListeners /\ binds
                THEN UDPTo(v, "serve") /\ udpListeners' = udpListeners \cup {q}
                ELSE UDPTo(v, "done") /\ UNCHANGED udpListeners
    /\ UNCHANGED <<session, client, pipes, tcp, sockets, tcpListeners>>

-----------------------------------------------------------------------------
(* The cleaner, with a session that expired or lost its pipes, which may   *)
(* be at any time: it takes the socket of the port out of the map, then    *)
(* closes it and deletes the session.  To drop what it took would leave it *)
(* open (mutant).                                                          *)

TakeTCP(q) == tcpListeners' = [tcpListeners EXCEPT ![q] = None]
TakeUDP(s) == udpListeners' = IF s \in UDPSessions THEN udpListeners \ {PortOf[s]}
                                                   ELSE udpListeners
Reap(s) ==
    /\ session[s].pc = "active"
    /\ SessionTo(s, [pc |-> "reaping", taken |-> tcpListeners[PortOf[s]]])
    /\ TakeTCP(PortOf[s])
    /\ TakeUDP(s)
    /\ UNCHANGED <<client, pipes, tcp, udp, sockets>>

DropTaken(s) ==
    /\ session[s].pc = "reaping"
    /\ SessionTo(s, State("deleted"))
    /\ UNCHANGED <<client, pipes, tcp, udp, sockets, tcpListeners, udpListeners>>
Delete(s) ==
    /\ session[s].pc = "reaping"
    /\ sockets' = sockets \ {session[s].taken}
    /\ SessionTo(s, State("deleted"))
    /\ UNCHANGED <<client, pipes, tcp, udp, tcpListeners, udpListeners>>

-----------------------------------------------------------------------------
\* A crash: the sessions are in the database, one that was not deleted yet
\* among them.  ReloadChiselUsers gives an activated one its user back, so
\* its client may connect, but starts no listener.
Restart ==
    /\ session' = [s \in Sessions |->
                    IF session[s].pc = "reaping" THEN State("active") ELSE session[s]]
    /\ client' = {}
    /\ pipes' = {}
    /\ tcp' = [v \in Verifications |-> "none"]
    /\ udp' = [v \in Verifications |-> "none"]
    /\ sockets' = {}
    /\ tcpListeners' = [q \in Ports |-> None]
    /\ udpListeners' = {}

-----------------------------------------------------------------------------
SessionStep(s) ==
    \/ Draw(s)
    \/ Connect(s)
    \/ OpenPipe(s)
    \/ Disconnect(s)
    \/ Reap(s)
    \/ Delete(s)

GoroutineStep(v) ==
    \/ VerifyBegin(v)
    \/ Verify(v)
    \/ FindPipe(v)
    \/ GiveUp(v)
    \/ Listen(v)
    \/ Register(v)
    \/ AcceptFails(v)
    \/ CloseSocket(v)
    \/ Forget(v)
    \/ FindUDPPipe(v)
    \/ GiveUpUDP(v)
    \/ StartUDP(v)

Next ==
    \/ \E s \in Sessions : SessionStep(s)
    \/ \E v \in Verifications : GoroutineStep(v)
    \/ Restart

\* A goroutine goes on once it can, and leaves a socket that was closed.
ListenerStep(v) ==
    \/ Listen(v)
    \/ Register(v)
    \/ v \notin sockets /\ AcceptFails(v)
    \/ CloseSocket(v)
    \/ Forget(v)

Fairness == /\ \A v \in Verifications : WF_rawVars(ListenerStep(v))
            /\ \A s \in Sessions : WF_rawVars(Delete(s))

RawSpec     == Init /\ [][Next]_rawVars
RawFairSpec == RawSpec /\ Fairness

-----------------------------------------------------------------------------
(* Properties.                                                             *)

\* Types; and listeners are only started for verified sessions, those of UDP
\* only for the mode tcp/udp.
RawTypeOK ==
    /\ session \in [Sessions -> SessionState]
    /\ client \in SUBSET Sessions
    /\ pipes \in SUBSET (Ports \X {"tcp", "udp"})
    /\ tcp \in [Verifications -> TCPState]
    /\ udp \in [Verifications -> UDPState]
    /\ \A v \in Verifications :
        /\ session[SessionOf[v]].pc = "none" => tcp[v] = "none"
        /\ session[SessionOf[v]].pc = "pending" => tcp[v] \in {"none", "verify"}
        /\ SessionOf[v] \notin UDPSessions => udp[v] = "none"
    /\ sockets \in SUBSET Verifications
    /\ tcpListeners \in [Ports -> Verifications \cup {None}]
    /\ udpListeners \in SUBSET Ports

\* What the map holds under a port was opened on that port by a goroutine
\* that has not returned, though every goroutine of a port deletes by port:
\* nextServerPort never passes over a port for a listener that is gone.
RegisteredAlive == \A q \in Ports : tcpListeners[q] # None =>
    /\ PortAt(tcpListeners[q]) = q
    /\ tcp[tcpListeners[q]] \in {"accept", "close", "forget"}

\* No socket outlives its goroutine, whoever closes it: a bound port has
\* somebody who accepts, or is about to start or to stop.
SocketOwned == \A v \in sockets : tcp[v] \in {"register", "accept", "close"}

\* What the cleaner takes from the map ends, even when it belongs to another
\* session of the port than the one that is deleted, or the process ends.
Taken(v)  == \E s \in Sessions : session[s].pc = "reaping" /\ session[s].taken = v
TakenEnds == \A v \in Verifications : Taken(v) ~> (tcp[v] \in {"none", "done"})

\* A defect, stated so that its repair shows: "If cleanup removed the
\* listener, exit" (udp.go) makes every UDP goroutine exit at its first turn,
\* so no port ever has a UDP socket, and nextServerPort never sees one.
UDPSilent == udpListeners = {} /\ \A v \in Verifications : udp[v] # "serve"
=============================================================================
