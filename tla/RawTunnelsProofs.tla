-------------------------- MODULE RawTunnelsProofs --------------------------
(* Theorems about RawTunnels, for any number of sessions, ports, sessions  *)
(* on a port, and verifications of a session.                              *)
EXTENDS RawTunnels, TLAPS

RawInv == RawTypeOK /\ RegisteredAlive /\ SocketOwned

-----------------------------------------------------------------------------
\* Nothing is registered or open before the first session.
LEMMA RawInitial == Init => RawInv
BY RawAssumption DEF Init, RawInv, RawTypeOK, RegisteredAlive, SocketOwned,
    State, SessionState, TCPState, UDPState

\* Types are kept by every action.
LEMMA RawTypeStep == RawTypeOK /\ [Next]_rawVars => RawTypeOK'
<1> SUFFICES ASSUME RawTypeOK, [Next]_rawVars PROVE RawTypeOK'
  OBVIOUS
<1> USE RawAssumption DEF RawTypeOK, State, SessionState, TCPState, UDPState
<1>1. CASE UNCHANGED rawVars
  BY <1>1 DEF rawVars
<1>2. ASSUME NEW s \in Sessions, Draw(s) PROVE RawTypeOK'
  BY <1>2 DEF Draw, SessionTo
<1>3. ASSUME NEW v \in Verifications, VerifyBegin(v) \/ Verify(v) PROVE RawTypeOK'
  BY <1>3 DEF VerifyBegin, Verify, SessionTo, TCPTo
<1>4. ASSUME NEW s \in Sessions, Connect(s) \/ Disconnect(s) PROVE RawTypeOK'
  BY <1>4 DEF Connect, Disconnect
<1>5. ASSUME NEW s \in Sessions, OpenPipe(s) PROVE RawTypeOK'
  <2>1. PipesOf(s) \subseteq Ports \X {"tcp", "udp"}
    BY DEF PipesOf, Protocols
  <2> QED BY <1>5, <2>1 DEF OpenPipe
<1>6. ASSUME NEW v \in Verifications, FindPipe(v) PROVE RawTypeOK'
  BY <1>6 DEF FindPipe, TCPTo, UDPTo
<1>7. ASSUME NEW v \in Verifications, Listen(v) PROVE RawTypeOK'
  BY <1>7 DEF Listen, TCPTo
<1>8. ASSUME NEW v \in Verifications,
             GiveUp(v) \/ Register(v) \/ AcceptFails(v) \/ CloseSocket(v) \/ Forget(v)
      PROVE  RawTypeOK'
  BY <1>8 DEF GiveUp, Register, AcceptFails, CloseSocket, Forget, TCPTo, PortAt
<1>9. ASSUME NEW v \in Verifications, FindUDPPipe(v) \/ GiveUpUDP(v) \/ StartUDP(v)
      PROVE  RawTypeOK'
  BY <1>9 DEF FindUDPPipe, GiveUpUDP, StartUDP, UDPTo, PortAt
<1>10. ASSUME NEW s \in Sessions, Reap(s) PROVE RawTypeOK'
  BY <1>10 DEF Reap, SessionTo, TakeTCP, TakeUDP
<1>11. ASSUME NEW s \in Sessions, Delete(s) PROVE RawTypeOK'
  BY <1>11 DEF Delete, SessionTo
<1>12. CASE Restart
  BY <1>12 DEF Restart
<1> QED
  BY <1>1, <1>2, <1>3, <1>4, <1>5, <1>6, <1>7, <1>8, <1>9, <1>10, <1>11, <1>12
     DEF Next, SessionStep, GoroutineStep

\* The map and the sockets keep to the goroutines: each of these moves only
\* itself, and clears the entry of its port last.
LEMMA RawSafetyStep == RawInv /\ [Next]_rawVars => RegisteredAlive' /\ SocketOwned'
<1> SUFFICES ASSUME RawInv, [Next]_rawVars PROVE RegisteredAlive' /\ SocketOwned'
  OBVIOUS
<1> USE RawAssumption DEF RawInv, RawTypeOK, RegisteredAlive, SocketOwned, TCPState
<1>1. CASE UNCHANGED rawVars
  BY <1>1 DEF rawVars
<1>2. ASSUME NEW s \in Sessions, Draw(s) \/ Connect(s) \/ OpenPipe(s) \/ Disconnect(s)
      PROVE  RegisteredAlive' /\ SocketOwned'
  BY <1>2 DEF Draw, Connect, OpenPipe, Disconnect
<1>12. ASSUME NEW v \in Verifications, FindUDPPipe(v) \/ GiveUpUDP(v) \/ StartUDP(v)
       PROVE  RegisteredAlive' /\ SocketOwned'
  BY <1>12 DEF FindUDPPipe, GiveUpUDP, StartUDP
<1>3. ASSUME NEW v \in Verifications,
             VerifyBegin(v) \/ Verify(v) \/ FindPipe(v) \/ GiveUp(v)
      PROVE  RegisteredAlive' /\ SocketOwned'
  BY <1>3 DEF VerifyBegin, Verify, FindPipe, GiveUp, TCPTo
<1>4. ASSUME NEW v \in Verifications, Listen(v) PROVE RegisteredAlive' /\ SocketOwned'
  BY <1>4 DEF Listen, TCPTo
<1>5. ASSUME NEW v \in Verifications, Register(v) PROVE RegisteredAlive' /\ SocketOwned'
  BY <1>5 DEF Register, TCPTo, PortAt
<1>6. ASSUME NEW v \in Verifications, AcceptFails(v) PROVE RegisteredAlive' /\ SocketOwned'
  BY <1>6 DEF AcceptFails, TCPTo
<1>7. ASSUME NEW v \in Verifications, CloseSocket(v) PROVE RegisteredAlive' /\ SocketOwned'
  BY <1>7 DEF CloseSocket, TCPTo
<1>8. ASSUME NEW v \in Verifications, Forget(v) PROVE RegisteredAlive' /\ SocketOwned'
  BY <1>8 DEF Forget, TCPTo, PortAt
<1>9. ASSUME NEW s \in Sessions, Reap(s) PROVE RegisteredAlive' /\ SocketOwned'
  BY <1>9 DEF Reap, TakeTCP
<1>10. ASSUME NEW s \in Sessions, Delete(s) PROVE RegisteredAlive' /\ SocketOwned'
  BY <1>10 DEF Delete
<1>11. CASE Restart
  BY <1>11 DEF Restart
<1> QED
  BY <1>1, <1>2, <1>3, <1>4, <1>5, <1>6, <1>7, <1>8, <1>9, <1>10, <1>11, <1>12
     DEF Next, SessionStep, GoroutineStep

-----------------------------------------------------------------------------
\* The inductive invariant: types, a live map, owned sockets.
THEOREM RawInvariant == RawSpec => []RawInv
<1>1. RawInv /\ [Next]_rawVars => RawInv'
  BY RawTypeStep, RawSafetyStep DEF RawInv
<1> QED
  BY RawInitial, <1>1, PTL DEF RawSpec

\* Type correctness, the sessions that may have a UDP goroutine included.
THEOREM RawTypeCorrect == RawSpec => []RawTypeOK
<1>1. RawInv => RawTypeOK
  BY DEF RawInv
<1> QED
  BY RawInvariant, <1>1, PTL

\* What is registered under a port is alive, though all its goroutines delete
\* by port (startTCPListener, closeTCPListener).
THEOREM RegisteredAliveCorrect == RawSpec => []RegisteredAlive
<1>1. RawInv => RegisteredAlive
  BY DEF RawInv
<1> QED
  BY RawInvariant, <1>1, PTL

\* No socket outlives its goroutine, whoever closes it.
THEOREM SocketOwnedCorrect == RawSpec => []SocketOwned
<1>1. RawInv => SocketOwned
  BY DEF RawInv
<1> QED
  BY RawInvariant, <1>1, PTL

-----------------------------------------------------------------------------
(* What the cleaner takes.                                                 *)

\* The listener a cleaner holds while it deletes a session: one of that port,
\* which is in its accept loop or on its way out.
TakenRightful == \A s \in Sessions :
    session[s].pc = "reaping" /\ session[s].taken # None =>
        /\ session[s].taken \in Verifications
        /\ PortAt(session[s].taken) = PortOf[s]
        /\ tcp[session[s].taken] \in {"accept", "close", "forget", "done"}

LEMMA TakenStep == RawInv /\ TakenRightful /\ [Next]_rawVars => TakenRightful'
<1> SUFFICES ASSUME RawInv, TakenRightful, [Next]_rawVars PROVE TakenRightful'
  OBVIOUS
<1>0. session \in [Sessions -> SessionState] /\ tcp \in [Verifications -> TCPState]
  BY DEF RawInv, RawTypeOK
\* The sessions that are being reaped stay as they are or are no more, and no
\* goroutine starts over.
<1>1. ASSUME \A s \in Sessions : session'[s].pc = "reaping" => session'[s] = session[s],
             \A v \in Verifications : tcp[v] \in {"accept", "close", "forget", "done"} =>
                tcp'[v] \in {"accept", "close", "forget", "done"}
      PROVE  TakenRightful'
  BY <1>1 DEF TakenRightful, PortAt
<1>2. ASSUME NEW s \in Sessions, Connect(s) \/ OpenPipe(s) \/ Disconnect(s)
      PROVE  TakenRightful'
  BY <1>1, <1>2 DEF Connect, OpenPipe, Disconnect
<1>9. ASSUME NEW v \in Verifications, FindUDPPipe(v) \/ GiveUpUDP(v) \/ StartUDP(v)
      PROVE  TakenRightful'
  BY <1>1, <1>9 DEF FindUDPPipe, GiveUpUDP, StartUDP
<1>3. ASSUME NEW v \in Verifications,
             \/ VerifyBegin(v) \/ FindPipe(v) \/ GiveUp(v) \/ Listen(v) \/ Register(v)
             \/ AcceptFails(v) \/ CloseSocket(v) \/ Forget(v)
      PROVE  TakenRightful'
  <2>1. UNCHANGED session
    BY <1>3 DEF VerifyBegin, FindPipe, GiveUp, Listen, Register, AcceptFails, CloseSocket, Forget
  <2>2. \A w \in Verifications : tcp[w] \in {"accept", "close", "forget", "done"} =>
            tcp'[w] \in {"accept", "close", "forget", "done"}
    BY <1>0, <1>3
       DEF VerifyBegin, FindPipe, GiveUp, Listen, Register, AcceptFails, CloseSocket, Forget,
           TCPTo
  <2> QED BY <1>1, <2>1, <2>2
<1>10. ASSUME NEW v \in Verifications, Verify(v) PROVE TakenRightful'
  <2>1. SessionOf[v] \in Sessions
    BY RawAssumption
  <2>2. \A s \in Sessions : session'[s].pc = "reaping" => session'[s] = session[s]
    BY <1>0, <1>10, <2>1 DEF Verify, SessionTo, State
  <2>3. \A w \in Verifications : tcp[w] \in {"accept", "close", "forget", "done"} =>
            tcp'[w] \in {"accept", "close", "forget", "done"}
    BY <1>0, <1>10 DEF Verify, TCPTo
  <2> QED BY <1>1, <2>2, <2>3
<1>4. ASSUME NEW s \in Sessions, Draw(s) \/ Delete(s) PROVE TakenRightful'
  <2>1. \A r \in Sessions : session'[r].pc = "reaping" => session'[r] = session[r]
    BY <1>0, <1>4 DEF Draw, Delete, SessionTo, State
  <2>2. UNCHANGED tcp
    BY <1>4 DEF Draw, Delete
  <2> QED BY <1>1, <2>1, <2>2
<1>5. ASSUME NEW s \in Sessions, Reap(s) PROVE TakenRightful'
  <2>1. /\ session'[s] = [pc |-> "reaping", taken |-> tcpListeners[PortOf[s]]]
        /\ \A r \in Sessions \ {s} : session'[r] = session[r]
        /\ tcp' = tcp
    BY <1>0, <1>5 DEF Reap, SessionTo
  <2>2. PortOf[s] \in Ports
    BY RawAssumption
  <2>3. tcpListeners[PortOf[s]] # None =>
            /\ tcpListeners[PortOf[s]] \in Verifications
            /\ PortAt(tcpListeners[PortOf[s]]) = PortOf[s]
            /\ tcp[tcpListeners[PortOf[s]]] \in {"accept", "close", "forget"}
    BY <2>2 DEF RawInv, RawTypeOK, RegisteredAlive
  <2> QED BY <2>1, <2>3 DEF TakenRightful, PortAt
<1>7. CASE Restart
  <2>1. \A s \in Sessions : session'[s].pc # "reaping"
    BY <1>0, <1>7 DEF Restart, State
  <2> QED BY <2>1 DEF TakenRightful
<1>8. CASE UNCHANGED rawVars
  BY <1>1, <1>8 DEF rawVars
<1> QED
  BY <1>2, <1>3, <1>4, <1>5, <1>7, <1>8, <1>9, <1>10
     DEF Next, SessionStep, GoroutineStep

\* The cleaner closes no listener but one of the port of the session that it
\* deletes, and none that is about to start (closeTCPListener, between taking
\* the socket out of the map and closing it).
THEOREM TakenIsRightful == RawSpec => []TakenRightful
<1>1. Init => TakenRightful
  BY DEF Init, TakenRightful, State
<1> QED
  BY <1>1, TakenStep, RawInvariant, PTL DEF RawSpec

-----------------------------------------------------------------------------
(* Where every session has a port of its own: what PortsUnique of Frontend *)
(* asks for, and cannot have.                                              *)

OwnPorts == \A r, s \in Sessions : PortOf[r] = PortOf[s] => r = s

\* A listener in its accept loop is in the map until its session is reaped.
\* Two verifications of a session share its port as well: of their listeners
\* one may only bind once the other is closed, and it is the older one that
\* may delete the entry of the newer.
OwnVerification == \A v, w \in Verifications : SessionOf[v] = SessionOf[w] => v = w
ListenerFound == \A v \in Verifications :
    session[SessionOf[v]].pc = "active" /\ tcp[v] = "accept" => tcpListeners[PortAt(v)] = v

LEMMA FoundStep ==
    ASSUME OwnPorts, OwnVerification
    PROVE  RawInv /\ ListenerFound /\ [Next]_rawVars => ListenerFound'
<1> SUFFICES ASSUME RawInv, ListenerFound, [Next]_rawVars PROVE ListenerFound'
  OBVIOUS
<1>0. /\ session \in [Sessions -> SessionState] /\ tcp \in [Verifications -> TCPState]
      /\ tcpListeners \in [Ports -> Verifications \cup {None}]
      /\ \A v \in Verifications : SessionOf[v] \in Sessions /\ PortAt(v) \in Ports
      /\ \A v \in Verifications : session[SessionOf[v]].pc \in {"none", "pending"} =>
            tcp[v] \in {"none", "verify"}
  BY RawAssumption DEF RawInv, RawTypeOK, PortAt
<1>p. \A v, w \in Verifications : PortAt(v) = PortAt(w) => v = w
  BY <1>0 DEF OwnPorts, OwnVerification, PortAt
\* No session gets active, no goroutine registers.
<1>1. ASSUME UNCHANGED tcpListeners,
             \A v \in Verifications :
                session'[SessionOf[v]].pc = "active" /\ tcp'[v] = "accept" =>
                    session[SessionOf[v]].pc = "active" /\ tcp[v] = "accept"
      PROVE  ListenerFound'
  BY <1>1 DEF ListenerFound, PortAt
<1>2. ASSUME NEW s \in Sessions, Connect(s) \/ OpenPipe(s) \/ Disconnect(s)
      PROVE  ListenerFound'
  BY <1>1, <1>2 DEF Connect, OpenPipe, Disconnect
<1>10. ASSUME NEW v \in Verifications, FindUDPPipe(v) \/ GiveUpUDP(v) \/ StartUDP(v)
       PROVE  ListenerFound'
  BY <1>1, <1>10 DEF FindUDPPipe, GiveUpUDP, StartUDP
<1>3. ASSUME NEW v \in Verifications,
             \/ VerifyBegin(v) \/ FindPipe(v) \/ GiveUp(v) \/ Listen(v)
             \/ AcceptFails(v) \/ CloseSocket(v)
      PROVE  ListenerFound'
  BY <1>0, <1>1, <1>3
     DEF VerifyBegin, FindPipe, GiveUp, Listen, AcceptFails, CloseSocket, TCPTo
<1>4. ASSUME NEW s \in Sessions, Draw(s) \/ Delete(s) PROVE ListenerFound'
  <2>1. /\ \A r \in Sessions \ {s} : session'[r] = session[r]
        /\ session'[s].pc # "active"
        /\ UNCHANGED <<tcp, tcpListeners>>
    BY <1>0, <1>4 DEF Draw, Delete, SessionTo, State
  <2>2. \A r \in Sessions : session'[r].pc = "active" => session[r].pc = "active"
    BY <2>1
  <2> QED BY <1>0, <1>1, <2>1, <2>2
<1>11. ASSUME NEW v \in Verifications, Verify(v) PROVE ListenerFound'
  <2>1. /\ tcp'[v] \in {"poll", "done"}
        /\ \A w \in Verifications \ {v} : tcp'[w] = tcp[w]
        /\ UNCHANGED tcpListeners
    BY <1>0, <1>11 DEF Verify, TCPTo
  <2>2. \A w \in Verifications \ {v} : session'[SessionOf[w]] = session[SessionOf[w]]
    BY <1>0, <1>11 DEF Verify, SessionTo, OwnVerification
  <2> QED BY <1>1, <2>1, <2>2
<1>5. ASSUME NEW v \in Verifications, Register(v) PROVE ListenerFound'
  <2>1. /\ tcp' = [tcp EXCEPT ![v] = "accept"]
        /\ tcpListeners' = [tcpListeners EXCEPT ![PortAt(v)] = v]
        /\ UNCHANGED session
    BY <1>5 DEF Register, TCPTo
  <2> SUFFICES ASSUME NEW w \in Verifications,
                      session[SessionOf[w]].pc = "active", tcp'[w] = "accept"
               PROVE  tcpListeners'[PortAt(w)] = w
    BY <2>1 DEF ListenerFound, PortAt
  <2> QED BY <1>0, <1>p, <2>1 DEF ListenerFound
<1>6. ASSUME NEW v \in Verifications, Forget(v) PROVE ListenerFound'
  <2>1. /\ tcp' = [tcp EXCEPT ![v] = "done"]
        /\ tcpListeners' = [tcpListeners EXCEPT ![PortAt(v)] = None]
        /\ UNCHANGED session
    BY <1>6 DEF Forget, TCPTo
  <2> SUFFICES ASSUME NEW w \in Verifications,
                      session[SessionOf[w]].pc = "active", tcp'[w] = "accept"
               PROVE  tcpListeners'[PortAt(w)] = w
    BY <2>1 DEF ListenerFound, PortAt
  <2> QED BY <1>0, <1>p, <2>1 DEF ListenerFound
<1>7. ASSUME NEW s \in Sessions, Reap(s) PROVE ListenerFound'
  <2>1. /\ session'[s].pc = "reaping"
        /\ \A r \in Sessions \ {s} : session'[r] = session[r]
        /\ tcp' = tcp
        /\ tcpListeners' = [tcpListeners EXCEPT ![PortOf[s]] = None]
    BY <1>0, <1>7 DEF Reap, SessionTo, TakeTCP
  <2> SUFFICES ASSUME NEW w \in Verifications,
                      session'[SessionOf[w]].pc = "active", tcp[w] = "accept"
               PROVE  tcpListeners'[PortAt(w)] = w
    BY <2>1 DEF ListenerFound, PortAt
  <2>2. SessionOf[w] # s /\ session[SessionOf[w]].pc = "active"
    BY <1>0, <2>1
  <2>3. PortAt(w) # PortOf[s]
    BY <1>0, <2>2 DEF OwnPorts, PortAt
  <2> QED BY <1>0, <2>1, <2>2, <2>3 DEF ListenerFound
<1>8. CASE Restart
  <2>1. \A v \in Verifications : tcp'[v] # "accept"
    BY <1>8 DEF Restart
  <2> QED BY <2>1 DEF ListenerFound
<1>9. CASE UNCHANGED rawVars
  BY <1>1, <1>9 DEF rawVars
<1> QED
  BY <1>2, <1>3, <1>4, <1>5, <1>6, <1>7, <1>8, <1>9, <1>10, <1>11
     DEF Next, SessionStep, GoroutineStep

\* With a port for every session and one verification for every session, the
\* cleaner finds the listener of each session that it reaps: that a goroutine
\* deletes another's entry takes a shared port.
THEOREM ListenersFound ==
    ASSUME OwnPorts, OwnVerification PROVE RawSpec => []ListenerFound
<1>1. Init => ListenerFound
  BY DEF Init, ListenerFound
<1> QED
  BY <1>1, FoundStep, RawInvariant, PTL DEF RawSpec

-----------------------------------------------------------------------------
\* Only a goroutine that finds its port in the map of UDP sockets puts one
\* there (UDPSilent): the map stays empty and startUDPListener never gets past
\* its early return, however its sessions, clients and the cleaner interleave.
THEOREM NoUDPListener == RawSpec => []UDPSilent
<1>1. Init => UDPSilent
  BY DEF Init, UDPSilent
<1>2. RawInv /\ UDPSilent /\ [Next]_rawVars => UDPSilent'
  <2> SUFFICES ASSUME RawInv, UDPSilent, [Next]_rawVars PROVE UDPSilent'
    OBVIOUS
  <2>0. udp \in [Verifications -> UDPState] /\ udpListeners = {}
        /\ \A v \in Verifications : udp[v] # "serve"
    BY DEF RawInv, RawTypeOK, UDPSilent
  <2>1. ASSUME NEW v \in Verifications, StartUDP(v) PROVE UDPSilent'
    <3>1. udp' = [udp EXCEPT ![v] = "done"] /\ UNCHANGED udpListeners
      BY <2>0, <2>1 DEF StartUDP, UDPTo
    <3> QED BY <2>0, <3>1 DEF UDPSilent
  <2>2. ASSUME NEW v \in Verifications, FindPipe(v) \/ FindUDPPipe(v) \/ GiveUpUDP(v)
        PROVE  UDPSilent'
    BY <2>0, <2>2 DEF FindPipe, FindUDPPipe, GiveUpUDP, UDPTo, UDPSilent
  <2>3. ASSUME NEW s \in Sessions, Reap(s) PROVE UDPSilent'
    BY <2>0, <2>3 DEF Reap, TakeUDP, UDPSilent
  <2>4. CASE Restart
    BY <2>4 DEF Restart, UDPSilent
  <2>5. CASE UNCHANGED <<udp, udpListeners>>
    BY <2>0, <2>5 DEF UDPSilent
  <2> QED
    BY <2>1, <2>2, <2>3, <2>4, <2>5
       DEF Next, SessionStep, GoroutineStep, rawVars, Draw, Connect, OpenPipe, Disconnect,
           Delete, VerifyBegin, Verify, GiveUp, Listen, Register, AcceptFails,
           CloseSocket, Forget
<1> QED
  BY <1>1, <1>2, RawInvariant, PTL DEF RawSpec
=============================================================================
