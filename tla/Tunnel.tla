------------------------------- MODULE Tunnel -------------------------------
(***************************************************************************)
(* One chisel connection and what hangs on it, from chiselvendor/tunnel:   *)
(*                                                                         *)
(*   tunnels  - BindSSH and its context watcher, the gate (activatingConn, *)
(*              a wait group) behind which getSSH blocks;                  *)
(*   proxies  - BindRemotes: a pipe listener each, registered by key (port *)
(*              and protocol), the accept loop of runPipe;                 *)
(*   visitors - the goroutines that find a pipe and inject a connection    *)
(*              (proxyTunnel, proxyWebSocket, startTCPListener), then the  *)
(*              pipeRemote that serves it.                                 *)
(*                                                                         *)
(* A tunnel is one run of handleWebsocket past the configuration; a client *)
(* that reconnects is another tunnel, and two may have proxies of one key. *)
(***************************************************************************)
EXTENDS Naturals, Sequences

CONSTANTS
    Tunnels, Proxies, Visitors,
    Keys,           \* keys of the registry: port/protocol
    TunnelOf,       \* proxy -> its tunnel
    KeyOf,          \* proxy -> its key
    Cap,            \* slots of a pipe (128)
    None

ASSUME TunnelAssumption ==
    /\ TunnelOf \in [Proxies -> Tunnels]
    /\ KeyOf \in [Proxies -> Keys]
    /\ Cap \in Nat \ {0}
    /\ None \notin Proxies \cup Keys

VARIABLES
    tun,        \* tunnel -> its goroutines, connection and gate
    proxy,      \* proxy -> how far its goroutine is
    closed,     \* the proxies whose pipe listener is closed
    queue,      \* proxy -> the connections waiting in its pipe
    registry,   \* proxyPipes: key -> proxy, or None
    visitor     \* visitor -> how far its connection is

vars == <<tun, proxy, closed, queue, registry, visitor>>

-----------------------------------------------------------------------------
(* A tunnel: the request's errgroup context, the SSH connection, BindSSH   *)
(* and the goroutine it starts to watch the context, the count of the      *)
(* gate, and whether activeConn is set.                                    *)

TunnelState ==
    [ctx : {"none", "live", "cancelled"}, ssh : {"open", "closed"},
     bind : {"start", "unblock", "serve", "clear", "return", "done"},
     watch : {"watch", "release", "done"},
     gate : Nat, active : BOOLEAN]

Unbound   == [ctx |-> "none", ssh |-> "open", bind |-> "start", watch |-> "watch",
              gate |-> 1, active |-> FALSE]
Connected == [Unbound EXCEPT !.ctx = "live"]

ProxyState == {"none", "registered", "accepting", "stopped", "done"}

VisitorState ==
         [pc : {"idle", "closed"}]
    \cup [pc : {"found", "queued", "opening", "waiting", "passed", "channel", "served"},
          proxy : Proxies]

Begun(t)   == tun[t].ctx # "none"
Over(t)    == tun[t].ctx = "cancelled"
ProxiesOf(t) == {p \in Proxies : TunnelOf[p] = t}
PipeOf(v)  == visitor[v].proxy
HostOf(v)  == TunnelOf[PipeOf(v)]

Init ==
    /\ tun = [t \in Tunnels |-> Unbound]
    /\ proxy = [p \in Proxies |-> "none"]
    /\ closed = {}
    /\ queue = [p \in Proxies |-> <<>>]
    /\ registry = [k \in Keys |-> None]
    /\ visitor = [v \in Visitors |-> [pc |-> "idle"]]

-----------------------------------------------------------------------------
(* BindSSH.                                                                *)

TunOnly == UNCHANGED <<proxy, closed, queue, registry, visitor>>

Connect(t) ==
    /\ ~Begun(t)
    /\ tun' = [tun EXCEPT ![t] = Connected]
    /\ TunOnly

MarkActive(t) ==
    /\ Begun(t)
    /\ tun[t].bind = "start"
    /\ tun' = [tun EXCEPT ![t].active = TRUE, ![t].bind = "unblock"]
    /\ TunOnly

\* waitGroup.Done stops at zero.
Unblock(t) ==
    /\ tun[t].bind = "unblock"
    /\ tun' = [tun EXCEPT ![t].gate = IF @ > 0 THEN @ - 1 ELSE 0, ![t].bind = "serve"]
    /\ TunOnly

\* The client leaves, or its connection breaks; no keepalive is configured.
Hangup(t) ==
    /\ Begun(t)
    /\ tun[t].ssh = "open"
    /\ tun' = [tun EXCEPT ![t].ssh = "closed"]
    /\ TunOnly

\* Mark inactive, but block first: clearing activeConn before the gate is
\* shut would let a waiter through to no connection (mutant).
ClearFirst(t) ==
    /\ tun[t].bind = "serve"
    /\ tun[t].ssh = "closed"
    /\ tun' = [tun EXCEPT ![t].active = FALSE, ![t].bind = "clear"]
    /\ TunOnly
Block(t) ==
    /\ tun[t].bind = "serve"
    /\ tun[t].ssh = "closed"
    /\ tun' = [tun EXCEPT ![t].gate = @ + 1, ![t].bind = "clear"]
    /\ TunOnly

MarkInactive(t) ==
    /\ tun[t].bind = "clear"
    /\ tun' = [tun EXCEPT ![t].active = FALSE, ![t].bind = "return"]
    /\ TunOnly

\* BindSSH returns an error, and the errgroup cancels the context.
Return(t) ==
    /\ tun[t].bind = "return"
    /\ tun' = [tun EXCEPT ![t].bind = "done", ![t].ctx = "cancelled"]
    /\ TunOnly

\* The watcher: c.Close, then DoneAll; without it the gate stays shut (mutant).
CloseSSH(t) ==
    /\ Over(t)
    /\ tun[t].watch = "watch"
    /\ tun' = [tun EXCEPT ![t].ssh = "closed", ![t].watch = "release"]
    /\ TunOnly

LeaveShut(t) ==
    /\ tun[t].watch = "release"
    /\ tun' = [tun EXCEPT ![t].watch = "done"]
    /\ TunOnly
Release(t) ==
    /\ tun[t].watch = "release"
    /\ tun' = [tun EXCEPT ![t].gate = 0, ![t].watch = "done"]
    /\ TunOnly

TunnelStep(t) ==
    \/ MarkActive(t)
    \/ Unblock(t)
    \/ Block(t)
    \/ MarkInactive(t)
    \/ Return(t)
    \/ CloseSSH(t)
    \/ Release(t)

-----------------------------------------------------------------------------
(* BindRemotes and runPipe.                                                *)

ProxyTo(p, s) == proxy' = [proxy EXCEPT ![p] = s]

\* NewProxy registers its pipe before anything accepts from it.
NewProxy(p) ==
    /\ Begun(TunnelOf[p])
    /\ proxy[p] = "none"
    /\ ProxyTo(p, "registered")
    /\ registry' = [registry EXCEPT ![KeyOf[p]] = p]
    /\ UNCHANGED <<tun, closed, queue, visitor>>

\* All the proxies of a tunnel are made before the first one runs.
Run(p) ==
    /\ proxy[p] = "registered"
    /\ \A q \in ProxiesOf(TunnelOf[p]) : proxy[q] # "none"
    /\ ProxyTo(p, "accepting")
    /\ UNCHANGED <<tun, closed, queue, registry, visitor>>

ClosePipe(p) ==
    /\ proxy[p] = "accepting"
    /\ Over(TunnelOf[p])
    /\ p \notin closed
    /\ closed' = closed \cup {p}
    /\ UNCHANGED <<tun, proxy, queue, registry, visitor>>

\* Accept chooses at random between a connection and a closed listener.
Accept(p) ==
    /\ proxy[p] = "accepting"
    /\ queue[p] # <<>>
    /\ queue' = [queue EXCEPT ![p] = Tail(@)]
    /\ visitor' = [visitor EXCEPT ![Head(queue[p])] = [pc |-> "opening", proxy |-> p]]
    /\ UNCHANGED <<tun, proxy, closed, registry>>

AcceptFails(p) ==
    /\ proxy[p] = "accepting"
    /\ p \in closed
    /\ ProxyTo(p, "stopped")
    /\ UNCHANGED <<tun, closed, queue, registry, visitor>>

\* The deferred UnregisterProxyPipe goes by key: it also removes the pipe of
\* a newer tunnel.  Without it a dead pipe would stay (mutant).
LeaveRegistered(p) ==
    /\ proxy[p] = "stopped"
    /\ ProxyTo(p, "done")
    /\ UNCHANGED <<tun, closed, queue, registry, visitor>>
Unregister(p) ==
    /\ proxy[p] = "stopped"
    /\ ProxyTo(p, "done")
    /\ registry' = [registry EXCEPT ![KeyOf[p]] = None]
    /\ UNCHANGED <<tun, closed, queue, visitor>>

ProxyStep(p) ==
    \/ NewProxy(p)
    \/ Run(p)
    \/ ClosePipe(p)
    \/ Accept(p)
    \/ AcceptFails(p)
    \/ Unregister(p)

-----------------------------------------------------------------------------
(* Visitors.                                                               *)

VisitorTo(v, s) == visitor' = [visitor EXCEPT ![v] = s]
VisitorMoves(v, s) == VisitorTo(v, [visitor[v] EXCEPT !.pc = s])
VisitorOnly == UNCHANGED <<tun, proxy, closed, queue, registry>>

\* The route leads to a key; waitProxyPipe asks for its pipe for half a second.
\* To go on without one (mutant).
FindUnchecked(v) ==
    /\ visitor[v].pc = "idle"
    /\ \E k \in Keys : VisitorTo(v, [pc |-> "found", proxy |-> registry[k]])
    /\ VisitorOnly
FindPipe(v) ==
    /\ visitor[v].pc = "idle"
    /\ \E k \in Keys :
        /\ registry[k] # None
        /\ VisitorTo(v, [pc |-> "found", proxy |-> registry[k]])
    /\ VisitorOnly

\* "Tunnel Not Found": 404.
NotFound(v) ==
    /\ visitor[v].pc = "idle"
    /\ \E k \in Keys : registry[k] = None
    /\ VisitorTo(v, [pc |-> "closed"])
    /\ VisitorOnly

\* The channel is used directly: that the listener is closed goes unnoticed.
HasRoom(p) == Len(queue[p]) < Cap

Inject(v) ==
    /\ visitor[v].pc = "found"
    /\ HasRoom(PipeOf(v))
    /\ queue' = [queue EXCEPT ![PipeOf(v)] = Append(@, v)]
    /\ VisitorMoves(v, "queued")
    /\ UNCHANGED <<tun, proxy, closed, registry>>

\* "tunnel pipe full": 503.
Overloaded(v) ==
    /\ visitor[v].pc = "found"
    /\ ~HasRoom(PipeOf(v))
    /\ VisitorTo(v, [pc |-> "closed"])
    /\ VisitorOnly

-----------------------------------------------------------------------------
(* pipeRemote, once accepted: getSSH, then a channel to the client.        *)

GetSSH(v) ==
    /\ visitor[v].pc = "opening"
    /\ IF Over(HostOf(v))
       THEN VisitorTo(v, [pc |-> "closed"])
       ELSE VisitorMoves(v, IF tun[HostOf(v)].active THEN "channel" ELSE "waiting")
    /\ VisitorOnly

\* Wait returns, and its goroutine tells the waiter so through a channel.
PassGate(v) ==
    /\ visitor[v].pc = "waiting"
    /\ tun[HostOf(v)].gate = 0
    /\ VisitorMoves(v, "passed")
    /\ VisitorOnly

\* Only then does the waiter read activeConn again; it may be gone.
Reread(v) ==
    /\ visitor[v].pc = "passed"
    /\ IF tun[HostOf(v)].active THEN VisitorMoves(v, "channel")
                                ELSE VisitorTo(v, [pc |-> "closed"])
    /\ VisitorOnly

\* The context is cancelled, or 35 seconds have passed.
GiveUp(v) ==
    /\ visitor[v].pc \in {"waiting", "passed"}
    /\ VisitorTo(v, [pc |-> "closed"])
    /\ VisitorOnly

\* OpenChannel waits for the client's answer, which may be a refusal and
\* may never come: there is no timeout.
ClientAnswers(v) ==
    /\ visitor[v].pc = "channel"
    /\ tun[HostOf(v)].ssh = "open"
    /\ VisitorMoves(v, "served") \/ VisitorTo(v, [pc |-> "closed"])
    /\ VisitorOnly

\* An SSH connection that broke is an error, and the visitor's connection is
\* closed on return; without that it would hang (mutant).
LeaveOpen(v) ==
    /\ visitor[v].pc = "channel"
    /\ tun[HostOf(v)].ssh = "closed"
    /\ UNCHANGED vars
ChannelFails(v) ==
    /\ visitor[v].pc = "channel"
    /\ tun[HostOf(v)].ssh = "closed"
    /\ VisitorTo(v, [pc |-> "closed"])
    /\ VisitorOnly

\* Either side is done, or the connection broke.
Finish(v) ==
    /\ visitor[v].pc = "served"
    /\ VisitorTo(v, [pc |-> "closed"])
    /\ VisitorOnly

RemoteStep(v) ==
    \/ GetSSH(v)
    \/ PassGate(v)
    \/ Reread(v)
    \/ GiveUp(v)
    \/ ChannelFails(v)

-----------------------------------------------------------------------------
Next ==
    \/ \E t \in Tunnels : Connect(t) \/ Hangup(t) \/ TunnelStep(t)
    \/ \E p \in Proxies : ProxyStep(p)
    \/ \E v \in Visitors :
        FindPipe(v) \/ NotFound(v) \/ Inject(v) \/ Overloaded(v)
        \/ RemoteStep(v) \/ ClientAnswers(v) \/ Finish(v)

\* Goroutines run; clients come, answer and go as they please, or never.
Fairness ==
    /\ \A t \in Tunnels : WF_vars(TunnelStep(t))
    /\ \A p \in Proxies : WF_vars(ProxyStep(p))
    /\ \A v \in Visitors : WF_vars(RemoteStep(v))

Spec     == Init /\ [][Next]_vars
FairSpec == Spec /\ Fairness

-----------------------------------------------------------------------------
(* Properties.                                                             *)

TunnelTypeOK ==
    /\ tun \in [Tunnels -> TunnelState]
    /\ proxy \in [Proxies -> ProxyState]
    /\ closed \in SUBSET Proxies
    /\ queue \in [Proxies -> Seq(Visitors)]
    /\ registry \in [Keys -> Proxies \cup {None}]
    /\ visitor \in [Visitors -> VisitorState]

\* The gate and activeConn agree through every interleaving of BindSSH, its
\* watcher and the waiters: an open gate means a connection, or the tunnel is
\* over; and whoever has passed the gate and reads activeConn later misses it
\* only if the SSH connection has broken meanwhile.
GateSound ==
    /\ \A t \in Tunnels : tun[t].gate = 0 => tun[t].active \/ Over(t)
    /\ \A v \in Visitors : visitor[v].pc = "passed" =>
          tun[HostOf(v)].active \/ tun[HostOf(v)].ssh = "closed"

\* A pipe that is found belongs to a proxy of that key whose goroutine has
\* not ended: the cleaners, which take a pipe for a connected client, are
\* never deceived by a dead one.
RegistryLive == \A k \in Keys : registry[k] # None =>
    /\ KeyOf[registry[k]] = k
    /\ proxy[registry[k]] \in {"registered", "accepting", "stopped"}

\* A connection that is over unwinds: the gate opens, BindSSH and its watcher
\* end, and every proxy leaves the registry and ends.
Unwound(t) ==
    /\ tun[t].bind = "done" /\ tun[t].watch = "done" /\ tun[t].gate = 0
    /\ \A p \in ProxiesOf(t) : proxy[p] = "done"
TunnelUnwinds == \A t \in Tunnels : (tun[t].ssh = "closed") ~> Unwound(t)

\* A connection that was injected is answered or closed, whatever becomes of
\* the tunnel meanwhile, with two exceptions: its proxy ended first, and then
\* nobody ever takes it out of the pipe; or the client stays connected and
\* does not answer, and then it waits as long as that client stays.
Owed(v) ==
    \/ visitor[v].pc = "queued" /\ proxy[PipeOf(v)] # "done"
    \/ visitor[v].pc \in {"opening", "waiting", "passed"}
    \/ visitor[v].pc = "channel" /\ tun[HostOf(v)].ssh = "closed"
VisitorAnswered == \A v \in Visitors : Owed(v) ~> ~Owed(v)

-----------------------------------------------------------------------------
(* Refinement: tunnels implement PipeRegistry.                             *)

At == [p \in Proxies |->
          IF proxy[p] \in {"registered", "accepting", "stopped"} THEN KeyOf[p] ELSE None]

Pipes == INSTANCE PipeRegistry WITH at <- At, pipes <- registry

\* Whatever goroutines do, others see proxies open and close.
ImplementsPipes == Pipes!Spec
=============================================================================
