---------------------------- MODULE TunnelProofs ----------------------------
(* Theorems about Tunnel, for any number of tunnels, proxies, visitors and *)
(* keys, and pipes of any size.                                            *)
EXTENDS Tunnel, TLAPS

-----------------------------------------------------------------------------
(* How far BindSSH is determines the context, activeConn and the gate;     *)
(* its watcher acts once the context is cancelled.                         *)

PhaseOf(r) ==
    /\ r.ctx = "none" => r.bind = "start"
    /\ r.ctx = "cancelled" <=> r.bind = "done"
    /\ r.watch # "watch" => r.ctx = "cancelled"
    /\ r.active <=> r.bind \in {"unblock", "serve", "clear"}
    /\ r.bind \in {"start", "unblock", "clear", "return"} => r.gate > 0
    /\ r.bind \in {"clear", "return", "done"} => r.ssh = "closed"

Phases == \A t \in Tunnels : PhaseOf(tun[t])

\* Who has passed the gate is in a tunnel that was bound, and it stays so.
PassedBound == \A v \in Visitors :
    visitor[v].pc = "passed" => tun[HostOf(v)].bind # "start"

TunnelInv == TunnelTypeOK /\ Phases /\ RegistryLive /\ PassedBound

\* The steps of BindSSH and its watcher, on one tunnel.
BindStep(t) ==
    \/ MarkActive(t) \/ Unblock(t) \/ Hangup(t) \/ Block(t) \/ MarkInactive(t)
    \/ Return(t) \/ CloseSSH(t) \/ Release(t)

\* The steps of a visitor that leave the pipes alone.
QuietStep(v) ==
    \/ FindPipe(v) \/ NotFound(v) \/ Overloaded(v) \/ RemoteStep(v)
    \/ ClientAnswers(v) \/ Finish(v)

\* Next, sorted by what the steps touch.
LEMMA NextCases ==
    Next => \/ \E t \in Tunnels : Connect(t) \/ BindStep(t)
            \/ \E p \in Proxies : ProxyStep(p)
            \/ \E v \in Visitors : QuietStep(v) \/ Inject(v)
BY DEF Next, TunnelStep, BindStep, QuietStep

LEMMA TunnelInitial == Init => TunnelInv
BY TunnelAssumption DEF Init, TunnelInv, TunnelTypeOK, Phases, PhaseOf, RegistryLive,
    PassedBound, Unbound, TunnelState, ProxyState, VisitorState

-----------------------------------------------------------------------------
(* Tunnels.                                                                *)

\* A tunnel keeps its type and its phase.
LEMMA TunStep ==
    ASSUME TunnelTypeOK, Phases, NEW t \in Tunnels, Connect(t) \/ BindStep(t)
    PROVE  tun' \in [Tunnels -> TunnelState] /\ Phases'
<1> DEFINE Good(r) == r \in TunnelState /\ PhaseOf(r)
<1>1. Good(tun[t])
  BY DEF TunnelTypeOK, Phases
<1>2. ASSUME NEW r, Good(r), tun' = [tun EXCEPT ![t] = r]
      PROVE  tun' \in [Tunnels -> TunnelState] /\ Phases'
  BY <1>2 DEF TunnelTypeOK, Phases
<1> USE DEF TunnelState, PhaseOf, Begun, Over
<1>3. CASE Connect(t)
  <2> DEFINE r == Connected
  <2>1. tun' = [tun EXCEPT ![t] = r]
    BY <1>3 DEF Connect
  <2>2. Unbound \in TunnelState
    BY DEF Unbound
  <2>3. r \in TunnelState
    BY <2>2 DEF Connected
  <2>4. /\ r.ctx = "live" /\ r.bind = "start" /\ r.watch = "watch"
        /\ r.gate = 1 /\ r.active = FALSE
    BY DEF Connected, Unbound
  <2>5. PhaseOf(r)
    BY <2>4
  <2> QED BY <1>2, <2>1, <2>3, <2>5
<1>4. CASE MarkActive(t)
  <2> DEFINE r == [tun[t] EXCEPT !.active = TRUE, !.bind = "unblock"]
  <2>1. tun' = [tun EXCEPT ![t] = r]
    BY <1>4 DEF MarkActive
  <2>2. r \in TunnelState
    BY <1>1
  <2>3. /\ r.ctx = tun[t].ctx /\ r.ssh = tun[t].ssh /\ r.watch = tun[t].watch /\ r.gate = tun[t].gate
        /\ r.active = TRUE /\ r.bind = "unblock"
    BY <1>1
  <2>4. PhaseOf(r)
    BY <1>1, <1>4, <2>3 DEF MarkActive
  <2> QED BY <1>2, <2>1, <2>2, <2>4
<1>5. CASE Unblock(t)
  <2> DEFINE g == IF tun[t].gate > 0 THEN tun[t].gate - 1 ELSE 0
             r == [tun[t] EXCEPT !.gate = g, !.bind = "serve"]
  <2>1. tun' = [tun EXCEPT ![t] = r]
    BY <1>5 DEF Unblock
  <2>2. r \in TunnelState
    <3>1. g \in Nat
      BY <1>1
    <3> HIDE DEF g
    <3> QED BY <1>1, <3>1
  <2>3. /\ r.ctx = tun[t].ctx /\ r.ssh = tun[t].ssh /\ r.watch = tun[t].watch /\ r.active = tun[t].active
        /\ r.gate = g /\ r.bind = "serve"
    BY <1>1
  <2>4. PhaseOf(r)
    BY <1>1, <1>5, <2>3 DEF Unblock
  <2> QED BY <1>2, <2>1, <2>2, <2>4
<1>6. CASE Hangup(t)
  <2> DEFINE r == [tun[t] EXCEPT !.ssh = "closed"]
  <2>1. tun' = [tun EXCEPT ![t] = r]
    BY <1>6 DEF Hangup
  <2>2. Good(r)
    BY <1>1, <1>6 DEF Hangup
  <2> QED BY <1>2, <2>1, <2>2
<1>7. CASE Block(t)
  <2> DEFINE g == tun[t].gate + 1
             r == [tun[t] EXCEPT !.gate = g, !.bind = "clear"]
  <2>1. tun' = [tun EXCEPT ![t] = r]
    BY <1>7 DEF Block
  <2>2. r \in TunnelState
    <3>1. g \in Nat
      BY <1>1
    <3> HIDE DEF g
    <3> QED BY <1>1, <3>1
  <2>3. /\ r.ctx = tun[t].ctx /\ r.ssh = tun[t].ssh /\ r.watch = tun[t].watch /\ r.active = tun[t].active
        /\ r.gate = g /\ r.bind = "clear"
    BY <1>1
  <2>4. PhaseOf(r)
    BY <1>1, <1>7, <2>3 DEF Block
  <2> QED BY <1>2, <2>1, <2>2, <2>4
<1>8. CASE MarkInactive(t)
  <2> DEFINE r == [tun[t] EXCEPT !.active = FALSE, !.bind = "return"]
  <2>1. tun' = [tun EXCEPT ![t] = r]
    BY <1>8 DEF MarkInactive
  <2>2. Good(r)
    BY <1>1, <1>8 DEF MarkInactive
  <2> QED BY <1>2, <2>1, <2>2
<1>9. CASE Return(t)
  <2> DEFINE r == [tun[t] EXCEPT !.bind = "done", !.ctx = "cancelled"]
  <2>1. tun' = [tun EXCEPT ![t] = r]
    BY <1>9 DEF Return
  <2>2. Good(r)
    BY <1>1, <1>9 DEF Return
  <2> QED BY <1>2, <2>1, <2>2
<1>10. CASE CloseSSH(t)
  <2> DEFINE r == [tun[t] EXCEPT !.ssh = "closed", !.watch = "release"]
  <2>1. tun' = [tun EXCEPT ![t] = r]
    BY <1>10 DEF CloseSSH
  <2>2. Good(r)
    BY <1>1, <1>10 DEF CloseSSH
  <2> QED BY <1>2, <2>1, <2>2
<1>11. CASE Release(t)
  <2> DEFINE r == [tun[t] EXCEPT !.gate = 0, !.watch = "done"]
  <2>1. tun' = [tun EXCEPT ![t] = r]
    BY <1>11 DEF Release
  <2>2. Good(r)
    BY <1>1, <1>11 DEF Release
  <2> QED BY <1>2, <2>1, <2>2
<1> QED
  BY <1>3, <1>4, <1>5, <1>6, <1>7, <1>8, <1>9, <1>10, <1>11 DEF BindStep

\* It touches nothing else.
LEMMA TunFrame ==
    ASSUME NEW t \in Tunnels, Connect(t) \/ BindStep(t)
    PROVE  UNCHANGED <<proxy, closed, queue, registry, visitor>>
BY DEF Connect, BindStep, MarkActive, Unblock, Hangup, Block, MarkInactive, Return,
    CloseSSH, Release, TunOnly

-----------------------------------------------------------------------------
(* Proxies.                                                                *)

\* A proxy keeps the types of everything.
LEMMA ProxyTypes ==
    ASSUME TunnelTypeOK, NEW p \in Proxies, ProxyStep(p)
    PROVE  TunnelTypeOK'
<1> USE TunnelAssumption DEF TunnelTypeOK, ProxyState
<1>1. CASE NewProxy(p)
  BY <1>1 DEF NewProxy, ProxyTo
<1>2. CASE Run(p) \/ AcceptFails(p)
  BY <1>2 DEF Run, AcceptFails, ProxyTo
<1>3. CASE ClosePipe(p)
  BY <1>3 DEF ClosePipe
<1>4. CASE Accept(p)
  <2>1. queue[p] \in Seq(Visitors) /\ queue[p] # <<>>
    BY <1>4 DEF Accept
  <2>2. Head(queue[p]) \in Visitors /\ Tail(queue[p]) \in Seq(Visitors)
    BY <2>1
  <2>3. [pc |-> "opening", proxy |-> p] \in VisitorState
    BY DEF VisitorState
  <2> QED BY <1>4, <2>2, <2>3 DEF Accept
<1>5. CASE Unregister(p)
  BY <1>5 DEF Unregister, ProxyTo
<1> QED
  BY <1>1, <1>2, <1>3, <1>4, <1>5 DEF ProxyStep

\* What is registered stays alive until it is removed: by its own proxy, or
\* by another of its key.
LEMMA ProxyRegistry ==
    ASSUME TunnelTypeOK, RegistryLive, NEW p \in Proxies, ProxyStep(p)
    PROVE  RegistryLive' /\ UNCHANGED tun
<1> USE TunnelAssumption DEF TunnelTypeOK, RegistryLive, ProxyState
<1>1. CASE NewProxy(p)
  BY <1>1 DEF NewProxy, ProxyTo
<1>2. CASE Run(p)
  BY <1>2 DEF Run, ProxyTo
<1>3. CASE ClosePipe(p)
  BY <1>3 DEF ClosePipe
<1>4. CASE Accept(p)
  BY <1>4 DEF Accept
<1>5. CASE AcceptFails(p)
  BY <1>5 DEF AcceptFails, ProxyTo
<1>6. CASE Unregister(p)
  BY <1>6 DEF Unregister, ProxyTo
<1> QED
  BY <1>1, <1>2, <1>3, <1>4, <1>5, <1>6 DEF ProxyStep

-----------------------------------------------------------------------------
(* Visitors.                                                               *)

\* Except for the pc, a visitor that knows its proxy keeps it.
LEMMA VisitorMove ==
    ASSUME NEW v \in Visitors, visitor[v] \in VisitorState,
           visitor[v].pc \in {"found", "opening", "waiting", "passed", "channel"},
           NEW s \in {"queued", "waiting", "passed", "channel", "served"}
    PROVE  /\ [visitor[v] EXCEPT !.pc = s] \in VisitorState
           /\ PipeOf(v) \in Proxies
BY DEF VisitorState, PipeOf

\* A visitor keeps the types of everything.
LEMMA VisitorTypes ==
    ASSUME TunnelTypeOK, NEW v \in Visitors, QuietStep(v) \/ Inject(v)
    PROVE  TunnelTypeOK'
<1> USE TunnelAssumption DEF TunnelTypeOK
<1>1. [pc |-> "closed"] \in VisitorState
  BY DEF VisitorState
<1>2. ASSUME NEW s \in VisitorState, VisitorTo(v, s), VisitorOnly PROVE TunnelTypeOK'
  BY <1>2 DEF VisitorTo, VisitorOnly
<1>3. visitor[v] \in VisitorState
  OBVIOUS
<1>4. CASE FindPipe(v)
  <2>1. PICK k \in Keys : registry[k] # None /\ VisitorTo(v, [pc |-> "found", proxy |-> registry[k]])
    BY <1>4 DEF FindPipe
  <2>2. [pc |-> "found", proxy |-> registry[k]] \in VisitorState
    BY <2>1 DEF VisitorState
  <2> QED BY <1>2, <1>4, <2>1, <2>2 DEF FindPipe
<1>5. CASE NotFound(v) \/ Overloaded(v) \/ GiveUp(v) \/ Finish(v)
  BY <1>1, <1>2, <1>5 DEF NotFound, Overloaded, GiveUp, Finish
<1>6. CASE GetSSH(v)
  BY <1>1, <1>2, <1>3, <1>6, VisitorMove DEF GetSSH, VisitorMoves
<1>7. CASE PassGate(v) \/ Reread(v)
  BY <1>1, <1>2, <1>3, <1>7, VisitorMove DEF PassGate, Reread, VisitorMoves
<1>8. CASE ClientAnswers(v) \/ ChannelFails(v)
  BY <1>1, <1>2, <1>3, <1>8, VisitorMove DEF ClientAnswers, ChannelFails, VisitorMoves
<1>9. CASE Inject(v)
  <2>1. PipeOf(v) \in Proxies /\ [visitor[v] EXCEPT !.pc = "queued"] \in VisitorState
    BY <1>3, <1>9, VisitorMove DEF Inject
  <2>2. Append(queue[PipeOf(v)], v) \in Seq(Visitors)
    BY <2>1
  <2> QED BY <1>9, <2>1, <2>2 DEF Inject, VisitorMoves, VisitorTo
<1> QED
  BY <1>4, <1>5, <1>6, <1>7, <1>8, <1>9 DEF QuietStep, RemoteStep

\* It touches no tunnel, no proxy and no registry.
LEMMA VisitorFrame ==
    ASSUME NEW v \in Visitors, QuietStep(v) \/ Inject(v)
    PROVE  UNCHANGED <<tun, proxy, closed, registry>>
BY DEF QuietStep, RemoteStep, FindPipe, NotFound, Overloaded, GetSSH, PassGate, Reread,
    GiveUp, ChannelFails, ClientAnswers, Finish, Inject, VisitorOnly

-----------------------------------------------------------------------------
(* The invariant.                                                          *)

LEMMA PhasesFrame == Phases /\ UNCHANGED tun => Phases'
BY DEF Phases

LEMMA RegistryFrame == RegistryLive /\ UNCHANGED <<proxy, registry>> => RegistryLive'
BY DEF RegistryLive

\* BindSSH never goes back to its start.
LEMMA PassedTun ==
    ASSUME TunnelTypeOK, Phases, PassedBound,
           NEW t \in Tunnels, Connect(t) \/ BindStep(t)
    PROVE  PassedBound'
<1>1. visitor' = visitor /\ \A v \in Visitors : HostOf(v)' = HostOf(v)
  BY TunFrame DEF HostOf, PipeOf
<1>2. \A u \in Tunnels : tun[u].bind # "start" => tun'[u].bind # "start"
  <2> USE DEF TunnelTypeOK, TunnelState
  <2>1. CASE Connect(t)
    BY <2>1 DEF Connect, Begun, Phases, PhaseOf
  <2>2. CASE MarkActive(t)
    BY <2>2 DEF MarkActive
  <2>3. CASE Unblock(t)
    BY <2>3 DEF Unblock
  <2>4. CASE Hangup(t) \/ CloseSSH(t) \/ Release(t)
    BY <2>4 DEF Hangup, CloseSSH, Release
  <2>5. CASE Block(t)
    BY <2>5 DEF Block
  <2>6. CASE MarkInactive(t) \/ Return(t)
    BY <2>6 DEF MarkInactive, Return
  <2> QED BY <2>1, <2>2, <2>3, <2>4, <2>5, <2>6 DEF BindStep
<1>3. \A v \in Visitors : visitor[v].pc = "passed" => HostOf(v) \in Tunnels
  BY TunnelAssumption DEF TunnelTypeOK, VisitorState, HostOf, PipeOf
<1> QED
  BY <1>1, <1>2, <1>3 DEF PassedBound

\* An accepted connection has passed no gate.
LEMMA PassedProxy ==
    ASSUME TunnelTypeOK, PassedBound, NEW p \in Proxies, ProxyStep(p)
    PROVE  PassedBound'
<1>1. ASSUME NEW v \in Visitors, visitor'[v].pc = "passed" PROVE visitor'[v] = visitor[v]
  <2>1. CASE Accept(p)
    BY <1>1, <2>1 DEF Accept, TunnelTypeOK
  <2>2. CASE NewProxy(p) \/ Run(p) \/ ClosePipe(p) \/ AcceptFails(p) \/ Unregister(p)
    BY <2>2 DEF NewProxy, Run, ClosePipe, AcceptFails, Unregister
  <2> QED BY <2>1, <2>2 DEF ProxyStep
<1>2. UNCHANGED tun
  BY DEF ProxyStep, NewProxy, Run, ClosePipe, Accept, AcceptFails, Unregister
<1> QED
  BY <1>1, <1>2 DEF PassedBound, HostOf, PipeOf

\* The gate is open only for a tunnel that was bound.
LEMMA PassedVisitor ==
    ASSUME TunnelTypeOK, Phases, PassedBound, NEW v \in Visitors,
           QuietStep(v) \/ Inject(v)
    PROVE  PassedBound'
<1>1. UNCHANGED tun
  BY VisitorFrame
<1>2. visitor[v] \in VisitorState
  BY DEF TunnelTypeOK
<1>3. ASSUME NEW w \in Visitors \ {v}
      PROVE  visitor'[w] = visitor[w]
  BY DEF TunnelTypeOK, QuietStep, RemoteStep, FindPipe, NotFound, Overloaded, GetSSH,
     PassGate, Reread, GiveUp, ChannelFails, ClientAnswers, Finish, Inject,
     VisitorTo, VisitorMoves
<1>4. CASE PassGate(v)
  <2>1. tun[HostOf(v)].bind # "start"
    <3>1. HostOf(v) \in Tunnels
      BY <1>2, <1>4, TunnelAssumption DEF PassGate, VisitorState, HostOf, PipeOf
    <3>2. tun[HostOf(v)].gate = 0
      BY <1>4 DEF PassGate
    <3> QED BY <3>1, <3>2 DEF Phases, PhaseOf
  <2>2. HostOf(v)' = HostOf(v)
    <3>1. visitor' = [visitor EXCEPT ![v] = [visitor[v] EXCEPT !.pc = "passed"]]
      BY <1>4 DEF PassGate, VisitorMoves, VisitorTo
    <3>2. [visitor[v] EXCEPT !.pc = "passed"].proxy = visitor[v].proxy
      BY <1>2, <1>4 DEF PassGate, VisitorState
    <3> QED BY <3>1, <3>2 DEF HostOf, PipeOf, TunnelTypeOK
  <2> QED BY <1>1, <1>3, <2>1, <2>2 DEF PassedBound, HostOf, PipeOf
<1>5. CASE ~PassGate(v)
  <2>1. visitor'[v].pc # "passed"
    <3>1. \E s : VisitorTo(v, s) /\ s.pc # "passed"
      <4>1. ASSUME NEW c \in {"queued", "waiting", "channel", "served"}, VisitorMoves(v, c),
                   visitor[v].pc \in {"found", "opening", "waiting", "passed", "channel"}
            PROVE  \E s : VisitorTo(v, s) /\ s.pc # "passed"
        <5> DEFINE s == [visitor[v] EXCEPT !.pc = c]
        <5>1. VisitorTo(v, s)
          BY <4>1 DEF VisitorMoves
        <5>2. s.pc # "passed"
          BY <1>2, <4>1 DEF VisitorState
        <5> HIDE DEF s
        <5> QED BY <5>1, <5>2
      <4>2. ASSUME VisitorTo(v, [pc |-> "closed"])
            PROVE  \E s : VisitorTo(v, s) /\ s.pc # "passed"
        <5>1. [pc |-> "closed"].pc # "passed"
          OBVIOUS
        <5> QED BY <4>2, <5>1, Zenon
      <4>3. CASE FindPipe(v)
        <5>1. PICK k \in Keys : VisitorTo(v, [pc |-> "found", proxy |-> registry[k]])
          BY <4>3 DEF FindPipe
        <5>2. [pc |-> "found", proxy |-> registry[k]].pc # "passed"
          OBVIOUS
        <5> QED BY <5>1, <5>2, Zenon
      <4>4. CASE NotFound(v) \/ Overloaded(v) \/ GiveUp(v) \/ ChannelFails(v) \/ Finish(v)
        BY <4>2, <4>4 DEF NotFound, Overloaded, GiveUp, ChannelFails, Finish
      <4>5. CASE GetSSH(v)
        <5>1. \/ VisitorTo(v, [pc |-> "closed"])
              \/ VisitorMoves(v, "channel") \/ VisitorMoves(v, "waiting")
          BY <4>5 DEF GetSSH
        <5> QED BY <4>1, <4>2, <4>5, <5>1 DEF GetSSH
      <4>6. CASE Reread(v)
        BY <4>1, <4>2, <4>6 DEF Reread
      <4>7. CASE ClientAnswers(v)
        BY <4>1, <4>2, <4>7 DEF ClientAnswers
      <4>8. CASE Inject(v)
        BY <4>1, <4>8 DEF Inject
      <4> QED
        BY <1>5, <4>3, <4>4, <4>5, <4>6, <4>7, <4>8 DEF QuietStep, RemoteStep
    <3> QED BY <3>1 DEF VisitorTo, TunnelTypeOK
  <2> QED BY <1>1, <1>3, <2>1 DEF PassedBound, HostOf, PipeOf
<1> QED
  BY <1>4, <1>5

LEMMA TunnelInductive == TunnelInv /\ [Next]_vars => TunnelInv'
<1> SUFFICES ASSUME TunnelInv, [Next]_vars PROVE TunnelInv'
  OBVIOUS
<1> USE DEF TunnelInv
<1>1. CASE UNCHANGED vars
  <2>1. TunnelTypeOK'
    BY <1>1 DEF vars, TunnelTypeOK
  <2>2. PassedBound'
    BY <1>1 DEF vars, PassedBound, HostOf, PipeOf
  <2> QED BY <1>1, <2>1, <2>2, PhasesFrame, RegistryFrame DEF vars
<1>2. ASSUME NEW t \in Tunnels, Connect(t) \/ BindStep(t) PROVE TunnelInv'
  <2>1. tun' \in [Tunnels -> TunnelState] /\ Phases'
    BY <1>2, TunStep
  <2>2. UNCHANGED <<proxy, closed, queue, registry, visitor>>
    BY <1>2, TunFrame
  <2>3. TunnelTypeOK'
    BY <2>1, <2>2 DEF TunnelTypeOK
  <2>4. PassedBound'
    BY <1>2, PassedTun
  <2> QED BY <2>1, <2>2, <2>3, <2>4, RegistryFrame
<1>3. ASSUME NEW p \in Proxies, ProxyStep(p) PROVE TunnelInv'
  BY <1>3, ProxyTypes, ProxyRegistry, PassedProxy, PhasesFrame
<1>4. ASSUME NEW v \in Visitors, QuietStep(v) \/ Inject(v) PROVE TunnelInv'
  BY <1>4, VisitorTypes, VisitorFrame, PassedVisitor, PhasesFrame, RegistryFrame
<1> QED
  BY <1>1, <1>2, <1>3, <1>4, NextCases

\* The inductive invariant: types, the phases of BindSSH, a live registry, and
\* nobody past the gate of a tunnel that was never bound.
THEOREM TunnelInvariant == Spec => []TunnelInv
BY TunnelInitial, TunnelInductive, PTL DEF Spec

\* Type correctness.
THEOREM TunnelTypeCorrect == Spec => []TunnelTypeOK
<1>1. TunnelInv => TunnelTypeOK
  BY DEF TunnelInv
<1> QED
  BY TunnelInvariant, <1>1, PTL

\* An open gate means activeConn, or a tunnel that is over; and whoever comes
\* through the gate, however much later, misses activeConn only when the SSH
\* connection has broken (GateSound).
THEOREM GateCorrect == Spec => []GateSound
<1>1. TunnelInv => GateSound
  <2> SUFFICES ASSUME TunnelInv PROVE GateSound
    OBVIOUS
  <2> USE DEF TunnelInv, TunnelTypeOK, TunnelState, Phases, PhaseOf, Over
  <2>1. \A t \in Tunnels : tun[t].gate = 0 => tun[t].active \/ Over(t)
    OBVIOUS
  <2>2. ASSUME NEW v \in Visitors, visitor[v].pc = "passed"
        PROVE  tun[HostOf(v)].active \/ tun[HostOf(v)].ssh = "closed"
    <3>1. HostOf(v) \in Tunnels
      BY <2>2, TunnelAssumption DEF VisitorState, HostOf, PipeOf
    <3>2. tun[HostOf(v)].bind # "start"
      BY <2>2 DEF PassedBound
    <3> HIDE DEF Over
    <3> QED BY <3>1, <3>2
  <2> QED BY <2>1, <2>2 DEF GateSound
<1> QED
  BY TunnelInvariant, <1>1, PTL

\* GetProxyPipe never returns the pipe of a proxy that has ended.
THEOREM RegistryCorrect == Spec => []RegistryLive
<1>1. TunnelInv => RegistryLive
  BY DEF TunnelInv
<1> QED
  BY TunnelInvariant, <1>1, PTL

-----------------------------------------------------------------------------
(* Refinement.                                                             *)

LEMMA PipesInitial == Init => Pipes!Init
BY DEF Init, Pipes!Init, At

\* Only NewProxy and Unregister are seen: they are Open and Close.
LEMMA PipesStep == TunnelInv /\ [Next]_vars => [Pipes!Next]_Pipes!pipeVars
<1> SUFFICES ASSUME TunnelInv, [Next]_vars PROVE [Pipes!Next]_Pipes!pipeVars
  OBVIOUS
<1> USE DEF Pipes!pipeVars
<1>1. ASSUME UNCHANGED <<proxy, registry>> PROVE UNCHANGED Pipes!pipeVars
  BY <1>1 DEF At
<1>2. CASE UNCHANGED vars
  BY <1>1, <1>2 DEF vars
<1>3. ASSUME NEW t \in Tunnels, Connect(t) \/ BindStep(t) PROVE UNCHANGED Pipes!pipeVars
  BY <1>1, <1>3, TunFrame
<1>4. ASSUME NEW v \in Visitors, QuietStep(v) \/ Inject(v) PROVE UNCHANGED Pipes!pipeVars
  BY <1>1, <1>4, VisitorFrame
<1>5. ASSUME NEW p \in Proxies, ProxyStep(p) PROVE [Pipes!Next]_Pipes!pipeVars
  <2> USE TunnelAssumption DEF TunnelInv, TunnelTypeOK, ProxyState, At
  <2>1. CASE NewProxy(p)
    <3>1. Pipes!Open(p, KeyOf[p])
      BY <2>1 DEF NewProxy, ProxyTo, Pipes!Open
    <3> QED BY <3>1 DEF Pipes!Next
  <2>2. CASE Unregister(p)
    <3>1. At[p] = KeyOf[p] /\ KeyOf[p] # None
      BY <2>2 DEF Unregister
    <3>2. At' = [At EXCEPT ![p] = None]
      BY <2>2 DEF Unregister, ProxyTo
    <3>3. registry' = [registry EXCEPT ![At[p]] = None]
      BY <2>2, <3>1 DEF Unregister
    <3> QED BY <3>1, <3>2, <3>3 DEF Pipes!Next, Pipes!Close
  <2>3. CASE Run(p)
    BY <2>3 DEF Run, ProxyTo
  <2>4. CASE AcceptFails(p)
    BY <2>4 DEF AcceptFails, ProxyTo
  <2>5. CASE ClosePipe(p) \/ Accept(p)
    BY <1>1, <2>5 DEF ClosePipe, Accept
  <2> QED BY <1>5, <2>1, <2>2, <2>3, <2>4, <2>5 DEF ProxyStep
<1> QED
  BY <1>2, <1>3, <1>4, <1>5, NextCases

\* Tunnels implement PipeRegistry: proxies open under a key and close.
THEOREM RefinesPipes == Spec => ImplementsPipes
BY PipesInitial, PipesStep, TunnelInvariant, PTL DEF Spec, ImplementsPipes, Pipes!Spec

-----------------------------------------------------------------------------
(* Where no two proxies share a key: one tunnel of a client, never two.    *)

OwnKeys == \A p, q \in Proxies : KeyOf[p] = KeyOf[q] => p = q

\* A proxy that is up is found.
ProxyFound == \A p \in Proxies :
    proxy[p] \in {"registered", "accepting", "stopped"} => registry[KeyOf[p]] = p

LEMMA FoundStep ==
    ASSUME OwnKeys
    PROVE  TunnelInv /\ ProxyFound /\ [Next]_vars => ProxyFound'
<1> SUFFICES ASSUME TunnelTypeOK, ProxyFound, [Next]_vars PROVE ProxyFound'
  BY DEF TunnelInv
<1>1. /\ proxy \in [Proxies -> ProxyState] /\ registry \in [Keys -> Proxies \cup {None}]
      /\ \A p \in Proxies : KeyOf[p] \in Keys
  BY TunnelAssumption DEF TunnelTypeOK
<1>2. ASSUME UNCHANGED <<proxy, registry>> PROVE ProxyFound'
  BY <1>2 DEF ProxyFound
<1>3. CASE UNCHANGED vars
  BY <1>2, <1>3 DEF vars
<1>4. ASSUME NEW t \in Tunnels, Connect(t) \/ BindStep(t) PROVE ProxyFound'
  BY <1>2, <1>4, TunFrame
<1>5. ASSUME NEW v \in Visitors, QuietStep(v) \/ Inject(v) PROVE ProxyFound'
  BY <1>2, <1>5
     DEF QuietStep, RemoteStep, FindPipe, NotFound, Overloaded, GetSSH, PassGate, Reread,
         GiveUp, ChannelFails, ClientAnswers, Finish, Inject, VisitorOnly
<1>6. ASSUME NEW p \in Proxies, ProxyStep(p) PROVE ProxyFound'
  <2>1. CASE NewProxy(p) \/ Unregister(p)
    BY <1>1, <2>1 DEF NewProxy, Unregister, ProxyTo, ProxyFound, OwnKeys
  <2>2. CASE Run(p) \/ AcceptFails(p)
    BY <1>1, <2>2 DEF Run, AcceptFails, ProxyTo, ProxyFound
  <2>3. CASE ClosePipe(p) \/ Accept(p)
    BY <1>2, <2>3 DEF ClosePipe, Accept
  <2> QED BY <1>6, <2>1, <2>2, <2>3 DEF ProxyStep
<1> QED
  BY <1>3, <1>4, <1>5, <1>6, NextCases

\* The registry misses no proxy that is up unless a second tunnel has one of
\* its key: it takes a client that reconnects while its old tunnel unwinds
\* for UnregisterProxyPipe to remove the wrong pipe.
THEOREM ProxiesFound == ASSUME OwnKeys PROVE Spec => []ProxyFound
<1>1. Init => ProxyFound
  BY DEF Init, ProxyFound
<1> QED
  BY <1>1, FoundStep, TunnelInvariant, PTL DEF Spec
=============================================================================
