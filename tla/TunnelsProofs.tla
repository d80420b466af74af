--------------------------- MODULE TunnelsProofs ---------------------------
(* Proofs about Tunnels, for any number of clients, tunnels and workers.   *)
EXTENDS Tunnels, TLAPS

\* The handlers that a request runs under the lock.
Handler(c, t, m, ans) ==
    \/ OpenTunnel(c, t, ans)
    \/ CloseTunnel(c, t, ans)
    \/ ConnTunnel(c, t, ans)
    \/ CheckExist(c, t, ans)
    \/ m \in Message /\ SendBytes(c, t, m, ans)
    \/ RecvBytes(c, t, m, ans)

\* A new tunnel is a tunnel; a queue stays one when it grows and when it shrinks.
LEMMA NewIsTunnel ==
    ASSUME NEW u \in AnyUid
    PROVE  NewTunnel(u) \in Tunnel
BY DEF NewTunnel, Tunnel, AnyUid

\* Another queue of messages on one side leaves a tunnel a tunnel.
LEMMA QueueChange ==
    ASSUME NEW tun \in Tunnel, NEW side \in Side, NEW q \in Seq(Message)
    PROVE  [tun EXCEPT !.queue[side] = q] \in Tunnel
BY DEF Tunnel

\* Stamping a tunnel keeps the ages in their range.
LEMMA TouchType ==
    ASSUME TunnelsTypeOK, NEW t \in Tun, Touch(t)
    PROVE  age' \in [Tun -> 0..MaxAge \cup {None}] /\ age'[t] = 0
BY TunnelsAssumption DEF TunnelsTypeOK, Touch

----------------------------------------------------------------------------
\* Every handler keeps the types.
LEMMA HandlerType ==
    ASSUME TunnelsTypeOK, NEW c \in Client, NEW t \in Tun, NEW m, NEW ans,
           Handler(c, t, m, ans)
    PROVE  TunnelsTypeOK'
<1> USE DEF TunnelsTypeOK, tunnelVars
<1>1. CASE OpenTunnel(c, t, ans)
  BY <1>1, NewIsTunnel, TouchType DEF OpenTunnel, AnyUid
<1>2. CASE CloseTunnel(c, t, ans)
  BY <1>2, TouchType DEF CloseTunnel, Missing
<1>3. CASE ConnTunnel(c, t, ans)
  <2>1. CASE Exists(t) /\ tunnels' = [tunnels EXCEPT ![t].connected = TRUE, ![t].peer = c]
    <3>1. tunnels[t] \in Tunnel
      BY <2>1 DEF Exists
    <3>2. [tunnels[t] EXCEPT !.connected = TRUE, !.peer = c] \in Tunnel
      BY <3>1 DEF Tunnel, AnyUid
    <3>3. tunnels' \in [Tun -> Tunnel \cup {None}]
      BY <2>1, <3>2
    <3> QED BY <1>3, <3>3, TouchType DEF ConnTunnel, Missing
  <2> QED BY <1>3, <2>1, TouchType DEF ConnTunnel, Missing
<1>4. CASE CheckExist(c, t, ans)
  BY <1>4, TouchType DEF CheckExist, Missing
<1>5. CASE m \in Message /\ SendBytes(c, t, m, ans)
  <2>1. CASE Exists(t)
    <3> DEFINE side == Outbox(c, t)
    <3>1. tunnels[t] \in Tunnel /\ side \in Side
      BY <2>1 DEF Exists, Outbox, Side
    <3>2. Append(tunnels[t].queue[side], m) \in Seq(Message)
      BY <1>5, <3>1 DEF Tunnel
    <3>3. [tunnels[t] EXCEPT !.queue[side] = Append(tunnels[t].queue[side], m)] \in Tunnel
      BY <3>1, <3>2, QueueChange
    <3>4. tunnels' = [tunnels EXCEPT ![t] =
                        [tunnels[t] EXCEPT !.queue[side] = Append(tunnels[t].queue[side], m)]]
      BY <1>5, <2>1, <3>1 DEF SendBytes, Missing, Tunnel
    <3>5. tunnels' \in [Tun -> Tunnel \cup {None}]
      BY <3>3, <3>4
    <3> QED BY <1>5, <2>1, <3>5, TouchType DEF SendBytes, Missing
  <2> QED BY <1>5, <2>1 DEF SendBytes, Missing
<1>6. CASE RecvBytes(c, t, m, ans)
  <2> DEFINE side == Inbox(c, t)
             inbox == tunnels[t].queue[side]
  <2>1. CASE Exists(t) /\ inbox # <<>>
               /\ tunnels' = [tunnels EXCEPT ![t].queue[side] = Tail(@)]
    <3>1. tunnels[t] \in Tunnel /\ side \in Side
      BY <2>1 DEF Exists, Inbox, Side
    <3>2. Tail(inbox) \in Seq(Message)
      BY <2>1, <3>1 DEF Tunnel
    <3>3. [tunnels[t] EXCEPT !.queue[side] = Tail(inbox)] \in Tunnel
      BY <3>1, <3>2, QueueChange
    <3>4. tunnels' = [tunnels EXCEPT ![t] = [tunnels[t] EXCEPT !.queue[side] = Tail(inbox)]]
      BY <2>1, <3>1 DEF Tunnel
    <3>5. tunnels' \in [Tun -> Tunnel \cup {None}]
      BY <3>3, <3>4
    <3> QED BY <1>6, <2>1, <3>5, TouchType DEF RecvBytes, Missing
  <2> QED BY <1>6, <2>1, TouchType DEF RecvBytes, Missing
<1> QED BY <1>1, <1>2, <1>3, <1>4, <1>5, <1>6 DEF Handler

\* Every step keeps them.
LEMMA TunnelsStepType ==
    ASSUME TunnelsTypeOK, [NextTunnels]_tunnelVars
    PROVE  TunnelsTypeOK'
<1>1. ASSUME NEW w \in Worker, NEW t \in Tun, CheckTunnel(w, t)
      PROVE  TunnelsTypeOK'
  BY <1>1, TouchType DEF CheckTunnel, TunnelsTypeOK
<1>2. ASSUME NEW w \in Worker, CheckPeer(w)
      PROVE  TunnelsTypeOK'
  BY <1>2, NewIsTunnel DEF CheckPeer, TunnelsTypeOK
<1>3. CASE ReadClock
  BY <1>3, TunnelsAssumption DEF ReadClock, TunnelsTypeOK
<1>4. CASE Collect
  BY <1>4 DEF Collect, TunnelsTypeOK
<1>5. CASE Tick
  BY <1>5, TunnelsAssumption DEF Tick, TunnelsTypeOK
<1>6. ASSUME NEW found, Discovery(found)
      PROVE  TunnelsTypeOK'
  BY <1>6, TunnelsAssumption DEF Discovery, TunnelsTypeOK
<1>7. CASE UNCHANGED tunnelVars
  BY <1>7 DEF tunnelVars, TunnelsTypeOK
<1>8. CASE NextTunnels
  BY <1>1, <1>2, <1>3, <1>4, <1>5, <1>6, <1>8, HandlerType
     DEF NextTunnels, Handle, Handler, Clean
<1> QED BY <1>7, <1>8

\* A handler is a step of the mirror.
LEMMA HandlerStep ==
    ASSUME TunnelsTypeOK, NEW c \in Client, NEW t \in Tun, NEW m, NEW ans, Handler(c, t, m, ans)
    PROVE  NextTunnels
<1>1. CASE RecvBytes(c, t, m, ans)
  <2>1. Inbox(c, t) \in Side
    BY DEF Inbox, Side
  <2>2. ans \in {"data", "no-data", "not-exists"} /\ m \in Message \cup {None}
    BY <1>1, <2>1 DEF RecvBytes, Missing, Exists, TunnelsTypeOK, Tunnel
  <2> QED BY <1>1, <2>2 DEF Handle, NextTunnels
<1>2. CASE OpenTunnel(c, t, ans)
  BY <1>2 DEF OpenTunnel, Handle, NextTunnels
<1>3. CASE CloseTunnel(c, t, ans)
  BY <1>3 DEF CloseTunnel, Missing, Handle, NextTunnels
<1>4. CASE ConnTunnel(c, t, ans)
  BY <1>4 DEF ConnTunnel, Missing, Handle, NextTunnels
<1>5. CASE CheckExist(c, t, ans)
  BY <1>5 DEF CheckExist, Missing, Handle, NextTunnels
<1>6. CASE m \in Message /\ SendBytes(c, t, m, ans)
  BY <1>6 DEF SendBytes, Missing, Handle, NextTunnels
<1> QED BY <1>1, <1>2, <1>3, <1>4, <1>5, <1>6 DEF Handler

\* No handler raises a tunnel that the cleaner cannot see, and neither does the cleaner.
LEMMA NoNewGhost ==
    ASSUME Clean \/ \E c \in Client, t \in Tun : \E m, ans : Handler(c, t, m, ans)
    PROVE  ghosts' \subseteq ghosts
<1>1. CASE Clean
  BY <1>1 DEF Clean, ReadClock, Collect, Tick
<1>2. ASSUME NEW c \in Client, NEW t \in Tun, NEW m, NEW ans, Handler(c, t, m, ans)
      PROVE  ghosts' \subseteq ghosts
  BY <1>2 DEF Handler, OpenTunnel, CloseTunnel, ConnTunnel, CheckExist, SendBytes, RecvBytes,
              Missing, tunnelVars
<1> QED BY <1>1, <1>2

\* Type correctness: the queues hold messages, the stamps are no older than the
\* bound, and a pending read names a tunnel uid.
THEOREM TunnelsTypeCorrect == SpecTunnels => []TunnelsTypeOK
<1>1. InitTunnels => TunnelsTypeOK
  BY TunnelsAssumption DEF InitTunnels, TunnelsTypeOK
<1>2. TunnelsTypeOK /\ [NextTunnels]_tunnelVars => TunnelsTypeOK'
  BY TunnelsStepType
<1> QED BY <1>1, <1>2, PTL DEF SpecTunnels

----------------------------------------------------------------------------
(* Who may talk in a tunnel.                                               *)

Same(u) == /\ Exists(u) /\ tunnels'[u] \in Tunnel
           /\ tunnels'[u].author = tunnels[u].author
           /\ tunnels'[u].peer = tunnels[u].peer
           /\ tunnels'[u].connected = tunnels[u].connected

Joined(u) == /\ Exists(u) /\ tunnels'[u] \in Tunnel
             /\ tunnels'[u].author = tunnels[u].author
             /\ ~tunnels[u].connected
             /\ tunnels'[u].peer # tunnels[u].author

\* All that a step can do to a tunnel: nothing, make it, erase it, connect it to
\* another than its author, or change its queues.
Moved(u) ==
    \/ tunnels'[u] = tunnels[u]
    \/ ~Exists(u) /\ \E a \in AnyUid : tunnels'[u] = NewTunnel(a)
    \/ tunnels'[u] = None
    \/ Joined(u)
    \/ Same(u)

\* A handler changes a tunnel in one of the ways of Moved.
LEMMA HandlerMoves ==
    ASSUME TunnelsTypeOK, NEW c \in Client, NEW t \in Tun, NEW m, NEW ans,
           Handler(c, t, m, ans), NEW u \in Tun
    PROVE  Moved(u)
<1> USE DEF TunnelsTypeOK, tunnelVars
<1>1. CASE OpenTunnel(c, t, ans)
  BY <1>1 DEF OpenTunnel, AnyUid, Moved
<1>2. CASE CloseTunnel(c, t, ans)
  BY <1>2 DEF CloseTunnel, Missing, Moved
<1>3. CASE ConnTunnel(c, t, ans)
  <2>1. CASE u = t /\ Exists(t) /\ ~IsConnected(t) /\ ~IsAuthor(c)
               /\ tunnels' = [tunnels EXCEPT ![t].connected = TRUE, ![t].peer = c]
    <3>1. tunnels[t] \in Tunnel
      BY <2>1 DEF Exists
    <3>2. tunnels'[t] = [tunnels[t] EXCEPT !.connected = TRUE, !.peer = c]
      BY <2>1
    <3>3. tunnels'[t] \in Tunnel /\ tunnels'[t].author = tunnels[t].author /\ tunnels'[t].peer = c
      BY <3>1, <3>2 DEF Tunnel, AnyUid
    <3>4. c # tunnels[t].author
      BY <2>1 DEF IsAuthor
    <3> QED BY <2>1, <3>3, <3>4 DEF IsConnected, Moved, Joined
  <2>2. CASE tunnels'[u] = tunnels[u]
    BY <2>2 DEF Moved
  <2> QED BY <1>3, <2>1, <2>2 DEF ConnTunnel, Missing
<1>4. CASE CheckExist(c, t, ans)
  BY <1>4 DEF CheckExist, Missing, Moved
<1>5. ASSUME NEW side \in Side, NEW q, Exists(t), tunnels' = [tunnels EXCEPT ![t].queue[side] = q],
             TunnelsTypeOK'
      PROVE  Moved(u)
  <2>1. tunnels[t] \in Tunnel
    BY <1>5 DEF Exists
  <2>2. tunnels'[t] = [tunnels[t] EXCEPT !.queue[side] = q]
    BY <1>5
  <2>3. tunnels'[t].author = tunnels[t].author /\ tunnels'[t].peer = tunnels[t].peer
        /\ tunnels'[t].connected = tunnels[t].connected
    BY <2>1, <2>2 DEF Tunnel
  <2>4. tunnels'[t] \in Tunnel \cup {None}
    BY <1>5
  <2> QED BY <1>5, <2>3, <2>4 DEF Moved, Same
<1>6. TunnelsTypeOK'
  BY HandlerType
<1>7. CASE m \in Message /\ SendBytes(c, t, m, ans)
  <2>1. CASE Exists(t) /\ tunnels' = [tunnels EXCEPT ![t].queue[Outbox(c, t)] = Append(@, m)]
    <3> DEFINE q == Append(tunnels[t].queue[Outbox(c, t)], m)
    <3>1. tunnels[t] \in Tunnel /\ Outbox(c, t) \in Side
      BY <2>1 DEF Exists, Outbox, Side
    <3>2. tunnels' = [tunnels EXCEPT ![t].queue[Outbox(c, t)] = q]
      BY <2>1, <3>1 DEF Tunnel
    <3> HIDE DEF q
    <3> QED BY <1>5, <1>6, <2>1, <3>1, <3>2
  <2>2. CASE tunnels' = tunnels
    BY <2>2 DEF Moved
  <2> QED BY <1>7, <2>1, <2>2 DEF SendBytes, Missing
<1>8. CASE RecvBytes(c, t, m, ans)
  <2>1. CASE Exists(t) /\ tunnels' = [tunnels EXCEPT ![t].queue[Inbox(c, t)] = Tail(@)]
    <3> DEFINE q == Tail(tunnels[t].queue[Inbox(c, t)])
    <3>1. tunnels[t] \in Tunnel /\ Inbox(c, t) \in Side
      BY <2>1 DEF Exists, Inbox, Side
    <3>2. tunnels' = [tunnels EXCEPT ![t].queue[Inbox(c, t)] = q]
      BY <2>1, <3>1 DEF Tunnel
    <3> HIDE DEF q
    <3> QED BY <1>5, <1>6, <2>1, <3>1, <3>2
  <2>2. CASE tunnels' = tunnels
    BY <2>2 DEF Moved
  <2> QED BY <1>8, <2>1, <2>2 DEF RecvBytes, Missing
<1> QED BY <1>1, <1>2, <1>3, <1>4, <1>7, <1>8 DEF Handler

\* So does every step.
LEMMA StepMoves ==
    ASSUME TunnelsTypeOK, [NextTunnels]_tunnelVars, NEW u \in Tun
    PROVE  Moved(u)
<1>1. ASSUME NEW w \in Worker, CheckPeer(w)
      PROVE  Moved(u)
  BY <1>1 DEF CheckPeer, Moved, TunnelsTypeOK
<1>2. CASE Collect
  BY <1>2 DEF Collect, Moved, TunnelsTypeOK
<1>3. CASE tunnels' = tunnels
  BY <1>3 DEF Moved
<1>4. CASE NextTunnels
  BY <1>1, <1>2, <1>3, <1>4, HandlerMoves
     DEF NextTunnels, Handle, Handler, Clean, CheckTunnel, Discovery, ReadClock, Tick
<1> QED BY <1>3, <1>4 DEF tunnelVars

\* conn_tunnel's search for a tunnel of the caller's own keeps everyone from
\* being the peer of its own tunnel, with any number of tunnels and clients.
THEOREM NobodyTalksToItself == SpecTunnels => []NoSelfTunnel
<1>1. InitTunnels => NoSelfTunnel
  BY DEF InitTunnels, NoSelfTunnel, Exists
<1>2. TunnelsTypeOK /\ NoSelfTunnel /\ [NextTunnels]_tunnelVars => NoSelfTunnel'
  <2> SUFFICES ASSUME TunnelsTypeOK, NoSelfTunnel, [NextTunnels]_tunnelVars, NEW u \in Tun,
                      Exists(u)', tunnels'[u].connected
               PROVE  tunnels'[u].peer # tunnels'[u].author
    BY DEF NoSelfTunnel
  <2>1. Moved(u)
    BY StepMoves
  <2>2. CASE tunnels'[u] = tunnels[u]
    BY <2>2 DEF Exists, NoSelfTunnel
  <2>3. CASE \E a \in AnyUid : tunnels'[u] = NewTunnel(a)
    <3>1. tunnels'[u].connected = FALSE
      BY <2>3 DEF NewTunnel
    <3> QED BY <3>1
  <2>4. CASE tunnels'[u] = None
    BY <2>4 DEF Exists
  <2>5. CASE Joined(u)
    BY <2>5 DEF Joined
  <2>6. CASE Same(u)
    BY <2>6 DEF Same, NoSelfTunnel
  <2> QED BY <2>1, <2>2, <2>3, <2>4, <2>5, <2>6 DEF Moved
<1> QED BY <1>1, <1>2, TunnelsTypeCorrect, PTL DEF SpecTunnels

\* A living tunnel keeps its author, and its first peer.
THEOREM FirstPeerStays == SpecTunnels => PeerFixed
<1>1. TunnelsTypeOK /\ [NextTunnels]_tunnelVars =>
        [\A t \in Tun : Exists(t) /\ Exists(t)' =>
           /\ tunnels'[t].author = tunnels[t].author
           /\ tunnels[t].connected => tunnels'[t].connected /\ tunnels'[t].peer = tunnels[t].peer
        ]_tunnelVars
  BY StepMoves DEF Moved, Joined, Same, Exists
<1> QED BY <1>1, TunnelsTypeCorrect, PTL DEF SpecTunnels, PeerFixed

----------------------------------------------------------------------------
(* What the cleaner knows and takes.                                       *)

\* After a handler a tunnel has a stamp or is as it was.
LEMMA HandlerStamps ==
    ASSUME TunnelsTypeOK, NEW c \in Client, NEW t \in Tun, NEW m, NEW ans,
           Handler(c, t, m, ans), NEW u \in Tun
    PROVE  \/ age'[u] # None
           \/ age'[u] = age[u] /\ tunnels'[u] = tunnels[u] /\ (u \in ghosts' <=> u \in ghosts)
BY TunnelsAssumption, TouchType
   DEF TunnelsTypeOK, Handler, OpenTunnel, CloseTunnel, ConnTunnel, CheckExist, SendBytes,
       RecvBytes, Missing, Touch, tunnelVars

\* Every tunnel has a stamp, so the cleaner will come to it, unless the unlocked
\* read of check_tunnel raised it.
THEOREM CleanerKnows == SpecTunnels => []Tracked
<1>1. InitTunnels => Tracked
  BY DEF InitTunnels, Tracked, Exists
<1>2. TunnelsTypeOK /\ Tracked /\ [NextTunnels]_tunnelVars => Tracked'
  <2> SUFFICES ASSUME TunnelsTypeOK, Tracked, [NextTunnels]_tunnelVars, NEW u \in Tun,
                      Exists(u)', age'[u] = None
               PROVE  u \in ghosts'
    BY DEF Tracked
  <2>1. ASSUME NEW c \in Client, NEW t \in Tun, NEW m, NEW ans, Handler(c, t, m, ans)
        PROVE  u \in ghosts'
    BY <2>1, HandlerStamps DEF Tracked, Exists
  <2>2. ASSUME NEW w \in Worker, NEW t \in Tun, CheckTunnel(w, t)
        PROVE  u \in ghosts'
    BY <2>2, TouchType, TunnelsAssumption DEF CheckTunnel, Touch, Tracked, Exists, TunnelsTypeOK
  <2>3. ASSUME NEW w \in Worker, CheckPeer(w)
        PROVE  u \in ghosts'
    BY <2>3 DEF CheckPeer, Tracked, Exists, TunnelsTypeOK
  <2>4. CASE Collect
    BY <2>4 DEF Collect, Idle, Tracked, Exists, TunnelsTypeOK
  <2>5. CASE Tick
    <3>1. age[u] = None
      BY <2>5, TunnelsAssumption DEF Tick, TunnelsTypeOK
    <3> QED BY <2>5, <3>1 DEF Tick, Tracked, Exists
  <2>6. CASE ReadClock \/ UNCHANGED tunnelVars
    BY <2>6 DEF ReadClock, tunnelVars, Tracked, Exists
  <2>7. ASSUME NEW found, Discovery(found)
        PROVE  u \in ghosts'
    BY <2>7, TunnelsAssumption DEF Discovery, Tracked, Exists, TunnelsTypeOK
  <2> QED BY <2>1, <2>2, <2>3, <2>4, <2>5, <2>6, <2>7 DEF NextTunnels, Handle, Handler, Clean
<1> QED BY <1>1, <1>2, TunnelsTypeCorrect, PTL DEF SpecTunnels

\* What the cleaner takes has been idle for more than the timeout, however long
\* it waited for the lock and whoever touched the tunnel meanwhile.
THEOREM TunnelInUseStays == SpecTunnels => InUseIsKept
<1>1. TunnelsTypeOK /\ [NextTunnels]_tunnelVars =>
        [\A t \in Tun : Collected(t) => age[t] > Timeout]_tunnelVars
  <2> SUFFICES ASSUME TunnelsTypeOK, NextTunnels, NEW u \in Tun, Collected(u)
               PROVE  age[u] > Timeout
    OBVIOUS
  <2>1. ASSUME NEW c \in Client, NEW t \in Tun, NEW m, NEW ans, Handler(c, t, m, ans)
        PROVE  FALSE
    BY <2>1, HandlerStamps DEF Collected, Exists
  <2>2. CASE Collect
    <3>1. Idle(u) /\ lag \in Nat /\ age[u] \in Nat
      BY <2>2, TunnelsAssumption DEF Collect, Collected, Exists, Idle, TunnelsTypeOK
    <3> QED BY <3>1, TunnelsAssumption DEF Idle
  <2>3. ASSUME NEW w \in Worker, CheckPeer(w)
        PROVE  FALSE
    BY <2>3 DEF CheckPeer, Collected, Exists, TunnelsTypeOK
  <2>4. CASE tunnels' = tunnels
    BY <2>4 DEF Collected, Exists
  <2> QED BY <2>1, <2>2, <2>3, <2>4
          DEF NextTunnels, Handle, Handler, Clean, CheckTunnel, Discovery, ReadClock, Tick
<1> QED BY <1>1, TunnelsTypeCorrect, PTL DEF SpecTunnels, InUseIsKept
=============================================================================
