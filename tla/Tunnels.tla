------------------------------ MODULE Tunnels ------------------------------
(***************************************************************************)
(* The mirror's tunnels: ServerProto (mirror/proto-alpha/serv.hpp).        *)
(* A tunnel is a pair of queues between its author and whoever is not the  *)
(* author.  Requests run on the server's worker threads, each handler under*)
(* tunnels_mtx and so one step - but check_tunnel, which reads the peer    *)
(* through operator[] after it has dropped the lock.  A cleaner thread     *)
(* erases tunnels that no request touched for longer than the timeout.     *)
(*                                                                         *)
(* A handler is an operator on its client, its tunnel and its answer ans,  *)
(* so that a client's module can take the answer up in the same step.      *)
(***************************************************************************)
EXTENDS Integers, Sequences

CONSTANTS
    Client,         \* client uids
    Tun,            \* tunnel uids (never -1: every request built by ClientProto names one)
    Worker,         \* worker threads of the server
    Message,        \* payloads
    Timeout,        \* timeout_sec, compared with a difference of timestamps
    UnitsPerSec,    \* timestamps per second: nw::timestamp counts milliseconds
    Recent,         \* the age up to which discovery lists a tunnel
    MaxAge,         \* an age beyond which it makes no difference (bound)
    MaxLag,         \* how long the cleaner may wait for the lock (bound)
    MaxQueue,       \* messages in a queue (bound)
    None,           \* no tunnel, no stamp
    Garbage         \* an uninitialised uid

ASSUME TunnelsAssumption ==
    /\ {Timeout, UnitsPerSec, MaxAge, MaxLag, MaxQueue} \subseteq Nat
    /\ MaxAge > Timeout + MaxLag
    /\ Recent \in 0..MaxAge
    /\ Garbage \notin Client
    /\ None \notin Nat /\ None \notin Tun

VARIABLES
    tunnels,        \* tunnels: a Tunnel, or None
    age,            \* now - tun_time[t], or None without an entry
    pending,        \* the tunnel whose peer each worker is about to read, unlocked
    lag,            \* time since the cleaner read the clock, or None while it sleeps
    ghosts          \* history: entries that an unlocked read inserted

tunnelVars == <<tunnels, age, pending, lag, ghosts>>

\* The uids an uninitialised field may hold: a reused node keeps its old ones.
AnyUid == Client \cup {Garbage}

\* from_author and to_author
Side == {"from", "to"}

Tunnel == [connected : BOOLEAN, author : AnyUid, peer : AnyUid, queue : [Side -> Seq(Message)]]

\* The peer of a new tunnel is read only once it is set: any value will do.
NewTunnel(author) == [connected |-> FALSE, author |-> author, peer |-> Garbage,
                      queue |-> [side \in Side |-> <<>>]]

Exists(t) == tunnels[t] # None

\* Mutant: the entry is made but left at zero, the epoch.
TouchEpoch(t) == age' = [age EXCEPT ![t] = MaxAge + 1]

\* tun_time[t] is set by every request that finds its tunnel.
Touch(t) == age' = [age EXCEPT ![t] = 0]

InitTunnels ==
    /\ tunnels = [t \in Tun |-> None]
    /\ age = [t \in Tun |-> None]
    /\ pending = [w \in Worker |-> None]
    /\ lag = None
    /\ ghosts = {}

----------------------------------------------------------------------------
(* The handlers.                                                           *)

\* A request that does not find its tunnel.
Missing(t, text, ans) ==
    /\ ~Exists(t)
    /\ ans = text
    /\ UNCHANGED tunnelVars

\* Mutant: the stamp is forgotten.
OpenUnstamped(c, t, ans) ==
    /\ ~Exists(t) /\ ans = "ok"
    /\ tunnels' = [tunnels EXCEPT ![t] = NewTunnel(c)]
    /\ UNCHANGED <<age, pending, lag, ghosts>>

OpenTunnel(c, t, ans) ==
    \/ /\ Exists(t)
       /\ ans = "alr-exists"
       /\ UNCHANGED tunnelVars
    \/ /\ ~Exists(t)
       /\ ans = "ok"
       /\ tunnels' = [tunnels EXCEPT ![t] = NewTunnel(c)]
       /\ Touch(t)
       /\ UNCHANGED <<pending, lag, ghosts>>

\* Anyone may close a tunnel.  Its stamp stays behind.
CloseTunnel(c, t, ans) ==
    \/ Missing(t, "not-exists", ans)
    \/ /\ Exists(t)
       /\ ans = "ok"
       /\ tunnels' = [tunnels EXCEPT ![t] = None]
       /\ Touch(t)
       /\ ghosts' = ghosts \ {t}
       /\ UNCHANGED <<pending, lag>>

\* Mutants: only connected tunnels are searched; the flag is not looked at.
IsAuthorConnected(c) == \E t \in Tun : Exists(t) /\ tunnels[t].author = c /\ tunnels[t].connected
IsNeverConnected(t) == FALSE

\* The search for a tunnel of c's own.
IsAuthor(c) == \E t \in Tun : Exists(t) /\ tunnels[t].author = c

IsConnected(t) == tunnels[t].connected

ConnTunnel(c, t, ans) ==
    \/ Missing(t, "not-exists", ans)
    \/ /\ Exists(t)
       /\ Touch(t)
       /\ \/ IsConnected(t) /\ ans = "alr-conn" /\ UNCHANGED tunnels
          \/ ~IsConnected(t) /\ IsAuthor(c) /\ ans = "only-one" /\ UNCHANGED tunnels
          \/ /\ ~IsConnected(t) /\ ~IsAuthor(c)
             /\ ans = "ok"
             /\ tunnels' = [tunnels EXCEPT ![t].connected = TRUE, ![t].peer = c]
       /\ UNCHANGED <<pending, lag, ghosts>>

\* The first half of check_tunnel; a connected tunnel is answered by CheckPeer.
CheckTunnel(w, t) ==
    /\ pending[w] = None
    /\ Exists(t)
    /\ Touch(t)
    /\ pending' = IF IsConnected(t) THEN [pending EXCEPT ![w] = t] ELSE pending
    /\ UNCHANGED <<tunnels, lag, ghosts>>

\* tunnels[tun_uid].peer, with no lock: a tunnel erased meanwhile comes back as
\* a default one with no stamp, and its uids are not initialised.
CheckPeer(w) == LET t == pending[w] IN
    /\ t # None
    /\ pending' = [pending EXCEPT ![w] = None]
    /\ \/ Exists(t) /\ UNCHANGED <<tunnels, ghosts>>
       \/ /\ ~Exists(t)
          /\ \E u \in AnyUid : tunnels' = [tunnels EXCEPT ![t] = NewTunnel(u)]
          /\ ghosts' = ghosts \cup {t}
    /\ UNCHANGED <<age, lag>>

CheckExist(c, t, ans) ==
    \/ Missing(t, "no", ans)
    \/ /\ Exists(t)
       /\ ans = "yes"
       /\ Touch(t)
       /\ UNCHANGED <<tunnels, pending, lag, ghosts>>

\* What is not from the author is to the author.
Outbox(c, t) == IF tunnels[t].author # c THEN "to" ELSE "from"

\* Mutant: the message is put in front.
SendStacked(c, t, m, ans) ==
    \/ Missing(t, "not-exists", ans)
    \/ /\ Exists(t) /\ ans = "ok" /\ Touch(t)
       /\ Len(tunnels[t].queue[Outbox(c, t)]) < MaxQueue
       /\ tunnels' = [tunnels EXCEPT ![t].queue[Outbox(c, t)] = <<m>> \o @]
       /\ UNCHANGED <<pending, lag, ghosts>>

SendBytes(c, t, m, ans) ==
    \/ Missing(t, "not-exists", ans)
    \/ /\ Exists(t)
       /\ ans = "ok"
       /\ Touch(t)
       /\ Len(tunnels[t].queue[Outbox(c, t)]) < MaxQueue
       /\ tunnels' = [tunnels EXCEPT ![t].queue[Outbox(c, t)] = Append(@, m)]
       /\ UNCHANGED <<pending, lag, ghosts>>

\* Mutant: the sides are mixed up.
InboxMixed(c, t) == IF tunnels[t].author = c THEN "from" ELSE "to"

Inbox(c, t) == IF tunnels[t].author = c THEN "to" ELSE "from"

\* m is the payload when ans is "data", else None.
RecvBytes(c, t, m, ans) ==
    \/ m = None /\ Missing(t, "not-exists", ans)
    \/ /\ Exists(t)
       /\ Touch(t)
       /\ LET inbox == tunnels[t].queue[Inbox(c, t)] IN
            \/ inbox = <<>> /\ ans = "no-data" /\ m = None /\ UNCHANGED tunnels
            \/ /\ inbox # <<>>
               /\ ans = "data" /\ m = Head(inbox)
               /\ tunnels' = [tunnels EXCEPT ![t].queue[Inbox(c, t)] = Tail(@)]
       /\ UNCHANGED <<pending, lag, ghosts>>

\* A tunnel to join, and found, those that were touched a short while ago.
Joinable(t) == Exists(t) /\ ~IsConnected(t)

\* Reading tun_time[t] of a tunnel without a stamp makes one, at zero, the epoch.
\* (Both programs that would register the handler have it commented out.)
Discovery(found) ==
    /\ found = {t \in Tun : Joinable(t) /\ age[t] # None /\ age[t] < Recent}
    /\ age' = [t \in Tun |-> IF Joinable(t) /\ age[t] = None THEN MaxAge ELSE age[t]]
    /\ UNCHANGED <<tunnels, pending, lag, ghosts>>

----------------------------------------------------------------------------
(* The cleaner and the clock.                                              *)

\* cleanup_inactive_tunnels reads the clock before it takes the lock.
ReadClock ==
    /\ lag = None
    /\ lag' = 0
    /\ UNCHANGED <<tunnels, age, pending, ghosts>>

\* Mutant: an unsigned difference, huge for a stamp later than the clock read.
IdleUnsigned(t) == age[t] # None /\ (age[t] < lag \/ age[t] - lag > Timeout)

Idle(t) == age[t] # None /\ age[t] - lag > Timeout

\* Mutant: tunnels are left, only the stamps go.
CollectStamps ==
    /\ lag # None /\ lag' = None
    /\ age' = [t \in Tun |-> IF Idle(t) THEN None ELSE age[t]]
    /\ UNCHANGED <<tunnels, pending, ghosts>>

Collect ==
    /\ lag # None /\ lag' = None
    /\ tunnels' = [t \in Tun |-> IF Idle(t) THEN None ELSE tunnels[t]]
    /\ age' = [t \in Tun |-> IF Idle(t) THEN None ELSE age[t]]
    /\ ghosts' = {t \in ghosts : ~Idle(t)}
    /\ UNCHANGED pending

Tick ==
    /\ lag # None => lag < MaxLag
    /\ age' = [t \in Tun |-> IF age[t] = None THEN None
                             ELSE IF age[t] < MaxAge THEN age[t] + 1 ELSE MaxAge]
    /\ lag' = IF lag = None THEN None ELSE lag + 1
    /\ UNCHANGED <<tunnels, pending, ghosts>>

----------------------------------------------------------------------------
Handle(c, t) ==
    \/ \E ans \in {"ok", "alr-exists"} : OpenTunnel(c, t, ans)
    \/ \E ans \in {"ok", "not-exists"} : CloseTunnel(c, t, ans)
    \/ \E ans \in {"ok", "not-exists", "alr-conn", "only-one"} : ConnTunnel(c, t, ans)
    \/ \E ans \in {"yes", "no"} : CheckExist(c, t, ans)
    \/ \E ans \in {"ok", "not-exists"}, m \in Message : SendBytes(c, t, m, ans)
    \/ \E ans \in {"data", "no-data", "not-exists"}, m \in Message \cup {None} :
         RecvBytes(c, t, m, ans)

Clean == ReadClock \/ Collect \/ Tick

NextTunnels ==
    \/ \E c \in Client, t \in Tun : Handle(c, t)
    \/ \E w \in Worker, t \in Tun : CheckTunnel(w, t)
    \/ \E w \in Worker : CheckPeer(w)
    \/ \E found \in SUBSET Tun : Discovery(found)
    \/ Clean

SpecTunnels == InitTunnels /\ [][NextTunnels]_tunnelVars

\* Time passes, the cleaner wakes up and gets the lock.
FairTunnels ==
    SpecTunnels /\ WF_tunnelVars(Tick) /\ WF_tunnelVars(ReadClock) /\ WF_tunnelVars(Collect)

----------------------------------------------------------------------------
TunnelsTypeOK ==
    /\ tunnels \in [Tun -> Tunnel \cup {None}]
    /\ age \in [Tun -> 0..MaxAge \cup {None}]
    /\ pending \in [Worker -> Tun \cup {None}]
    /\ lag \in 0..MaxLag \cup {None}
    /\ ghosts \subseteq Tun

\* No one is connected to a tunnel of its own, whatever was opened, closed,
\* collected or raised from a stray read before.
NoSelfTunnel == \A t \in Tun :
    Exists(t) /\ tunnels[t].connected => tunnels[t].peer # tunnels[t].author

\* While a tunnel lives, its author stays and its first peer is its only one.
PeerFixed == [][\A t \in Tun :
    Exists(t) /\ Exists(t)' =>
        /\ tunnels'[t].author = tunnels[t].author
        /\ tunnels[t].connected => tunnels'[t].connected /\ tunnels'[t].peer = tunnels[t].peer
    ]_tunnelVars

\* The cleaner knows every tunnel, but for those an unlocked read has raised.
Tracked == \A t \in Tun : Exists(t) /\ age[t] = None => t \in ghosts

\* A close leaves the stamp of its own time, a collection takes it away.
Collected(t) == Exists(t) /\ ~Exists(t)' /\ age'[t] = None

\* Waiting for the lock never makes the cleaner take a tunnel in use.
InUseIsKept == [][\A t \in Tun : Collected(t) => age[t] > Timeout]_tunnelVars

\* A tunnel nobody asks for any more goes away, or is one the cleaner cannot see.
AbandonedIsCollected == \A t \in Tun :
    []<>(~Exists(t) \/ age[t] = 0 \/ (t \in ghosts /\ age[t] = None))

\* serv.hpp:42 calls the cleaner's 300 a timeout of five minutes: a tunnel it
\* takes should have been idle for 300 seconds.
FiveMinutes == [][\A t \in Tun : Collected(t) => age[t] > Timeout * UnitsPerSec]_tunnelVars
=============================================================================
