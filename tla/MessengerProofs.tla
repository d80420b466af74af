-------------------------- MODULE MessengerProofs --------------------------
(***************************************************************************)
(* Proofs about Messenger, for any number of pairs and of messages.  What  *)
(* the cleaner and the timeouts do not touch: the keys that a hello ends   *)
(* with, the order of the messages, and what the mirror stores for a pair; *)
(* and without either that a pair meets on one tunnel.                     *)
(***************************************************************************)
EXTENDS Messenger, TunnelsProofs

Rounds == \A c \in Client :
    /\ phase[c] = "sendMsg" => sent[c] < MaxRounds
    /\ phase[c] \in Meeting \cup Helloing => sent[c] = 0

\* Everyone keeps to the two tunnels of its pair, on the side it came by.
Places == \A c \in Client :
    /\ curr[c] \in {None, Own[c], Own[Peer[c]]}
    /\ opened[c] \subseteq {Own[c]}
    /\ connected[c] \subseteq {Own[Peer[c]]}

\* Who speaks in each queue of d's tunnel.
Voice(d, side) == IF side = "from" THEN d ELSE Peer[d]

Voices == \A d \in Client : Exists(Own[d]) =>
    /\ tunnels[Own[d]].author = d
    /\ \A side \in Side : \A i \in 1..Len(tunnels[Own[d]].queue[side]) :
         tunnels[Own[d]].queue[side][i].from = Voice(d, side)

FromPeer(c, a) == a.load = None \/ a.load.from = Peer[c]

Letters == \A c \in Client : \A i \in 1..Len(mail[c]) : FromPeer(c, mail[c][i])

Keys == \A c \in Client :
    /\ phase[c] = "sendAes" => otherPub[c] \in {Peer[c], Garbage}
    /\ phase[c] \in {"awaitAes", "sendHello", "awaitEcho"} \cup Chatting => otherPub[c] = Peer[c]
    /\ phase[c] \in {"sendHello", "awaitEcho"} \cup Chatting => otherAes[c] = Peer[c]

TalkInv == TypeOK /\ Rounds /\ Places /\ Voices /\ Letters /\ Keys

----------------------------------------------------------------------------
\* The pairs: the partner's partner is oneself, and every tunnel has one owner.
LEMMA Pairs ==
    ASSUME NEW c \in Client
    PROVE  /\ Peer[c] \in Client /\ Peer[c] # c /\ Peer[Peer[c]] = c
           /\ Own[c] \in Tun /\ Own[Peer[c]] \in Tun /\ Own[c] # Own[Peer[c]]
           /\ Own[c] # None /\ Own[Peer[c]] # None
           /\ \A d \in Client : Own[c] = Own[d] => c = d
BY MessengerAssumption, TunnelsAssumption

\* A tunnel that exists is a tunnel, with its owner for author.
LEMMA OwnedTunnel ==
    ASSUME TunnelsTypeOK, Voices, NEW d \in Client, Exists(Own[d])
    PROVE  /\ tunnels[Own[d]] \in Tunnel
           /\ tunnels[Own[d]].author = d
           /\ \A side \in Side : tunnels[Own[d]].queue[side] \in Seq(Message)
BY Pairs DEF TunnelsTypeOK, Exists, Voices, Tunnel

\* Another queue in which the right side speaks.
LEMMA OneQueue ==
    ASSUME TunnelsTypeOK, Voices, NEW d \in Client, NEW side \in Side, NEW q \in Seq(Message),
           Exists(Own[d]), tunnels' = [tunnels EXCEPT ![Own[d]].queue[side] = q],
           \A i \in 1..Len(q) : q[i].from = Voice(d, side)
    PROVE  Voices'
<1>1. tunnels[Own[d]] \in Tunnel /\ Own[d] \in Tun /\ tunnels \in [Tun -> Tunnel \cup {None}]
  BY Pairs, OwnedTunnel DEF TunnelsTypeOK
<1>2. tunnels'[Own[d]] = [tunnels[Own[d]] EXCEPT !.queue[side] = q]
  BY <1>1
<1>3. /\ tunnels'[Own[d]].author = tunnels[Own[d]].author
      /\ tunnels'[Own[d]].queue[side] = q
      /\ \A s \in Side \ {side} : tunnels'[Own[d]].queue[s] = tunnels[Own[d]].queue[s]
  BY <1>1, <1>2 DEF Tunnel
<1>4. \A e \in Client \ {d} : tunnels'[Own[e]] = tunnels[Own[e]]
  BY <1>1, Pairs
<1>5. \A e \in Client \ {d} : Exists(Own[e])' =>
        /\ tunnels'[Own[e]].author = e
        /\ \A s \in Side : \A i \in 1..Len(tunnels'[Own[e]].queue[s]) :
             tunnels'[Own[e]].queue[s][i].from = Voice(e, s)
  BY <1>4 DEF Voices, Exists
<1>6. /\ tunnels'[Own[d]].author = d
      /\ \A s \in Side : \A i \in 1..Len(tunnels'[Own[d]].queue[s]) :
           tunnels'[Own[d]].queue[s][i].from = Voice(d, s)
  BY <1>3 DEF Voices
<1> QED BY <1>5, <1>6 DEF Voices, Voice

\* A tunnel that goes takes its queues with it.
LEMMA Fewer ==
    ASSUME Voices, \A u \in Tun : tunnels'[u] \in {tunnels[u], None}
    PROVE  Voices'
<1>1. \A d \in Client : Own[d] \in Tun
  BY Pairs
<1>2. \A d \in Client : Exists(Own[d])' => tunnels'[Own[d]] = tunnels[Own[d]]
  BY <1>1 DEF Exists
<1> QED BY <1>2 DEF Voices, Voice, Exists

\* The two tunnels c asks for, and the side it speaks on and listens to.
LEMMA SidesOfPair ==
    ASSUME TunnelsTypeOK, Voices, NEW c \in Client, NEW t \in {Own[c], Own[Peer[c]]}, Exists(t)
    PROVE  \E d \in Client :
             /\ t = Own[d]
             /\ Outbox(c, t) \in Side /\ Voice(d, Outbox(c, t)) = c
             /\ Inbox(c, t) \in Side /\ Voice(d, Inbox(c, t)) = Peer[c]
<1>1. CASE t = Own[c]
  BY <1>1, Pairs, OwnedTunnel DEF Outbox, Inbox, Side, Voice
<1>2. CASE t = Own[Peer[c]]
  <2>1. tunnels[t].author = Peer[c] /\ Peer[c] \in Client /\ Peer[c] # c /\ Peer[Peer[c]] = c
    BY <1>2, Pairs, OwnedTunnel
  <2> QED BY <1>2, <2>1 DEF Outbox, Inbox, Side, Voice
<1> QED BY <1>1, <1>2

\* Requests that leave the queues of the other tunnels as they are, and that of
\* t too unless they make or erase it.
LEMMA NoQueue ==
    ASSUME TunnelsTypeOK, Voices, NEW t \in Tun, NEW c \in Client, NEW ans,
           \/ t = Own[c] /\ OpenTunnel(c, t, ans)
           \/ CloseTunnel(c, t, ans)
           \/ ConnTunnel(c, t, ans)
           \/ CheckExist(c, t, ans)
    PROVE  Voices'
<1> USE DEF TunnelsTypeOK, tunnelVars
<1>1. CASE t = Own[c] /\ OpenTunnel(c, t, ans)
  <2>1. CASE tunnels' = tunnels
    BY <2>1 DEF Voices, Voice, Exists
  <2>2. CASE tunnels' = [tunnels EXCEPT ![t] = NewTunnel(c)]
    <3>1. \A d \in Client \ {c} : tunnels'[Own[d]] = tunnels[Own[d]]
      BY <1>1, <2>2, Pairs
    <3>2. tunnels'[Own[c]] = NewTunnel(c)
      BY <1>1, <2>2
    <3>3. /\ NewTunnel(c).author = c
          /\ \A side \in Side : Len(NewTunnel(c).queue[side]) = 0
      BY DEF NewTunnel
    <3> QED BY <3>1, <3>2, <3>3 DEF Voices, Voice, Exists
  <2> QED BY <1>1, <2>1, <2>2 DEF OpenTunnel
<1>2. CASE CloseTunnel(c, t, ans)
  <2>1. \A u \in Tun : tunnels'[u] \in {tunnels[u], None}
    BY <1>2 DEF CloseTunnel, Missing
  <2> QED BY <2>1, Fewer
<1>3. CASE ConnTunnel(c, t, ans)
  <2>1. CASE tunnels' = tunnels
    BY <2>1 DEF Voices, Voice, Exists
  <2>2. CASE Exists(t) /\ tunnels' = [tunnels EXCEPT ![t].connected = TRUE, ![t].peer = c]
    <3>1. tunnels[t] \in Tunnel
      BY <2>2 DEF Exists
    <3>2. tunnels'[t].author = tunnels[t].author /\ tunnels'[t].queue = tunnels[t].queue
      BY <2>2, <3>1 DEF Tunnel
    <3>3. \A u \in Tun \ {t} : tunnels'[u] = tunnels[u]
      BY <2>2
    <3>4. \A d \in Client : Own[d] \in Tun
      BY Pairs
    <3>5. \A d \in Client : Exists(Own[d])' =>
            /\ Exists(Own[d])
            /\ tunnels'[Own[d]].author = tunnels[Own[d]].author
            /\ tunnels'[Own[d]].queue = tunnels[Own[d]].queue
      BY <2>2, <3>2, <3>3, <3>4 DEF Exists
    <3> QED BY <3>5 DEF Voices, Voice
  <2> QED BY <1>3, <2>1, <2>2 DEF ConnTunnel, Missing
<1>4. CASE CheckExist(c, t, ans)
  BY <1>4 DEF CheckExist, Missing, Voices, Voice, Exists
<1> QED BY <1>1, <1>2, <1>3, <1>4

\* What c sends goes where c speaks.
LEMMA SendVoices ==
    ASSUME TunnelsTypeOK, Voices, NEW c \in Client, NEW t \in {Own[c], Own[Peer[c]]},
           NEW m \in Message, m.from = c, NEW ans, SendBytes(c, t, m, ans)
    PROVE  Voices'
<1>1. CASE tunnels' = tunnels
  BY <1>1 DEF Voices, Voice, Exists
<1>2. CASE Exists(t) /\ tunnels' = [tunnels EXCEPT ![t].queue[Outbox(c, t)] = Append(@, m)]
  <2>1. PICK d \in Client : t = Own[d] /\ Outbox(c, t) \in Side /\ Voice(d, Outbox(c, t)) = c
    BY <1>2, SidesOfPair
  <2> DEFINE side == Outbox(c, t)
             old == tunnels[t].queue[side]
             q == Append(old, m)
  <2>2. tunnels[t] \in Tunnel /\ old \in Seq(Message) /\ t \in Tun
    BY <1>2, <2>1, OwnedTunnel, Pairs
  <2>3. \A i \in 1..Len(old) : old[i].from = c
    BY <1>2, <2>1 DEF Voices
  <2>4. q \in Seq(Message) /\ \A i \in 1..Len(q) : q[i].from = c
    <3> HIDE DEF old
    <3> QED BY <2>2, <2>3
  <2>5. tunnels' = [tunnels EXCEPT ![Own[d]].queue[side] = q]
    BY <1>2, <2>1, <2>2 DEF Tunnel, TunnelsTypeOK
  <2>6. /\ side \in Side /\ q \in Seq(Message) /\ Exists(Own[d])
        /\ \A i \in 1..Len(q) : q[i].from = Voice(d, side)
    BY <1>2, <2>1, <2>4
  <2> HIDE DEF q, side
  <2> QED BY <2>5, <2>6, OneQueue
<1> QED BY <1>1, <1>2 DEF SendBytes, Missing, tunnelVars

\* What c receives its partner has said.
LEMMA RecvVoices ==
    ASSUME TunnelsTypeOK, Voices, NEW c \in Client, NEW t \in {Own[c], Own[Peer[c]]},
           NEW m, NEW ans, RecvBytes(c, t, m, ans)
    PROVE  Voices' /\ (m = None \/ m.from = Peer[c])
<1>1. CASE tunnels' = tunnels /\ m = None
  BY <1>1 DEF Voices, Voice, Exists
<1>2. CASE /\ Exists(t) /\ tunnels[t].queue[Inbox(c, t)] # <<>>
           /\ m = Head(tunnels[t].queue[Inbox(c, t)])
           /\ tunnels' = [tunnels EXCEPT ![t].queue[Inbox(c, t)] = Tail(@)]
  <2>1. PICK d \in Client : t = Own[d] /\ Inbox(c, t) \in Side /\ Voice(d, Inbox(c, t)) = Peer[c]
    BY <1>2, SidesOfPair
  <2> DEFINE side == Inbox(c, t)
             old == tunnels[t].queue[side]
             q == Tail(old)
  <2>2. tunnels[t] \in Tunnel /\ old \in Seq(Message) /\ t \in Tun /\ old # <<>>
    BY <1>2, <2>1, OwnedTunnel, Pairs
  <2>3. \A i \in 1..Len(old) : old[i].from = Peer[c]
    BY <1>2, <2>1 DEF Voices
  <2>4. /\ q \in Seq(Message) /\ \A i \in 1..Len(q) : q[i].from = Peer[c]
        /\ Head(old).from = Peer[c]
    <3> HIDE DEF old
    <3> QED BY <2>2, <2>3
  <2>5. tunnels' = [tunnels EXCEPT ![Own[d]].queue[side] = q]
    BY <1>2, <2>1, <2>2 DEF Tunnel, TunnelsTypeOK
  <2>6. /\ side \in Side /\ q \in Seq(Message) /\ Exists(Own[d])
        /\ \A i \in 1..Len(q) : q[i].from = Voice(d, side)
    BY <1>2, <2>1, <2>4
  <2>7. m.from = Peer[c]
    BY <1>2, <2>4
  <2>8. Voices'
    <3> HIDE DEF q, side
    <3> QED BY <2>5, <2>6, OneQueue
  <2> QED BY <2>7, <2>8
<1> QED BY <1>1, <1>2 DEF RecvBytes, Missing, tunnelVars
----------------------------------------------------------------------------
(* A call, its answer and the mail.                                        *)

Delivered == TunnelsTypeOK /\ Voices /\ mail \in [Client -> Seq(Answer)] /\ Letters

\* What a client sends is a payload of its own.
LEMMA OutgoingIsPayload ==
    ASSUME TypeOK, Rounds, NEW c \in Client, phase[c] \in Sending
    PROVE  Outgoing(c) \in Message /\ Outgoing(c).from = c
<1>1. sent[c] \in Nat /\ MaxRounds \in Nat /\ otherPub[c] \in AnyUid \cup {None}
  BY MessengerAssumption DEF TypeOK
<1>2. phase[c] = "sendMsg" => sent[c] + 1 \in 0..MaxRounds
  BY <1>1 DEF Rounds
<1> QED BY <1>1, <1>2, MessengerAssumption, PayloadAssumption DEF Outgoing, Pack, Payload, Sending

\* A list only ever names a tunnel of the pair.
LEMMA UsableIsPair ==
    ASSUME Places, NEW c \in Client, Usable(c)
    PROVE  curr[c] \in {Own[c], Own[Peer[c]]}
BY DEF Places, Usable

\* A payload among the answers to look at is a payload.
LEMMA ReplyIsAnswer ==
    ASSUME TunnelsTypeOK, Voices, Places, NEW c \in Client, NEW b \in Replies(c),
           phase[c] \in Meeting \/ Usable(c)
    PROVE  b \in Answer
<1>1. CASE b.load = None
  BY <1>1 DEF Replies, Answer, Meeting, Awaiting
<1>2. CASE b.load # None
  <2>1. /\ phase[c] \in Awaiting /\ Exists(curr[c]) /\ Inboxed(c) # <<>>
        /\ b \in [text : {"data"}, load : {Head(Inboxed(c))}]
    BY <1>2 DEF Replies
  <2>2. curr[c] \in {Own[c], Own[Peer[c]]}
    BY <2>1, UsableIsPair DEF Meeting, Awaiting
  <2>3. PICK d \in Client : curr[c] = Own[d] /\ Inbox(c, curr[c]) \in Side
    BY <2>1, <2>2, SidesOfPair
  <2>4. Inboxed(c) \in Seq(Message)
    BY <2>1, <2>3, OwnedTunnel DEF Inboxed
  <2>5. Head(Inboxed(c)) \in Payload
    BY <2>1, <2>4, PayloadAssumption
  <2> QED BY <2>1, <2>5 DEF Answer
<1> QED BY <1>1, <1>2

\* A request keeps the mirror in order, and its answer is the partner's word or
\* the mirror's.
LEMMA RequestRun ==
    ASSUME TypeOK, Rounds, Voices, Places, NEW c \in Client, NEW b \in Replies(c), Handled(c, b),
           phase[c] \in Meeting \/ Usable(c)
    PROVE  TunnelsTypeOK' /\ Voices' /\ b \in Answer /\ FromPeer(c, b)
<1>1. TunnelsTypeOK /\ Peer[c] \in Client /\ Own[c] \in Tun /\ Own[Peer[c]] \in Tun
  BY Pairs DEF TypeOK
<1>2. b \in Answer
  BY <1>1, ReplyIsAnswer
<1>3. phase[c] \notin Awaiting => b.load = None
  BY DEF Replies
<1>4. ASSUME NEW t \in {Own[c], Own[Peer[c]]}, phase[c] \in Meeting,
             \/ t = Own[c] /\ OpenTunnel(c, t, b.text)
             \/ CloseTunnel(c, t, b.text)
             \/ ConnTunnel(c, t, b.text)
             \/ CheckExist(c, t, b.text)
      PROVE  TunnelsTypeOK' /\ Voices' /\ FromPeer(c, b)
  <2>1. Handler(c, t, None, b.text)
    BY <1>4 DEF Handler
  <2>2. TunnelsTypeOK'
    BY <1>1, <2>1, HandlerType
  <2>3. Voices'
    BY <1>1, <1>4, NoQueue
  <2> QED BY <1>3, <1>4, <2>2, <2>3 DEF FromPeer, Meeting, Awaiting
<1>5. CASE phase[c] \in Sending /\ SendBytes(c, curr[c], Outgoing(c), b.text)
  <2>1. curr[c] \in {Own[c], Own[Peer[c]]}
    BY <1>5, UsableIsPair DEF Meeting, Sending
  <2>2. Outgoing(c) \in Message /\ Outgoing(c).from = c
    BY <1>5, OutgoingIsPayload
  <2>3. Handler(c, curr[c], Outgoing(c), b.text)
    BY <1>5, <2>2 DEF Handler
  <2>4. TunnelsTypeOK' /\ Voices'
    BY <1>1, <1>5, <2>1, <2>2, <2>3, HandlerType, SendVoices
  <2> QED BY <1>2, <1>3, <1>5, <2>4 DEF FromPeer, Sending, Awaiting
<1>6. CASE phase[c] \in Awaiting /\ RecvBytes(c, curr[c], b.load, b.text)
  <2>1. curr[c] \in {Own[c], Own[Peer[c]]}
    BY <1>6, UsableIsPair DEF Meeting, Awaiting
  <2>2. Handler(c, curr[c], b.load, b.text)
    BY <1>6 DEF Handler
  <2>3. TunnelsTypeOK'
    BY <1>1, <2>1, <2>2, HandlerType
  <2>4. Voices' /\ (b.load = None \/ b.load.from = Peer[c])
    BY <1>1, <1>6, <2>1, RecvVoices
  <2> QED BY <1>2, <2>3, <2>4 DEF FromPeer
<1> QED BY <1>2, <1>4, <1>5, <1>6 DEF Handled, Meeting

\* One more answer in the mail, one less, and the first of them.
LEMMA MailGrows ==
    ASSUME NEW c \in Client, NEW b \in Answer, FromPeer(c, b), Letters, mail \in [Client -> Seq(Answer)]
    PROVE  /\ Unread(c, b) \in Seq(Answer) /\ Unread(c, b) # <<>>
           /\ \A i \in 1..Len(Unread(c, b)) : FromPeer(c, Unread(c, b)[i])
<1>1. mail[c] \in Seq(Answer) /\ \A i \in 1..Len(mail[c]) : FromPeer(c, mail[c][i])
  BY DEF Letters
<1> DEFINE m == mail[c]
<1>2. Append(m, b) # <<>> /\ Append(m, b) \in Seq(Answer)
      /\ \A i \in 1..Len(Append(m, b)) : Append(m, b)[i] = b \/ \E j \in 1..Len(m) : Append(m, b)[i] = m[j]
  <2> HIDE DEF m
  <2>1. m \in Seq(Answer)
    BY <1>1 DEF m
  <2> QED BY <2>1
<1> QED BY <1>1, <1>2 DEF Unread

\* Changing one client's mail.
LEMMA MailChange ==
    ASSUME NEW c \in Client, Letters, mail \in [Client -> Seq(Answer)], NEW q \in Seq(Answer),
           \A i \in 1..Len(q) : FromPeer(c, q[i]), mail' = [mail EXCEPT ![c] = q]
    PROVE  Letters' /\ mail' \in [Client -> Seq(Answer)]
BY DEF Letters, FromPeer

\* A call keeps all of it, and hears the partner's word or the mirror's.
LEMMA CallRun ==
    ASSUME TalkInv, NEW c \in Client, NEW a, Call(c, a), phase[c] \in Meeting \/ Usable(c)
    PROVE  Delivered' /\ a \in Answer /\ FromPeer(c, a)
<1>1. PICK b \in Replies(c) : /\ Handled(c, b)
                              /\ a = Head(Unread(c, b))
                              /\ mail' = [mail EXCEPT ![c] = Tail(Unread(c, b))]
  BY DEF Call
<1>2. TunnelsTypeOK' /\ Voices' /\ b \in Answer /\ FromPeer(c, b)
  BY <1>1, RequestRun DEF TalkInv
<1> DEFINE u == Unread(c, b)
<1>3. u \in Seq(Answer) /\ u # <<>> /\ \A i \in 1..Len(u) : FromPeer(c, u[i])
  BY <1>2, MailGrows DEF TalkInv, TypeOK
<1>4. /\ a \in Answer /\ FromPeer(c, a)
      /\ Tail(u) \in Seq(Answer) /\ \A i \in 1..Len(Tail(u)) : FromPeer(c, Tail(u)[i])
  <2>1. a = Head(u)
    BY <1>1
  <2> HIDE DEF u
  <2> QED BY <1>3, <2>1
<1>5. Letters' /\ mail' \in [Client -> Seq(Answer)]
  BY <1>1, <1>4, MailChange DEF TalkInv, TypeOK
<1> QED BY <1>2, <1>4, <1>5 DEF Delivered

\* send, which calls or does nothing.
LEMMA SentRun ==
    ASSUME TalkInv, NEW c \in Client, Sent(c)
    PROVE  Delivered'
<1>1. CASE Usable(c)
  BY <1>1, CallRun DEF Sent
<1>2. CASE UNCHANGED <<tunnelVars, mail>>
  BY <1>2 DEF TalkInv, TypeOK, TunnelsTypeOK, tunnelVars, Delivered, Letters, FromPeer, Voices,
              Voice, Exists
<1> QED BY <1>1, <1>2 DEF Sent
----------------------------------------------------------------------------
(* The steps keep the invariant.                                           *)

Lists == /\ phase \in [Client -> Meeting \cup Helloing \cup Chatting \cup {"failed", "spinning"}]
         /\ stopped \in [Client -> SUBSET {"askOther", "askMine"}]
         /\ curr \in [Client -> Tun \cup {None}]
         /\ opened \in [Client -> SUBSET Tun]
         /\ connected \in [Client -> SUBSET Tun]

Words == /\ otherPub \in [Client -> AnyUid \cup {None}]
         /\ otherAes \in [Client -> Client \cup {None}]
         /\ sent \in [Client -> 0..MaxRounds]
         /\ got \in [Client -> 0..MaxRounds]

\* The invariant, sorted by what a step changes.
LEMMA Sorted ==
    /\ TalkInv => Delivered /\ Lists /\ Words /\ Rounds /\ Places /\ Keys
    /\ Delivered' /\ Lists' /\ Words' /\ Rounds' /\ Places' /\ Keys' => TalkInv'
BY DEF TalkInv, TypeOK, Delivered, Lists, Words

\* Opening, looking, closing, connecting.
LEMMA MeetTalk ==
    ASSUME TalkInv, NEW c \in Client, Meet(c)
    PROVE  TalkInv'
<1>1. /\ Lists /\ Words /\ Rounds /\ Places /\ Keys
      /\ Own[c] \in Tun /\ Own[Peer[c]] \in Tun
  BY Sorted, Pairs
<1>2. phase[c] \in Meeting /\ \E a \in Heard(c) : Call(c, a)
  BY DEF Meet, Create, AskOther, CloseMine, Connect, AskMine, Meeting
<1>3. Delivered'
  BY <1>2, CallRun
<1>4. phase' \in {[phase EXCEPT ![c] = p] : p \in (Meeting \ {"start"}) \cup {"sendKey", "failed"}}
  BY DEF Meet, Create, AskOther, CloseMine, Connect, AskMine, Meeting, Goto, FirstAsk
<1>5. UNCHANGED <<talkVars, stopped>>
  BY DEF Meet, Create, AskOther, CloseMine, Connect, AskMine
<1>6. /\ Words' /\ Rounds' /\ Keys'
  BY <1>1, <1>2, <1>4, <1>5
     DEF Lists, Words, Rounds, Keys, talkVars, Meeting, Helloing, Chatting
<1>7. /\ curr' \in {curr, [curr EXCEPT ![c] = Own[c]], [curr EXCEPT ![c] = Own[Peer[c]]]}
      /\ opened' \in {opened, [opened EXCEPT ![c] = @ \cup {Own[c]}], [opened EXCEPT ![c] = @ \ {Own[c]}],
                       [opened EXCEPT ![c] = @]}
      /\ connected' \in {connected, [connected EXCEPT ![c] = @ \cup {Own[Peer[c]]}]}
  BY DEF Meet, Create, AskOther, CloseMine, Connect, AskMine, Listing, pairVars
<1>8. Lists' /\ Places'
  <2>1. /\ curr' \in [Client -> Tun \cup {None}]
        /\ \A d \in Client : curr'[d] \in {None, Own[d], Own[Peer[d]]}
    BY <1>1, <1>7 DEF Lists, Places
  <2>2. opened' \in [Client -> SUBSET Tun] /\ \A d \in Client : opened'[d] \subseteq {Own[d]}
    BY <1>1, <1>7 DEF Lists, Places
  <2>3. connected' \in [Client -> SUBSET Tun] /\ \A d \in Client : connected'[d] \subseteq {Own[Peer[d]]}
    BY <1>1, <1>7 DEF Lists, Places
  <2>4. phase' \in [Client -> Meeting \cup Helloing \cup Chatting \cup {"failed", "spinning"}]
    BY <1>1, <1>4 DEF Lists, Helloing
  <2> QED BY <1>1, <1>5, <2>1, <2>2, <2>3, <2>4 DEF Lists, Places
<1> QED BY <1>3, <1>6, <1>8, Sorted

\* The hello: a payload comes from the partner, so the key it holds does too.
LEMMA HelloTalk ==
    ASSUME TalkInv, NEW c \in Client, Hello(c)
    PROVE  TalkInv'
<1>1. Lists /\ Words /\ Rounds /\ Places /\ Keys /\ Peer[c] \in Client
  BY Sorted, Pairs
<1> USE DEF Words, Rounds, Keys, Goto, talkVars, Meeting, Helloing, Chatting
<1>2. CASE SendKey(c)
  <2>1. Delivered'
    BY <1>2, SentRun DEF SendKey
  <2>2. Words' /\ Rounds' /\ Keys'
    BY <1>1, <1>2 DEF SendKey, Lists
  <2>3. Lists' /\ Places'
    BY <1>1, <1>2 DEF SendKey, Lists, Places, pairVars
  <2> QED BY <2>1, <2>2, <2>3, Sorted
<1>3. CASE AwaitKey(c)
  <2>1. PICK a \in Heard(c) : Received(c, a) /\ phase[c] = "awaitKey"
           /\ \E d \in AnyUid :
                /\ otherPub' = [otherPub EXCEPT ![c] = d]
                /\ Is(a, "pub", d) \/ (d = Garbage /\ \A e \in Client : ~Is(a, "pub", e))
    BY <1>3 DEF AwaitKey
  <2>2. PICK d \in AnyUid :
          /\ otherPub' = [otherPub EXCEPT ![c] = d]
          /\ Is(a, "pub", d) \/ d = Garbage
    BY <2>1
  <2>3. Delivered' /\ FromPeer(c, a)
    BY <2>1, CallRun DEF Received
  <2>4. d \in {Peer[c], Garbage}
    BY <2>2, <2>3 DEF FromPeer, Is
  <2>5. Words' /\ Rounds' /\ Keys'
    BY <1>1, <1>3, <2>1, <2>2, <2>4 DEF AwaitKey, Lists
  <2>6. Lists' /\ Places'
    BY <1>1, <1>3 DEF AwaitKey, Lists, Places, pairVars
  <2> QED BY <2>3, <2>5, <2>6, Sorted
<1>4. CASE SendAes(c)
  <2>1. Delivered'
    <3>1. CASE Sent(c)
      BY <3>1, SentRun
    <3>2. CASE UNCHANGED <<tunnelVars, mail>>
      BY <3>2 DEF TalkInv, TypeOK, TunnelsTypeOK, tunnelVars, Delivered, Letters, FromPeer, Voices,
                  Voice, Exists
    <3> QED BY <1>4, <3>1, <3>2 DEF SendAes
  <2>2. Words' /\ Rounds' /\ Keys'
    BY <1>1, <1>4 DEF SendAes, Lists, Keyless
  <2>3. Lists' /\ Places'
    BY <1>1, <1>4 DEF SendAes, Lists, Places, pairVars
  <2> QED BY <2>1, <2>2, <2>3, Sorted
<1>5. CASE AwaitAes(c)
  <2>1. PICK a \in Heard(c) : /\ Received(c, a) /\ phase[c] = "awaitAes"
           /\ \/ \E d \in Client :
                   /\ Is(a, "aes", d)
                   /\ otherAes' = [otherAes EXCEPT ![c] = d]
                   /\ Goto(c, "sendHello")
              \/ Goto(c, "failed") /\ UNCHANGED otherAes
    BY <1>5 DEF AwaitAes
  <2>2. Delivered' /\ FromPeer(c, a)
    BY <2>1, CallRun DEF Received
  <2>3. UNCHANGED <<pairVars, otherPub, sent, got, stopped>>
    BY <1>5 DEF AwaitAes
  <2>4. CASE Goto(c, "failed") /\ UNCHANGED otherAes
    <3>1. Words' /\ Rounds' /\ Keys'
      BY <1>1, <2>3, <2>4 DEF Lists
    <3>2. Lists' /\ Places'
      BY <1>1, <2>3, <2>4 DEF Lists, Places, pairVars
    <3> QED BY <2>2, <3>1, <3>2, Sorted
  <2>5. ASSUME NEW d \in Client, Is(a, "aes", d), otherAes' = [otherAes EXCEPT ![c] = d],
               Goto(c, "sendHello")
        PROVE  TalkInv'
    <3>1. d = Peer[c]
      BY <2>2, <2>5 DEF FromPeer, Is
    <3>2. Words' /\ Rounds' /\ Keys'
      BY <1>1, <2>1, <2>3, <2>5, <3>1 DEF Lists
    <3>3. Lists' /\ Places'
      BY <1>1, <2>3, <2>5 DEF Lists, Places, pairVars
    <3> QED BY <2>2, <3>2, <3>3, Sorted
  <2> QED BY <2>1, <2>4, <2>5
<1>6. CASE SendHello(c)
  <2>1. Delivered'
    BY <1>6, SentRun DEF SendHello
  <2>2. Words' /\ Rounds' /\ Keys'
    BY <1>1, <1>6 DEF SendHello, Lists
  <2>3. Lists' /\ Places'
    BY <1>1, <1>6 DEF SendHello, Lists, Places, pairVars
  <2> QED BY <2>1, <2>2, <2>3, Sorted
<1>7. CASE AwaitEcho(c)
  <2>1. Delivered'
    BY <1>7, CallRun DEF AwaitEcho, Received
  <2>2. Words' /\ Rounds' /\ Keys'
    BY <1>1, <1>7, MessengerAssumption DEF AwaitEcho, Lists
  <2>3. Lists' /\ Places'
    BY <1>1, <1>7 DEF AwaitEcho, Lists, Places, pairVars
  <2> QED BY <2>1, <2>2, <2>3, Sorted
<1> QED BY <1>2, <1>3, <1>4, <1>5, <1>6, <1>7 DEF Hello

\* The messages.
LEMMA ChatTalk ==
    ASSUME TalkInv, NEW c \in Client, Chat(c) \/ Poll(c)
    PROVE  TalkInv'
<1>1. Lists /\ Words /\ Rounds /\ Places /\ Keys
  BY Sorted
<1> USE DEF Words, Rounds, Keys, Goto, talkVars, Meeting, Helloing, Chatting
<1>2. CASE SendMsg(c)
  <2>1. Delivered'
    BY <1>2, SentRun DEF SendMsg
  <2>2. Words' /\ Rounds' /\ Keys'
    BY <1>1, <1>2, MessengerAssumption DEF SendMsg, Lists
  <2>3. Lists' /\ Places'
    BY <1>1, <1>2 DEF SendMsg, Lists, Places, pairVars
  <2> QED BY <2>1, <2>2, <2>3, Sorted
<1>3. CASE AwaitMsg(c)
  <2>1. PICK a \in Heard(c) : Received(c, a) /\ phase[c] = "awaitMsg"
           /\ \/ Is(a, "msg", otherAes[c]) /\ got' = [got EXCEPT ![c] = a.load.n]
                 /\ Goto(c, IF More(c) THEN "sendMsg" ELSE "done")
              \/ UNCHANGED got /\ Goto(c, "failed")
    BY <1>3 DEF AwaitMsg
  <2>2. Delivered' /\ a \in Answer
    BY <2>1, CallRun DEF Received
  <2>3. Is(a, "msg", otherAes[c]) => a.load.n \in 0..MaxRounds
    BY <2>2 DEF Is, Answer, Payload
  <2>4. UNCHANGED <<pairVars, otherPub, otherAes, sent, stopped>>
    BY <1>3 DEF AwaitMsg
  <2>5. Words' /\ Rounds' /\ Keys'
    BY <1>1, <2>1, <2>3, <2>4, MessengerAssumption DEF Lists, More
  <2>6. Lists' /\ Places'
    BY <1>1, <2>1, <2>4 DEF Lists, Places, pairVars
  <2> QED BY <2>2, <2>5, <2>6, Sorted
<1>4. CASE Poll(c)
  <2>1. Delivered'
    BY <1>4, CallRun DEF Poll
  <2>2. Words' /\ Rounds' /\ Keys'
    BY <1>1, <1>4 DEF Poll, Lists
  <2>3. Lists' /\ Places'
    <3>1. CASE Goto(c, "failed")
      BY <1>1, <1>4, <3>1 DEF Poll, Lists, Places, pairVars
    <3>2. CASE UNCHANGED phase
      BY <1>1, <1>4, <3>2 DEF Poll, Lists, Places, pairVars
    <3> QED BY <1>4, <3>1, <3>2 DEF Poll
  <2> QED BY <2>1, <2>2, <2>3, Sorted
<1> QED BY <1>2, <1>3, <1>4 DEF Chat
\* A timeout: the request was lost or run, its answer lost or late.
LEMMA TimeOutTalk ==
    ASSUME TalkInv, NEW c \in Client, TimeOut(c)
    PROVE  TalkInv'
<1>1. /\ Lists /\ Words /\ Rounds /\ Places /\ Keys
      /\ Own[c] \in Tun
  BY Sorted, Pairs
<1>2. Delivered'
  <2>1. CASE UNCHANGED <<tunnelVars, mail>>
    BY <2>1 DEF TalkInv, TypeOK, TunnelsTypeOK, tunnelVars, Delivered, Letters, FromPeer, Voices,
                Voice, Exists
  <2>2. ASSUME NEW b \in Replies(c), Handled(c, b),
               mail' \in {mail, [mail EXCEPT ![c] = Append(@, b)]}
        PROVE  Delivered'
    <3>1. TunnelsTypeOK' /\ Voices' /\ b \in Answer /\ FromPeer(c, b)
      BY <2>2, RequestRun DEF TalkInv, TimeOut
    <3>2. CASE mail' = mail
      BY <3>1, <3>2 DEF Delivered, TalkInv, TypeOK, Letters, FromPeer
    <3>3. CASE mail' = [mail EXCEPT ![c] = Append(@, b)]
      <4> DEFINE u == Unread(c, b)
      <4>1. u \in Seq(Answer) /\ \A i \in 1..Len(u) : FromPeer(c, u[i])
        BY <3>1, MailGrows DEF TalkInv, TypeOK
      <4>2. mail' = [mail EXCEPT ![c] = u]
        BY <3>3 DEF Unread
      <4>3. Letters' /\ mail' \in [Client -> Seq(Answer)]
        <5> HIDE DEF u
        <5> QED BY <4>1, <4>2, MailChange DEF TalkInv, TypeOK
      <4> QED BY <3>1, <4>3 DEF Delivered
    <3> QED BY <2>2, <3>2, <3>3
  <2> QED BY <2>1, <2>2 DEF TimeOut
<1>3. /\ phase' \in {[phase EXCEPT ![c] = p] : p \in {"askOther", "askMine", "spinning", "failed"}}
      /\ stopped' \in {stopped, [stopped EXCEPT ![c] = @ \cup {"askOther"}],
                        [stopped EXCEPT ![c] = @ \cup {"askMine"}]}
      /\ UNCHANGED <<curr, connected, talkVars>>
      /\ phase[c] \in Meeting \/ phase'[c] = "failed"
  <2>1. CASE Stop(c, "askOther") /\ phase[c] \in Meeting
    BY <2>1 DEF Stop, Goto, TimeOut
  <2>2. CASE Stop(c, "askMine") /\ phase[c] \in Meeting
    BY <2>2 DEF Stop, Goto, TimeOut
  <2>3. CASE Goto(c, "failed") /\ UNCHANGED stopped
    BY <1>1, <2>3 DEF Goto, TimeOut, Lists
  <2> QED BY <2>1, <2>2, <2>3 DEF TimeOut, Meeting
<1>4. opened' \in [Client -> SUBSET Tun] /\ \A d \in Client : opened'[d] \subseteq {Own[d]}
  BY <1>1 DEF TimeOut, Listing, Lists, Places
<1>5. Lists' /\ Places'
  BY <1>1, <1>3, <1>4 DEF Lists, Places, Meeting
<1>6. Words' /\ Rounds' /\ Keys'
  BY <1>1, <1>3 DEF Lists, Words, Rounds, Keys, talkVars, Meeting, Helloing, Chatting
<1> QED BY <1>2, <1>5, <1>6, Sorted

\* The cleaner takes tunnels, and nothing else.
LEMMA CleanTalk ==
    ASSUME TalkInv, Clean, UNCHANGED <<phase, pairVars, talkVars, waitVars>>
    PROVE  TalkInv'
<1>1. TunnelsTypeOK /\ Voices
  BY DEF TalkInv, TypeOK
<1>2. TunnelsTypeOK'
  BY <1>1, TunnelsStepType DEF NextTunnels
<1>3. \A u \in Tun : tunnels'[u] \in {tunnels[u], None}
  BY <1>1 DEF Clean, ReadClock, Collect, Tick, TunnelsTypeOK
<1>4. Voices'
  BY <1>1, <1>3, Fewer
<1> QED BY <1>2, <1>4 DEF TalkInv, TypeOK, Rounds, Places, Letters, FromPeer, Keys, pairVars,
                         talkVars, waitVars

\* The invariant of the conversation is inductive.
LEMMA TalkInit == Init => TalkInv
<1> SUFFICES ASSUME Init PROVE TalkInv
  OBVIOUS
<1>1. TunnelsTypeOK
  BY TunnelsAssumption DEF Init, InitTunnels, TunnelsTypeOK
<1>2. Voices
  BY MessengerAssumption DEF Init, InitTunnels, Voices, Exists
<1>3. mail \in [Client -> Seq(Answer)] /\ Letters
  BY DEF Init, Letters
<1>4. Lists /\ Words /\ Rounds /\ Places /\ Keys
  BY MessengerAssumption DEF Init, Lists, Words, Rounds, Places, Keys, Meeting, Helloing, Chatting
<1> QED BY <1>1, <1>2, <1>3, <1>4 DEF TalkInv, TypeOK, Lists, Words

\* No step of a client or of the cleaner breaks it.
LEMMA TalkStep == TalkInv /\ [Next]_vars => TalkInv'
<1> SUFFICES ASSUME TalkInv, [Next]_vars PROVE TalkInv'
  OBVIOUS
<1>1. ASSUME NEW c \in Client, ClientStep(c) \/ TimeOut(c)
      PROVE  TalkInv'
  BY <1>1, MeetTalk, HelloTalk, ChatTalk, TimeOutTalk DEF ClientStep
<1>2. CASE Reaping /\ Clean /\ UNCHANGED <<phase, pairVars, talkVars, waitVars>>
  BY <1>2, CleanTalk
<1>3. CASE UNCHANGED vars
  <2>1. UNCHANGED tunnelVars /\ UNCHANGED <<phase, pairVars, talkVars, waitVars>>
    BY <1>3 DEF vars
  <2> QED BY <2>1 DEF TalkInv, TypeOK, TunnelsTypeOK, tunnelVars, Voices, Voice, Exists, Rounds,
                      Places, Letters, FromPeer, Keys, pairVars, talkVars, waitVars
<1> QED BY <1>1, <1>2, <1>3 DEF Next

\* The invariant of the conversation holds in every reachable state.
THEOREM TalkInvariant == Spec => []TalkInv
BY TalkInit, TalkStep, PTL DEF Spec

\* Type correctness, the mirror and the mail included.
THEOREM MessengerTypeCorrect == Spec => []TypeOK
<1>1. TalkInv => TypeOK
  BY DEF TalkInv
<1> QED BY <1>1, TalkInvariant, PTL

\* Who got through the hello holds the other's keys: an answer that came late,
\* a request that ran without one and a tunnel that was taken away do not matter.
THEOREM HellosAgree == Spec => []HelloAgreement
<1>1. TalkInv => HelloAgreement
  BY DEF TalkInv, Keys, HelloAgreement
<1> QED BY <1>1, TalkInvariant, PTL
----------------------------------------------------------------------------
(* What the mirror promises holds for the messengers.                      *)

\* A step of the mirror that only handlers and the cleaner can take.
Served == NextTunnels /\ ghosts' \subseteq ghosts

\* A request is one of the mirror's handlers.
LEMMA RequestIsServed ==
    ASSUME TalkInv, NEW c \in Client, NEW b, Handled(c, b), phase[c] \in Meeting \/ Usable(c)
    PROVE  Served
<1>1. TunnelsTypeOK /\ Own[c] \in Tun /\ Own[Peer[c]] \in Tun
  BY Pairs DEF TalkInv, TypeOK
<1>2. ASSUME NEW t \in Tun, NEW m, Handler(c, t, m, b.text)
      PROVE  Served
  BY <1>1, <1>2, HandlerStep, NoNewGhost DEF Served
<1>3. phase[c] \notin Meeting => curr[c] \in Tun
  BY <1>1, UsableIsPair DEF TalkInv
<1>4. CASE phase[c] \in Meeting
  <2>1. PICK t \in Tun : \/ OpenTunnel(c, t, b.text) \/ CloseTunnel(c, t, b.text)
                         \/ ConnTunnel(c, t, b.text) \/ CheckExist(c, t, b.text)
    BY <1>1, <1>4 DEF Handled, Meeting, Sending, Awaiting
  <2>2. Handler(c, t, None, b.text)
    BY <2>1 DEF Handler
  <2> QED BY <1>2, <2>2
<1>5. CASE phase[c] \in Sending /\ SendBytes(c, curr[c], Outgoing(c), b.text)
  <2>1. Outgoing(c) \in Message
    BY <1>5, OutgoingIsPayload DEF TalkInv
  <2>2. Handler(c, curr[c], Outgoing(c), b.text)
    BY <1>5, <2>1 DEF Handler
  <2> QED BY <1>2, <1>3, <1>5, <2>2 DEF Meeting, Sending
<1>6. CASE phase[c] \in Awaiting /\ RecvBytes(c, curr[c], b.load, b.text)
  <2>1. Handler(c, curr[c], b.load, b.text)
    BY <1>6 DEF Handler
  <2> QED BY <1>2, <1>3, <1>6, <2>1 DEF Meeting, Awaiting
<1> QED BY <1>4, <1>5, <1>6 DEF Handled, Meeting

\* A call runs a request.
LEMMA CallIsServed ==
    ASSUME TalkInv, NEW c \in Client, NEW a, Call(c, a), phase[c] \in Meeting \/ Usable(c)
    PROVE  Served
BY RequestIsServed DEF Call

\* To the mirror a step of the messengers is one of its own or none at all.
LEMMA TalkIsServed ==
    ASSUME TalkInv, [Next]_vars
    PROVE  Served \/ UNCHANGED tunnelVars
<1>1. ASSUME NEW c \in Client, Sent(c)
      PROVE  Served \/ UNCHANGED tunnelVars
  <2>1. CASE Usable(c)
    <3>1. PICK a \in Heard(c) : Call(c, a)
      BY <1>1, <2>1 DEF Sent
    <3> QED BY <2>1, <3>1, CallIsServed
  <2>2. CASE ~Usable(c)
    BY <1>1, <2>2 DEF Sent, tunnelVars
  <2> QED BY <2>1, <2>2
<1>2. ASSUME NEW c \in Client, Meet(c)
      PROVE  Served
  BY <1>2, CallIsServed DEF Meet, Create, AskOther, CloseMine, Connect, AskMine, Meeting
<1>3. ASSUME NEW c \in Client, Hello(c) \/ Chat(c) \/ Poll(c)
      PROVE  Served \/ UNCHANGED tunnelVars
  <2>1. CASE SendKey(c) \/ SendAes(c) \/ SendHello(c) \/ SendMsg(c)
    BY <1>1, <2>1 DEF SendKey, SendAes, SendHello, SendMsg, tunnelVars
  <2>2. CASE AwaitKey(c) \/ AwaitAes(c) \/ AwaitEcho(c) \/ AwaitMsg(c) \/ Poll(c)
    <3>1. PICK a : Call(c, a) /\ Usable(c)
      BY <2>2 DEF AwaitKey, AwaitAes, AwaitEcho, AwaitMsg, Poll, Received
    <3> QED BY <3>1, CallIsServed
  <2> QED BY <1>3, <2>1, <2>2 DEF Hello, Chat
<1>4. ASSUME NEW c \in Client, TimeOut(c)
      PROVE  Served \/ UNCHANGED tunnelVars
  <2>1. CASE \E b \in Replies(c) : Handled(c, b)
    BY <1>4, <2>1, RequestIsServed DEF TimeOut
  <2>2. CASE UNCHANGED <<tunnelVars, mail>>
    BY <2>2
  <2> QED BY <1>4, <2>1, <2>2 DEF TimeOut
<1>5. CASE Clean
  BY <1>5, NoNewGhost DEF Served, NextTunnels
<1>6. CASE UNCHANGED vars
  BY <1>6 DEF vars
<1> QED BY <1>2, <1>3, <1>4, <1>5, <1>6 DEF Next, ClientStep

\* The messengers run the mirror of Tunnels and nothing else: a request whose
\* answer was late or lost, or a collection meanwhile, changes no tunnel in a way
\* that the mirror alone would not.
THEOREM MessengersRunTheMirror == Spec => SpecTunnels
<1>1. Init => InitTunnels
  BY DEF Init
<1>2. TalkInv /\ [Next]_vars => [NextTunnels]_tunnelVars
  BY TalkIsServed DEF Served
<1> QED BY <1>1, <1>2, TalkInvariant, PTL DEF Spec, SpecTunnels

\* So no messenger, on whichever tunnel a late answer has put it, is its own peer
\* there, the one who came first stays, and the cleaner takes no tunnel in use.
COROLLARY MessengersKeepTheMirror == Spec => []NoSelfTunnel /\ PeerFixed /\ InUseIsKept
BY MessengersRunTheMirror, NobodyTalksToItself, FirstPeerStays, TunnelInUseStays, PTL

\* The cleaner sees every tunnel there is: what no one asks for any more will not
\* escape it for want of a stamp, as long as no program serves check_tunnel.
EveryTunnelIsSeen == \A t \in Tun : Exists(t) => age[t] # None

THEOREM MessengersLeaveNoGhost == Spec => []EveryTunnelIsSeen
<1>1. Init => ghosts = {}
  BY DEF Init, InitTunnels
<1>2. TalkInv /\ ghosts = {} /\ [Next]_vars => (ghosts = {})'
  BY TalkIsServed DEF Served, tunnelVars
<1>3. Tracked /\ ghosts = {} => EveryTunnelIsSeen
  BY DEF Tracked, EveryTunnelIsSeen
<1>4. Spec => [](ghosts = {})
  BY <1>1, <1>2, TalkInvariant, PTL DEF Spec
<1> QED BY <1>3, <1>4, MessengersRunTheMirror, CleanerKnows, PTL

----------------------------------------------------------------------------
(* Meeting, without timeouts and without the cleaner.                      *)

\* c looks for its own tunnel, or has found it.
Looked(c) == phase[c] = "askMine" \/ curr[c] = Own[c]

\* A tunnel is there while its owner may come to stay in it.
Kept == \A c \in Client :
    /\ phase[c] \in {"askOther", "closeMine"} \/ Looked(c) => Exists(Own[c])
    /\ phase[c] \in Meeting => curr[c] = None

\* Without timeouts no answer is left unread.
NothingLate == \A c \in Client : mail[c] = <<>> /\ stopped[c] = {}

OneLooked == \A c \in Client : ~(Looked(c) /\ Looked(Peer[c]))

MeetInv == NothingLate /\ Kept /\ OneLooked

\* Every request but a close leaves the tunnels that are there.
LEMMA RequestKeeps ==
    ASSUME TunnelsTypeOK, NEW c \in Client, NEW t \in Tun, NEW m, NEW ans,
           \/ OpenTunnel(c, t, ans)
           \/ ConnTunnel(c, t, ans)
           \/ CheckExist(c, t, ans)
           \/ m \in Message /\ SendBytes(c, t, m, ans)
           \/ RecvBytes(c, t, m, ans),
           NEW u \in Tun, Exists(u)
    PROVE  Exists(u)'
<1> USE PayloadAssumption DEF TunnelsTypeOK, tunnelVars
<1>1. CASE OpenTunnel(c, t, ans)
  BY <1>1 DEF OpenTunnel, Exists
<1>2. CASE ConnTunnel(c, t, ans)
  <2>1. CASE Exists(t) /\ tunnels' = [tunnels EXCEPT ![t].connected = TRUE, ![t].peer = c]
    <3>1. tunnels[t] \in Tunnel
      BY <2>1 DEF Exists
    <3>2. [tunnels[t] EXCEPT !.connected = TRUE, !.peer = c] \in Tunnel
      BY <3>1 DEF Tunnel, AnyUid
    <3>3. \A v \in Tun : tunnels'[v] = tunnels[v] \/ tunnels'[v] \in Tunnel
      BY <2>1, <3>2
    <3> QED BY <3>3 DEF Exists
  <2> QED BY <1>2, <2>1 DEF ConnTunnel, Missing, Exists
<1>3. CASE CheckExist(c, t, ans)
  BY <1>3 DEF CheckExist, Missing, Exists
<1>4. ASSUME Exists(t), NEW side \in Side, NEW q \in Seq(Message),
             tunnels' = [tunnels EXCEPT ![t].queue[side] = q]
      PROVE  Exists(u)'
  <2>1. tunnels[t] \in Tunnel
    BY <1>4 DEF Exists
  <2>2. [tunnels[t] EXCEPT !.queue[side] = q] \in Tunnel
    BY <1>4, <2>1, QueueChange
  <2>3. \A v \in Tun : tunnels'[v] = tunnels[v] \/ tunnels'[v] \in Tunnel
    BY <1>4, <2>2
  <2> QED BY <2>3 DEF Exists
<1>5. Exists(t) => \A side \in Side : tunnels[t].queue[side] \in Seq(Message)
  BY DEF Exists, Tunnel
<1>6. CASE m \in Message /\ SendBytes(c, t, m, ans)
  <2>1. CASE Exists(t) /\ tunnels' = [tunnels EXCEPT ![t].queue[Outbox(c, t)] = Append(@, m)]
    <3> DEFINE q == Append(tunnels[t].queue[Outbox(c, t)], m)
    <3>1. Outbox(c, t) \in Side /\ tunnels[t] \in Tunnel
      BY <2>1 DEF Exists, Outbox, Side
    <3>2. q \in Seq(Message)
      BY <1>5, <1>6, <2>1, <3>1
    <3>3. tunnels' = [tunnels EXCEPT ![t].queue[Outbox(c, t)] = q]
      BY <2>1, <3>1 DEF Tunnel
    <3> HIDE DEF q
    <3> QED BY <1>4, <2>1, <3>1, <3>2, <3>3
  <2> QED BY <1>6, <2>1 DEF SendBytes, Missing, Exists
<1>7. CASE RecvBytes(c, t, m, ans)
  <2>1. CASE /\ Exists(t) /\ tunnels[t].queue[Inbox(c, t)] # <<>>
             /\ tunnels' = [tunnels EXCEPT ![t].queue[Inbox(c, t)] = Tail(@)]
    <3> DEFINE q == Tail(tunnels[t].queue[Inbox(c, t)])
    <3>1. Inbox(c, t) \in Side /\ tunnels[t] \in Tunnel
      BY <2>1 DEF Exists, Inbox, Side
    <3>2. q \in Seq(Message)
      BY <1>5, <2>1, <3>1
    <3>3. tunnels' = [tunnels EXCEPT ![t].queue[Inbox(c, t)] = q]
      BY <2>1, <3>1 DEF Tunnel
    <3> HIDE DEF q
    <3> QED BY <1>4, <2>1, <3>1, <3>2, <3>3
  <2> QED BY <1>7, <2>1 DEF RecvBytes, Missing, Exists
<1> QED BY <1>1, <1>2, <1>3, <1>6, <1>7

\* With nothing unread a call hears the answer of its own request, and takes
\* no tunnel away unless it closes its own.
LEMMA QuietCall ==
    ASSUME TalkInv, NothingLate, NEW c \in Client, NEW a, Call(c, a),
           phase[c] \in Meeting \/ Usable(c)
    PROVE  /\ a \in Replies(c) /\ Handled(c, a)
           /\ mail' = mail
           /\ \A d \in Client : Exists(Own[d]) /\ ~(d = c /\ phase[c] = "closeMine") => Exists(Own[d])'
<1>1. PICK b \in Replies(c) : /\ Handled(c, b)
                              /\ a = Head(Unread(c, b))
                              /\ mail' = [mail EXCEPT ![c] = Tail(Unread(c, b))]
  BY DEF Call
<1>2. Head(Unread(c, b)) = b /\ Tail(Unread(c, b)) = <<>>
  BY DEF NothingLate, Unread
<1>3. a = b /\ mail' = mail
  BY <1>1, <1>2 DEF NothingLate, TalkInv, TypeOK
<1>4. ASSUME NEW d \in Client, Exists(Own[d]), ~(d = c /\ phase[c] = "closeMine")
      PROVE  Exists(Own[d])'
  <2>1. TunnelsTypeOK /\ Own[d] \in Tun /\ Own[c] \in Tun /\ Own[Peer[c]] \in Tun
    BY Pairs DEF TalkInv, TypeOK
  <2>2. CASE phase[c] = "closeMine" /\ CloseTunnel(c, Own[c], b.text)
    BY <1>4, <2>1, <2>2, Pairs DEF CloseTunnel, Missing, Exists, TunnelsTypeOK, tunnelVars
  <2>3. CASE phase[c] \in Sending /\ SendBytes(c, curr[c], Outgoing(c), b.text)
    <3>1. curr[c] \in {Own[c], Own[Peer[c]]}
      BY <2>3, UsableIsPair DEF Meeting, Sending, TalkInv
    <3>2. Outgoing(c) \in Message
      BY <2>3, OutgoingIsPayload DEF TalkInv
    <3> QED BY <1>4, <2>1, <2>3, <3>1, <3>2, RequestKeeps
  <2>4. CASE phase[c] \in Awaiting /\ RecvBytes(c, curr[c], b.load, b.text)
    <3>1. curr[c] \in {Own[c], Own[Peer[c]]}
      BY <2>4, UsableIsPair DEF Meeting, Awaiting, TalkInv
    <3> QED BY <1>4, <2>1, <2>4, <3>1, RequestKeeps
  <2> QED BY <1>1, <1>4, <2>1, <2>2, <2>3, <2>4, RequestKeeps DEF Handled
<1> QED BY <1>1, <1>3, <1>4
\* What the steps of a pair that has met leave alone.
LEMMA MetSteps ==
    ASSUME TalkInv, NothingLate, NEW c \in Client, Hello(c) \/ Chat(c) \/ Poll(c)
    PROVE  /\ phase[c] \in Helloing \cup Chatting
           /\ phase' \in {[phase EXCEPT ![c] = p] : p \in Helloing \cup Chatting \cup {"failed"}}
           /\ UNCHANGED <<curr, stopped, mail>>
           /\ \A d \in Client : Exists(Own[d]) => Exists(Own[d])'
<1>1. phase \in [Client -> Meeting \cup Helloing \cup Chatting \cup {"failed", "spinning"}]
  BY DEF TalkInv, TypeOK
<1>2. /\ phase[c] \in Helloing \cup Chatting
      /\ phase' \in {[phase EXCEPT ![c] = p] : p \in Helloing \cup Chatting \cup {"failed"}}
      /\ UNCHANGED <<curr, stopped>>
  <2> USE DEF Goto, pairVars, Helloing, Chatting
  <2>1. CASE Poll(c)
    <3>1. phase[c] \in Awaiting /\ (phase' = phase \/ phase' = [phase EXCEPT ![c] = "failed"])
      BY <2>1 DEF Poll
    <3>2. phase = [phase EXCEPT ![c] = phase[c]]
      BY <1>1
    <3> QED BY <2>1, <3>1, <3>2 DEF Poll, Awaiting
  <2>2. CASE Hello(c)
    BY <2>2 DEF Hello, SendKey, AwaitKey, SendAes, AwaitAes, SendHello, AwaitEcho
  <2>3. CASE Chat(c)
    BY <2>3 DEF Chat, SendMsg, AwaitMsg
  <2> QED BY <2>1, <2>2, <2>3
<1>3. \/ UNCHANGED <<tunnelVars, mail>>
      \/ \E a \in Heard(c) : Call(c, a) /\ Usable(c)
  BY DEF Hello, SendKey, AwaitKey, SendAes, AwaitAes, SendHello, AwaitEcho, Chat, SendMsg,
         AwaitMsg, Poll, Sent, Received
<1>4. mail' = mail /\ \A d \in Client : Exists(Own[d]) => Exists(Own[d])'
  <2>1. CASE UNCHANGED <<tunnelVars, mail>>
    BY <2>1 DEF tunnelVars, Exists
  <2>2. phase[c] # "closeMine"
    BY <1>2 DEF Helloing, Chatting
  <2> QED BY <1>3, <2>1, <2>2, QuietCall
<1> QED BY <1>2, <1>4

\* The steps of a pair that is to meet.
LEMMA MeetMeet ==
    ASSUME TalkInv, MeetInv, NEW c \in Client, Meet(c)
    PROVE  MeetInv'
<1>1. /\ phase \in [Client -> Meeting \cup Helloing \cup Chatting \cup {"failed", "spinning"}]
      /\ curr \in [Client -> Tun \cup {None}]
      /\ NothingLate /\ Kept /\ OneLooked /\ stopped[c] = {}
  BY DEF TalkInv, TypeOK, MeetInv, NothingLate
<1>2. PICK a \in Heard(c) : Call(c, a) /\ phase[c] \in Meeting /\ stopped' = stopped
             /\ \/ /\ Create(c) /\ curr' = curr
                   /\ Goto(c, IF a.text = "ok" THEN "askOther" ELSE "failed")
                \/ AskOther(c) /\ curr' = curr
                   /\ Goto(c, IF a.text # "no" THEN "closeMine"
                              ELSE IF "askMine" \in stopped[c] THEN "askOther" ELSE "askMine")
                \/ CloseMine(c) /\ curr' = curr /\ Goto(c, "connect")
                \/ /\ Connect(c) /\ curr' = [curr EXCEPT ![c] = Own[Peer[c]]]
                   /\ Goto(c, "sendKey")
                \/ AskMine(c) /\ a.text # "no" /\ curr' = [curr EXCEPT ![c] = Own[c]]
                   /\ Goto(c, "sendKey")
                \/ AskMine(c) /\ a.text = "no"
  <2>1. CASE Create(c)
    <3>1. PICK a \in Heard(c) :
            /\ Call(c, a) /\ phase[c] = "start" /\ stopped' = stopped /\ curr' = curr
            /\ Goto(c, IF a.text = "ok" THEN "askOther" ELSE "failed")
      BY <2>1 DEF Create, FirstAsk
    <3> QED BY <2>1, <3>1 DEF Meeting
  <2>2. CASE AskOther(c)
    BY <2>2 DEF AskOther, Meeting, pairVars
  <2>3. CASE CloseMine(c)
    BY <2>3 DEF CloseMine, Meeting
  <2>4. CASE Connect(c)
    BY <2>4 DEF Connect, Meeting
  <2>5. CASE AskMine(c)
    <3>1. PICK a \in Heard(c) :
            /\ Call(c, a) /\ phase[c] = "askMine" /\ stopped' = stopped
            /\ \/ a.text # "no" /\ curr' = [curr EXCEPT ![c] = Own[c]] /\ Goto(c, "sendKey")
               \/ a.text = "no"
      BY <2>5 DEF AskMine
    <3> QED BY <2>5, <3>1 DEF Meeting
  <2> QED BY <2>1, <2>2, <2>3, <2>4, <2>5 DEF Meet
<1>3. /\ a \in Replies(c) /\ Handled(c, a) /\ mail' = mail
      /\ \A d \in Client : Exists(Own[d]) /\ ~(d = c /\ phase[c] = "closeMine") => Exists(Own[d])'
  BY <1>1, <1>2, QuietCall
<1>4. NothingLate'
  BY <1>1, <1>2, <1>3 DEF NothingLate
<1>5. /\ Peer[c] \in Client /\ Peer[c] # c /\ Peer[Peer[c]] = c
      /\ Own[c] # Own[Peer[c]] /\ Own[c] # None /\ curr[c] = None
  BY <1>1, <1>2, Pairs DEF Kept
<1> USE DEF Goto, Meeting, Sending, Awaiting
<1>6. CASE /\ Create(c) /\ curr' = curr
           /\ Goto(c, IF a.text = "ok" THEN "askOther" ELSE "failed")
  <2>1. phase[c] = "start"
    BY <1>6 DEF Create
  <2>2. OpenTunnel(c, Own[c], a.text)
    BY <1>3, <2>1 DEF Handled
  <2>3. a.text = "ok" => Exists(Own[c])'
    BY <2>2, Pairs, PayloadAssumption, NewIsTunnel DEF OpenTunnel, Exists, TalkInv, TypeOK, TunnelsTypeOK, AnyUid
  <2>4. Kept'
    BY <1>1, <1>3, <1>5, <1>6, <2>1, <2>3 DEF Kept, Looked
  <2>5. OneLooked'
    BY <1>1, <1>5, <1>6 DEF OneLooked, Looked
  <2> QED BY <1>4, <2>4, <2>5 DEF MeetInv
<1>7. CASE /\ AskOther(c) /\ curr' = curr
           /\ Goto(c, IF a.text # "no" THEN "closeMine"
                      ELSE IF "askMine" \in stopped[c] THEN "askOther" ELSE "askMine")
  <2>1. phase[c] = "askOther"
    BY <1>7 DEF AskOther
  <2>2. CheckExist(c, Own[Peer[c]], a.text)
    BY <1>3, <2>1 DEF Handled
  <2>3. a.text = "no" => ~Exists(Own[Peer[c]])
    BY <2>2 DEF CheckExist, Missing
  <2>4. a.text = "no" => ~Looked(Peer[c])
    BY <1>1, <1>5, <2>3 DEF Kept
  <2>5. Kept'
    BY <1>1, <1>3, <1>5, <1>7, <2>1 DEF Kept, Looked
  <2>6. OneLooked'
    <3>1. \A d \in Client : d # c => (Looked(d)' <=> Looked(d))
      BY <1>1, <1>7 DEF Looked
    <3>2. Looked(c)' => ~Looked(Peer[c])
      BY <1>1, <1>5, <1>7, <2>4 DEF Looked
    <3> QED BY <1>1, <1>5, <3>1, <3>2, Pairs DEF OneLooked
  <2> QED BY <1>4, <2>5, <2>6 DEF MeetInv
<1>8. CASE CloseMine(c) /\ curr' = curr /\ Goto(c, "connect")
  <2>1. phase[c] = "closeMine"
    BY <1>8 DEF CloseMine
  <2>2. Kept'
    BY <1>1, <1>3, <1>5, <1>8, <2>1 DEF Kept, Looked
  <2>3. OneLooked'
    BY <1>1, <1>5, <1>8 DEF OneLooked, Looked
  <2> QED BY <1>4, <2>2, <2>3 DEF MeetInv
<1>9. CASE /\ Connect(c) /\ curr' = [curr EXCEPT ![c] = Own[Peer[c]]]
           /\ Goto(c, "sendKey")
  <2>1. phase[c] = "connect"
    BY <1>9 DEF Connect
  <2>2. Kept'
    BY <1>1, <1>3, <1>5, <1>9, <2>1 DEF Kept, Looked
  <2>3. OneLooked'
    BY <1>1, <1>5, <1>9 DEF OneLooked, Looked
  <2> QED BY <1>4, <2>2, <2>3 DEF MeetInv
<1>10. CASE /\ AskMine(c) /\ a.text # "no" /\ curr' = [curr EXCEPT ![c] = Own[c]]
            /\ Goto(c, "sendKey")
  <2>1. phase[c] = "askMine"
    BY <1>10 DEF AskMine
  <2>2. Kept'
    BY <1>1, <1>3, <1>5, <1>10, <2>1 DEF Kept, Looked
  <2>3. OneLooked'
    BY <1>1, <1>5, <1>10, <2>1 DEF OneLooked, Looked
  <2> QED BY <1>4, <2>2, <2>3 DEF MeetInv
<1>11. CASE AskMine(c) /\ a.text = "no"
  <2>1. phase[c] = "askMine"
    BY <1>11 DEF AskMine
  <2>2. CheckExist(c, Own[c], a.text)
    BY <1>3, <2>1 DEF Handled
  <2>3. ~Exists(Own[c])
    BY <1>11, <2>2 DEF CheckExist, Missing
  <2> QED BY <1>1, <2>1, <2>3 DEF Kept, Looked
<1> QED BY <1>2, <1>6, <1>7, <1>8, <1>9, <1>10, <1>11

\* Nobody looks for its own tunnel, or stays in it, while its partner does.
THEOREM MeetInvariant ==
    ASSUME ~Reaping, ~Timeouts
    PROVE  Spec => []MeetInv
<1>1. Init => MeetInv
  BY MessengerAssumption, TunnelsAssumption
     DEF Init, MeetInv, NothingLate, Kept, OneLooked, Looked
<1>2. TalkInv /\ MeetInv /\ [Next]_vars => MeetInv'
  <2> SUFFICES ASSUME TalkInv, MeetInv, [Next]_vars PROVE MeetInv'
    OBVIOUS
  <2>1. ASSUME NEW c \in Client, Hello(c) \/ Chat(c) \/ Poll(c)
        PROVE  MeetInv'
    <3>1. /\ phase \in [Client -> Meeting \cup Helloing \cup Chatting \cup {"failed", "spinning"}]
          /\ NothingLate /\ Kept /\ OneLooked
      BY DEF TalkInv, TypeOK, MeetInv
    <3>2. /\ phase[c] \in Helloing \cup Chatting
          /\ phase' \in {[phase EXCEPT ![c] = p] : p \in Helloing \cup Chatting \cup {"failed"}}
          /\ UNCHANGED <<curr, stopped, mail>>
          /\ \A d \in Client : Exists(Own[d]) => Exists(Own[d])'
      BY <2>1, <3>1, MetSteps
    <3>3. \A d \in Client : (Looked(d)' <=> Looked(d))
      BY <3>1, <3>2 DEF Looked, Helloing, Chatting
    <3>4. Kept'
      BY <3>1, <3>2, <3>3 DEF Kept, Meeting, Helloing, Chatting
    <3> QED BY <3>1, <3>2, <3>3, <3>4, Pairs DEF MeetInv, NothingLate, OneLooked
  <2>2. ASSUME NEW c \in Client, ClientStep(c)
        PROVE  MeetInv'
    BY <2>1, <2>2, MeetMeet DEF ClientStep
  <2>3. CASE UNCHANGED vars
    <3>1. UNCHANGED <<tunnels, phase, curr, mail, stopped>>
      BY <2>3 DEF vars, tunnelVars, pairVars, waitVars
    <3> QED BY <3>1 DEF MeetInv, NothingLate, Kept, OneLooked, Looked, Exists
  <2> QED BY <2>2, <2>3 DEF Next, TimeOut
<1> QED BY <1>1, <1>2, TalkInvariant, PTL DEF Spec

\* Two messengers that enter each other's uid meet on one tunnel: however their
\* requests interleave, and however many other pairs there are, they never both
\* stay on their own.
THEOREM PairsMeet ==
    ASSUME ~Reaping, ~Timeouts
    PROVE  Spec => []NeverBothOwn
<1>1. MeetInv => NeverBothOwn
  BY DEF MeetInv, OneLooked, Looked, NeverBothOwn
<1> QED BY <1>1, MeetInvariant, PTL
----------------------------------------------------------------------------
(* What a request does to the queues, whatever the cleaner and the timeouts *)
(* do.                                                                     *)

\* The tunnels of x's pair, and what x has said in one of them that nobody has heard.
TunnelsOf(x) == {Own[x], Own[Peer[x]]}
SideOf(x, t) == IF t = Own[x] THEN "from" ELSE "to"
Speech(x, t) == IF Exists(t) THEN tunnels[t].queue[SideOf(x, t)] ELSE <<>>

\* No tunnel is anybody's but a client's.
Owned == \A t \in Tun : Exists(t) => \E d \in Client : t = Own[d]

\* Tunnels go, and what was said in them; one is made, by c who has just started.
Silent(c) == \A x \in Client : \A t \in TunnelsOf(x) :
    \/ ~Exists(t)'
    \/ Exists(t) /\ Speech(x, t)' = Speech(x, t)
    \/ phase[c] = "start" /\ t = Own[c] /\ Speech(x, t)' = <<>>

\* In its current tunnel c says m, or hears its partner.
Pushed(c, m) ==
    /\ Exists(curr[c])
    /\ \A x \in Client : \A t \in TunnelsOf(x) :
         /\ Exists(t)' <=> Exists(t)
         /\ Speech(x, t)' = IF x = c /\ t = curr[c] THEN Append(Speech(x, t), m) ELSE Speech(x, t)
Pulled(c) ==
    /\ Speech(Peer[c], curr[c]) # <<>>
    /\ \A x \in Client : \A t \in TunnelsOf(x) :
         /\ Exists(t)' <=> Exists(t)
         /\ Speech(x, t)' = IF x = Peer[c] /\ t = curr[c] THEN Tail(Speech(x, t)) ELSE Speech(x, t)

\* The queues c writes and reads in a tunnel of its pair.
LEMMA SpeechOfPair ==
    ASSUME TunnelsTypeOK, Voices, NEW c \in Client, NEW t \in TunnelsOf(c)
    PROVE  /\ t \in Tun /\ t \in TunnelsOf(Peer[c])
           /\ Speech(c, t) \in Seq(Payload) /\ Speech(Peer[c], t) \in Seq(Payload)
           /\ Exists(t) => /\ tunnels[t] \in Tunnel
                           /\ Outbox(c, t) = SideOf(c, t) /\ Inbox(c, t) = SideOf(Peer[c], t)
<1>1. /\ Peer[c] \in Client /\ Peer[Peer[c]] = c /\ Own[c] \in Tun /\ Own[Peer[c]] \in Tun
      /\ Own[c] # Own[Peer[c]] /\ Peer[c] # c
  BY Pairs
<1>2. CASE ~Exists(t)
  BY <1>1, <1>2 DEF TunnelsOf, Speech
<1>3. CASE Exists(t)
  <2>1. PICK d \in {c, Peer[c]} : t = Own[d]
    BY DEF TunnelsOf
  <2>2. /\ tunnels[t] \in Tunnel /\ tunnels[t].author = d
        /\ \A side \in Side : tunnels[t].queue[side] \in Seq(Payload)
    BY <1>1, <1>3, <2>1, OwnedTunnel, PayloadAssumption
  <2>3. SideOf(c, t) \in Side /\ SideOf(Peer[c], t) \in Side
    BY DEF SideOf, Side
  <2>4. Outbox(c, t) = SideOf(c, t) /\ Inbox(c, t) = SideOf(Peer[c], t)
    BY <1>1, <2>1, <2>2 DEF Outbox, Inbox, SideOf
  <2> QED BY <1>1, <1>3, <2>1, <2>2, <2>3, <2>4 DEF TunnelsOf, Speech
<1> QED BY <1>2, <1>3

\* Another queue for x in t.
Rewritten(x, t, q) == tunnels' = [tunnels EXCEPT ![t].queue[SideOf(x, t)] = q]

\* What that does to what each client has said in each tunnel.
LEMMA SpeechSet ==
    ASSUME TunnelsTypeOK, Voices, NEW x \in Client, NEW t \in TunnelsOf(x), Exists(t),
           NEW q \in Seq(Message), Rewritten(x, t, q)
    PROVE  \A y \in Client : \A u \in TunnelsOf(y) :
             /\ Exists(u)' <=> Exists(u)
             /\ Speech(y, u)' = IF y = x /\ u = t THEN q ELSE Speech(y, u)
<1> DEFINE side == SideOf(x, t)
<1>0. tunnels' = [tunnels EXCEPT ![t].queue[side] = q]
  BY DEF Rewritten
<1>1. tunnels[t] \in Tunnel /\ t \in Tun /\ side \in Side
  BY SpeechOfPair DEF SideOf, Side
<1>2. tunnels'[t] = [tunnels[t] EXCEPT !.queue[side] = q]
  BY <1>0, <1>1 DEF TunnelsTypeOK
<1>3. /\ tunnels'[t].queue[side] = q
      /\ \A r \in Side \ {side} : tunnels'[t].queue[r] = tunnels[t].queue[r]
      /\ Exists(t)'
  <2> HIDE DEF side
  <2>1. tunnels'[t] \in Tunnel
    BY <1>1, <1>2, QueueChange
  <2>2. Exists(t)'
    BY <2>1, PayloadAssumption DEF Exists
  <2> QED BY <1>1, <1>2, <2>2 DEF Tunnel
<1>4. \A u \in Tun : u # t => tunnels'[u] = tunnels[u]
  BY <1>0, <1>1 DEF TunnelsTypeOK
<1>5. SUFFICES ASSUME NEW y \in Client, NEW u \in TunnelsOf(y)
               PROVE  /\ Exists(u)' <=> Exists(u)
                      /\ Speech(y, u)' = IF y = x /\ u = t THEN q ELSE Speech(y, u)
  OBVIOUS
<1>6. u \in Tun /\ SideOf(y, u) \in Side
  BY SpeechOfPair DEF SideOf, Side
<1>7. CASE u # t
  BY <1>4, <1>6, <1>7 DEF Exists, Speech, SideOf
<1>8. CASE u = t
  <2>1. Exists(u) /\ Exists(u)'
    BY <1>3, <1>8
  <2>2. SideOf(y, u)' = SideOf(y, u)
    BY DEF SideOf
  <2>3. Speech(y, u)' = tunnels'[u].queue[SideOf(y, u)] /\ Speech(y, u) = tunnels[u].queue[SideOf(y, u)]
    BY <2>1, <2>2 DEF Speech
  <2>4. y # x => SideOf(y, u) # side
    <3>1. \A d \in Client : Own[d] = t => y = d \/ y = Peer[d]
      BY <1>8, Pairs DEF TunnelsOf
    <3>2. y # x => y = Peer[x]
      BY <3>1, Pairs DEF TunnelsOf
    <3> QED BY <1>8, <3>2, Pairs DEF SideOf, TunnelsOf
  <2> HIDE DEF side
  <2>5. y = x => SideOf(y, u) = side
    BY <1>8 DEF side
  <2> QED BY <1>3, <1>6, <1>8, <2>1, <2>3, <2>4, <2>5
<1> QED BY <1>7, <1>8

\* Requests that are not handed and do not hand out a payload.
LEMMA MeetingSpeech ==
    ASSUME TunnelsTypeOK, Voices, NEW c \in Client, NEW t \in Tun, NEW ans,
           \/ phase[c] = "start" /\ t = Own[c] /\ OpenTunnel(c, t, ans)
           \/ CloseTunnel(c, t, ans)
           \/ ConnTunnel(c, t, ans)
           \/ CheckExist(c, t, ans)
    PROVE  Silent(c)
<1> USE DEF TunnelsTypeOK
<1>1. CASE tunnels' = tunnels
  BY <1>1 DEF Silent, Speech, SideOf, Exists
<1>2. ASSUME NEW x \in Client, NEW u \in TunnelsOf(x)
      PROVE  u \in Tun /\ SideOf(x, u) \in Side /\ SideOf(x, u)' = SideOf(x, u)
  BY Pairs DEF TunnelsOf, SideOf, Side
<1>3. ASSUME phase[c] = "start", t = Own[c], tunnels' = [tunnels EXCEPT ![t] = NewTunnel(c)]
      PROVE  Silent(c)
  <2>1. ASSUME NEW x \in Client, NEW u \in TunnelsOf(x), u # t
        PROVE  ~Exists(u)' \/ (Exists(u) /\ Speech(x, u)' = Speech(x, u))
    BY <1>2, <1>3, <2>1 DEF Exists, Speech
  <2>2. ASSUME NEW x \in Client, t \in TunnelsOf(x)
        PROVE  Speech(x, t)' = <<>>
    <3>1. tunnels'[t] = NewTunnel(c)
      BY <1>3
    <3>2. NewTunnel(c).queue[SideOf(x, t)] = <<>>
      BY <1>2, <2>2 DEF NewTunnel
    <3> QED BY <1>2, <2>2, <3>1, <3>2 DEF Speech
  <2> QED BY <1>3, <2>1, <2>2 DEF Silent
<1>4. CASE tunnels' = [tunnels EXCEPT ![t] = None]
  BY <1>2, <1>4 DEF Silent, Speech, Exists
<1>5. CASE Exists(t) /\ tunnels' = [tunnels EXCEPT ![t].connected = TRUE, ![t].peer = c]
  <2>1. tunnels[t] \in Tunnel
    BY <1>5 DEF Exists
  <2>2. \A u \in Tun : u # t => tunnels'[u] = tunnels[u]
    BY <1>5
  <2>3. tunnels'[t].queue = tunnels[t].queue
    BY <1>5, <2>1 DEF Tunnel
  <2>4. ASSUME NEW x \in Client, NEW u \in TunnelsOf(x)
        PROVE  ~Exists(u)' \/ (Exists(u) /\ Speech(x, u)' = Speech(x, u))
    <3>1. CASE u = t
      BY <1>2, <1>5, <2>3, <3>1 DEF Speech
    <3>2. CASE u # t
      BY <1>2, <2>2, <3>2 DEF Exists, Speech
    <3> QED BY <3>1, <3>2
  <2> QED BY <2>4 DEF Silent
<1>6. CASE phase[c] = "start" /\ t = Own[c] /\ OpenTunnel(c, t, ans)
  BY <1>1, <1>3, <1>6 DEF OpenTunnel, tunnelVars
<1>7. CASE CloseTunnel(c, t, ans)
  BY <1>1, <1>4, <1>7 DEF CloseTunnel, Missing, tunnelVars
<1>8. CASE ConnTunnel(c, t, ans)
  BY <1>1, <1>5, <1>8 DEF ConnTunnel, Missing, tunnelVars
<1>9. CASE CheckExist(c, t, ans)
  BY <1>1, <1>9 DEF CheckExist, Missing, tunnelVars
<1> QED BY <1>6, <1>7, <1>8, <1>9

\* An answer with no payload, to anything but recv.
WordOnly(a) == a.load = None /\ a.text # "no-data"

\* What the mirror's handlers do to the speeches.
LEMMA RequestSpeech ==
    ASSUME TypeOK, Rounds, Voices, Places, NEW c \in Client, NEW b \in Replies(c), Handled(c, b),
           phase[c] \in Meeting \/ Usable(c)
    PROVE  /\ phase[c] \in Meeting => Silent(c) /\ WordOnly(b)
           /\ phase[c] \in Sending =>
                /\ WordOnly(b)
                /\ Pushed(c, Outgoing(c)) \/ (tunnels' = tunnels /\ ~Exists(curr[c]))
           /\ phase[c] \in Awaiting =>
                \/ tunnels' = tunnels /\ b.load = None /\ b.text \in {"no-data", "not-exists"}
                \/ Pulled(c) /\ b.text = "data" /\ b.load = Head(Speech(Peer[c], curr[c]))
<1>1. /\ TunnelsTypeOK /\ Peer[c] \in Client /\ Own[c] \in Tun /\ Own[Peer[c]] \in Tun
      /\ TunnelsOf(Peer[c]) = TunnelsOf(c)
  BY Pairs DEF TypeOK, TunnelsOf
<1>2. phase[c] \notin Awaiting => b.load = None
  BY DEF Replies
<1>3. CASE phase[c] \in Meeting
  <2>1. Silent(c)
    BY <1>1, <1>3, MeetingSpeech DEF Handled, Meeting, Sending, Awaiting
  <2>2. b.text # "no-data"
    BY <1>3 DEF Handled, Meeting, Sending, Awaiting, OpenTunnel, CloseTunnel, ConnTunnel, CheckExist, Missing
  <2> QED BY <1>2, <1>3, <2>1, <2>2 DEF WordOnly, Meeting, Sending, Awaiting
<1>4. CASE phase[c] \in Sending
  <2> DEFINE t == curr[c]
             s == Speech(c, t)
             q == Append(s, Outgoing(c))
  <2>1. SendBytes(c, t, Outgoing(c), b.text) /\ t \in TunnelsOf(c) /\ Outgoing(c) \in Message
    BY <1>4, UsableIsPair, OutgoingIsPayload DEF Handled, Meeting, Sending, Awaiting, TunnelsOf
  <2>2. b.text # "no-data"
    BY <2>1 DEF SendBytes, Missing
  <2>3. CASE Exists(t)
    <3>1. Outbox(c, t) = SideOf(c, t) /\ s = tunnels[t].queue[Outbox(c, t)] /\ s \in Seq(Message)
      BY <1>1, <2>1, <2>3, SpeechOfPair, PayloadAssumption DEF Speech
    <3>2. q \in Seq(Message)
      <4> HIDE DEF s
      <4> QED BY <2>1, <3>1
    <3>3. Rewritten(c, t, q)
      BY <2>1, <2>3, <3>1 DEF SendBytes, Missing, Rewritten
    <3>4. \A x \in Client : \A u \in TunnelsOf(x) :
            /\ Exists(u)' <=> Exists(u)
            /\ Speech(x, u)' = IF x = c /\ u = t THEN q ELSE Speech(x, u)
      <4> HIDE DEF q, t
      <4> QED BY <1>1, <2>1, <2>3, <3>2, <3>3, SpeechSet
    <3>5. Pushed(c, Outgoing(c))
      BY <2>3, <3>4 DEF Pushed
    <3> QED BY <1>2, <1>4, <2>2, <3>5 DEF WordOnly, Meeting, Sending, Awaiting
  <2>4. CASE ~Exists(t)
    BY <1>2, <1>4, <2>1, <2>2, <2>4 DEF SendBytes, Missing, tunnelVars, WordOnly, Meeting, Sending, Awaiting
  <2> QED BY <2>3, <2>4
<1>5. CASE phase[c] \in Awaiting
  <2> DEFINE t == curr[c]
             s == Speech(Peer[c], t)
             q == Tail(s)
  <2>1. RecvBytes(c, t, b.load, b.text) /\ t \in TunnelsOf(c)
    BY <1>5, UsableIsPair DEF Handled, Meeting, Sending, Awaiting, TunnelsOf
  <2>2. Exists(t) => /\ Inbox(c, t) = SideOf(Peer[c], t) /\ s = tunnels[t].queue[Inbox(c, t)]
                     /\ s \in Seq(Message)
    BY <1>1, <2>1, SpeechOfPair, PayloadAssumption DEF Speech
  <2>3. CASE ~Exists(t) \/ s = <<>>
    <3>1. tunnels' = tunnels /\ b.load = None /\ b.text \in {"no-data", "not-exists"}
      BY <2>1, <2>2, <2>3 DEF RecvBytes, Missing, tunnelVars
    <3> QED BY <1>5, <3>1 DEF Meeting, Sending, Awaiting
  <2>4. CASE Exists(t) /\ s # <<>>
    <3>1. b.text = "data" /\ b.load = Head(s)
      BY <2>1, <2>2, <2>4 DEF RecvBytes, Missing
    <3>2. q \in Seq(Message)
      <4> HIDE DEF s
      <4> QED BY <2>2, <2>4
    <3>3. Rewritten(Peer[c], t, q)
      BY <2>1, <2>2, <2>4 DEF RecvBytes, Missing, Rewritten
    <3>4. \A x \in Client : \A u \in TunnelsOf(x) :
            /\ Exists(u)' <=> Exists(u)
            /\ Speech(x, u)' = IF x = Peer[c] /\ u = t THEN q ELSE Speech(x, u)
      <4>1. t \in TunnelsOf(Peer[c]) /\ Exists(t)
        BY <1>1, <2>1, <2>4
      <4> HIDE DEF q, t
      <4> QED BY <1>1, <3>2, <3>3, <4>1, SpeechSet
    <3>5. Pulled(c)
      BY <2>4, <3>4 DEF Pulled
    <3> QED BY <1>5, <3>1, <3>5 DEF Meeting, Sending, Awaiting
  <2> QED BY <2>3, <2>4
<1>6. phase[c] \in Meeting \cup Sending \cup Awaiting
  BY DEF Handled, Meeting
<1> QED BY <1>3, <1>4, <1>5, <1>6 DEF Meeting, Sending, Awaiting

\* No request makes a tunnel but that of the client that asks.
LEMMA RequestOwned ==
    ASSUME TypeOK, Rounds, Voices, Places, Owned, NEW c \in Client, NEW b \in Replies(c), Handled(c, b),
           phase[c] \in Meeting \/ Usable(c)
    PROVE  Owned'
<1>1. ASSUME NEW t \in Tun, Exists(t) \/ t = Own[c],
             \A u \in Tun : u # t => tunnels'[u] = tunnels[u]
      PROVE  Owned'
  BY <1>1 DEF Owned, Exists
<1>2. Own[c] \in Tun /\ Own[Peer[c]] \in Tun /\ (Usable(c) => curr[c] \in Tun)
  BY Pairs, UsableIsPair
<1>3. TunnelsTypeOK
  BY DEF TypeOK
<1>4. CASE tunnels' = tunnels
  BY <1>1, <1>2, <1>4
<1>5. CASE phase[c] \in Meeting
  <2> DEFINE t == IF phase[c] \in {"askOther", "connect"} THEN Own[Peer[c]] ELSE Own[c]
  <2>1. \/ t = Own[c] /\ OpenTunnel(c, t, b.text)
        \/ CloseTunnel(c, t, b.text)
        \/ ConnTunnel(c, t, b.text)
        \/ CheckExist(c, t, b.text)
    BY <1>5 DEF Handled, Meeting, Sending, Awaiting
  <2>2. t \in Tun
    BY <1>2
  <2> HIDE DEF t
  <2>3. CASE t = Own[c] /\ OpenTunnel(c, t, b.text)
    <3>1. tunnels' = tunnels \/ \A u \in Tun : u # t => tunnels'[u] = tunnels[u]
      BY <1>3, <2>2, <2>3 DEF OpenTunnel, tunnelVars, TunnelsTypeOK
    <3> QED BY <1>1, <1>4, <2>2, <2>3, <3>1
  <2>4. CASE ~(t = Own[c] /\ OpenTunnel(c, t, b.text))
    <3>1. tunnels' = tunnels \/ (Exists(t) /\ \A u \in Tun : u # t => tunnels'[u] = tunnels[u])
      BY <1>3, <2>1, <2>2, <2>4
         DEF CloseTunnel, ConnTunnel, CheckExist, Missing, tunnelVars, TunnelsTypeOK
    <3>2. CASE Exists(t) /\ \A u \in Tun : u # t => tunnels'[u] = tunnels[u]
      BY <1>1, <2>2, <3>2
    <3> QED BY <1>4, <3>1, <3>2
  <2> QED BY <2>1, <2>3, <2>4
<1>6. CASE phase[c] \in Sending \cup Awaiting
  <2> DEFINE t == curr[c]
  <2>1. t \in Tun
    BY <1>2, <1>6 DEF Meeting, Sending, Awaiting
  <2>2. SendBytes(c, t, Outgoing(c), b.text) \/ RecvBytes(c, t, b.load, b.text)
    BY <1>6 DEF Handled, Meeting, Sending, Awaiting
  <2>3. tunnels' = tunnels \/ (Exists(t) /\ \A u \in Tun : u # t => tunnels'[u] = tunnels[u])
    <3> HIDE DEF t
    <3> QED BY <1>3, <2>1, <2>2 DEF SendBytes, RecvBytes, Missing, tunnelVars, TunnelsTypeOK
  <2> HIDE DEF t
  <2> QED BY <1>1, <1>4, <2>1, <2>3
<1> QED BY <1>5, <1>6 DEF Handled, Meeting

----------------------------------------------------------------------------
(* Calls in their turn.                                                    *)

\* Until it has the other's key a client may find words that came late; after that
\* it has no unread answer, and hears what its request found.
Worded(s) == \A i \in 1..Len(s) : WordOnly(s[i])

Timely(c) ==
    /\ phase[c] \in Meeting \cup {"sendKey", "awaitKey"} => Worded(mail[c])
    /\ phase[c] = "sendAes" /\ ~Keyless(c) => mail[c] = <<>>
    /\ phase[c] \in {"awaitAes", "sendHello", "awaitEcho"} \cup Chatting => mail[c] = <<>>

\* The oldest answer, and those that stay.
LEMMA OldestAnswer ==
    ASSUME NEW s \in Seq(Answer), NEW b \in Answer
    PROVE  LET u == Append(s, b) IN
           /\ s = <<>> => Head(u) = b /\ Tail(u) = <<>>
           /\ s # <<>> => Head(u) = s[1] /\ Tail(u) # <<>>
           /\ Worded(s) /\ WordOnly(b) => Worded(u) /\ Worded(Tail(u))
           /\ Worded(s) /\ s # <<>> => WordOnly(s[1])
<1> DEFINE u == Append(s, b)
<1>1. /\ u \in Seq(Answer) /\ Len(u) = Len(s) + 1 /\ Len(s) \in Nat /\ u # <<>>
      /\ \A i \in 1..Len(u) : u[i] = IF i = Len(u) THEN b ELSE s[i]
  OBVIOUS
<1>2. Head(u) = u[1] /\ Len(Tail(u)) = Len(s) /\ \A i \in 1..Len(s) : Tail(u)[i] = u[i + 1]
  BY <1>1
<1>3. s = <<>> <=> Len(s) = 0
  OBVIOUS
<1>4. Tail(u) \in Seq(Answer)
  BY <1>1
<1>5. Tail(u) = <<>> <=> Len(s) = 0
  BY <1>2, <1>4
<1>6. ASSUME Worded(s), WordOnly(b)
      PROVE  Worded(u) /\ Worded(Tail(u))
  <2>1. \A i \in 1..Len(u) : WordOnly(u[i])
    BY <1>1, <1>6 DEF Worded
  <2> QED BY <1>1, <1>2, <2>1 DEF Worded
<1> HIDE DEF u
<1>7. /\ s = <<>> => Head(u) = b /\ Tail(u) = <<>>
      /\ s # <<>> => Head(u) = s[1] /\ Tail(u) # <<>>
  BY <1>1, <1>2, <1>3, <1>5
<1>8. Worded(s) /\ s # <<>> => WordOnly(s[1])
  BY <1>3 DEF Worded
<1> QED BY <1>6, <1>7, <1>8 DEF u

\* What a call hears and does: it hears an old word only while it waits for the key.
Answered(c, a) ==
    \/ /\ phase[c] \in Meeting
       /\ Silent(c) /\ WordOnly(a) /\ Worded(mail'[c])
    \/ /\ phase[c] \in Sending
       /\ Pushed(c, Outgoing(c)) \/ (tunnels' = tunnels /\ ~Exists(curr[c]))
       /\ phase[c] = "sendKey" => Worded(mail'[c])
       /\ phase[c] # "sendKey" /\ ~Keyless(c) => mail'[c] = <<>>
    \/ /\ phase[c] \in Awaiting
       /\ mail[c] = <<>> /\ mail'[c] = <<>>
       /\ tunnels' = tunnels /\ a.load = None /\ a.text \in {"no-data", "not-exists"}
    \/ /\ phase[c] \in Awaiting
       /\ mail[c] = <<>> /\ mail'[c] = <<>>
       /\ Pulled(c) /\ a.text = "data" /\ a.load = Head(Speech(Peer[c], curr[c]))
    \/ /\ phase[c] = "awaitKey"
       /\ mail'[c] # <<>> /\ WordOnly(a)
       /\ tunnels' = tunnels \/ Pulled(c)

\* A call touches its caller's mail only, and leaves it a fresh answer.
LEMMA CallAnswered ==
    ASSUME TalkInv, NEW c \in Client, Timely(c), NEW a, Call(c, a), phase[c] \in Meeting \/ Usable(c)
    PROVE  Answered(c, a) /\ \A d \in Client : d # c => mail'[d] = mail[d]
<1>1. PICK b \in Replies(c) : /\ Handled(c, b)
                              /\ a = Head(Unread(c, b))
                              /\ mail' = [mail EXCEPT ![c] = Tail(Unread(c, b))]
  BY DEF Call
<1>2. /\ TypeOK /\ Rounds /\ Voices /\ Places
      /\ mail \in [Client -> Seq(Answer)] /\ mail[c] \in Seq(Answer)
  BY DEF TalkInv, TypeOK
<1>3. b \in Answer
  BY <1>1, <1>2, RequestRun
<1>4. mail'[c] = Tail(Unread(c, b)) /\ \A d \in Client : d # c => mail'[d] = mail[d]
  BY <1>1, <1>2
<1>5. /\ mail[c] = <<>> => a = b /\ mail'[c] = <<>>
      /\ mail[c] # <<>> => a = mail[c][1] /\ mail'[c] # <<>>
      /\ Worded(mail[c]) /\ WordOnly(b) => Worded(mail'[c])
      /\ Worded(mail[c]) /\ mail[c] # <<>> => WordOnly(mail[c][1])
  <2> DEFINE s == mail[c]
  <2>1. s \in Seq(Answer) /\ a = Head(Append(s, b)) /\ mail'[c] = Tail(Append(s, b))
    BY <1>1, <1>2, <1>4 DEF Unread
  <2> HIDE DEF s
  <2>2. /\ s = <<>> => a = b /\ mail'[c] = <<>>
        /\ s # <<>> => a = s[1] /\ mail'[c] # <<>>
        /\ Worded(s) /\ WordOnly(b) => Worded(mail'[c])
        /\ Worded(s) /\ s # <<>> => WordOnly(s[1])
    BY <1>3, <2>1, OldestAnswer
  <2> QED BY <2>2 DEF s
<1>6. CASE phase[c] \in Meeting
  <2>1. Silent(c) /\ WordOnly(b)
    BY <1>1, <1>2, <1>6, RequestSpeech
  <2>2. Worded(mail[c])
    BY <1>6 DEF Timely
  <2> QED BY <1>4, <1>5, <1>6, <2>1, <2>2 DEF Answered
<1>7. CASE phase[c] \in Sending
  <2>1. WordOnly(b) /\ (Pushed(c, Outgoing(c)) \/ (tunnels' = tunnels /\ ~Exists(curr[c])))
    BY <1>1, <1>2, <1>7, RequestSpeech DEF Meeting, Sending
  <2>2. /\ phase[c] = "sendKey" => Worded(mail[c])
        /\ phase[c] # "sendKey" /\ ~Keyless(c) => mail[c] = <<>>
    BY <1>7 DEF Timely, Sending, Chatting
  <2> QED BY <1>4, <1>5, <1>7, <2>1, <2>2 DEF Answered
<1>8. CASE phase[c] \in Awaiting
  <2>1. \/ tunnels' = tunnels /\ b.load = None /\ b.text \in {"no-data", "not-exists"}
        \/ Pulled(c) /\ b.text = "data" /\ b.load = Head(Speech(Peer[c], curr[c]))
    BY <1>1, <1>2, <1>8, RequestSpeech DEF Meeting, Awaiting
  <2>2. /\ phase[c] = "awaitKey" => Worded(mail[c])
        /\ phase[c] # "awaitKey" => mail[c] = <<>>
    BY <1>8 DEF Timely, Awaiting, Chatting
  <2> QED BY <1>4, <1>5, <1>8, <2>1, <2>2 DEF Answered
<1>9. phase[c] \in Meeting \cup Sending \cup Awaiting
  BY <1>1 DEF Handled, Meeting
<1> QED BY <1>6, <1>7, <1>8, <1>9

----------------------------------------------------------------------------
(* The five moves of a client.                                             *)

\* The place of a payload in the conversation, and the last one that x has sent and
\* that y has understood.
Stage(m) == CASE m.kind = "pub" -> 1 [] m.kind = "aes" -> 2 [] m.kind = "hello" -> 3
              [] m.kind = "msg" -> 3 + m.n
Said(x) == CASE phase[x] = "sendKey" -> 0
             [] phase[x] \in {"awaitKey", "sendAes"} -> 1
             [] phase[x] \in {"awaitAes", "sendHello"} -> 2
             [] phase[x] = "awaitEcho" -> 3
             [] OTHER -> 3 + sent[x]
Read(y) == CASE phase[y] \in {"sendAes", "awaitAes"} -> 1
             [] phase[y] \in {"sendHello", "awaitEcho"} -> 2
             [] OTHER -> 3 + got[y]

\* x takes part, and y has understood the key it was sent.
Speaking(x) == phase[x] \in Helloing \cup Chatting
Listening(y) == phase[y] \in {"awaitAes", "sendHello", "awaitEcho"} \cup Chatting
                \/ (phase[y] = "sendAes" /\ ~Keyless(y))

\* c may still send in t before it has to hear an answer.
Ready(c, t) == phase[c] \in Meeting \/ (curr[c] = t /\ phase[c] \in Sending
                                        /\ (phase[c] = "sendKey" \/ mail[c] = <<>>))

\* Nothing more said, nothing more understood, on the tunnel it met on.
Mum(c) == Speaking(c)' => Speaking(c) /\ Said(c)' = Said(c)
Deaf(c) == Listening(c)' => Listening(c) /\ Read(c)' = Read(c)
Stays(c) ==
    /\ curr'[c] = curr[c] /\ (Usable(c)' <=> Usable(c))
    /\ phase[c] \in Sending \cup Awaiting
    /\ phase'[c] \in (Helloing \cup Chatting \cup {"failed"}) \ {"sendKey"}

\* Nothing read before the first message, and then one for each that is sent.
Fresh(c) == phase[c] \in Meeting \cup Helloing => got[c] = 0

Level(c) ==
    /\ phase[c] \in {"sendMsg", "done"} => got[c] = sent[c]
    /\ phase[c] = "awaitMsg" => got[c] = sent[c] - 1

Meets(c) ==
    /\ phase[c] \in Meeting /\ Silent(c)
    /\ phase'[c] \in Meeting \cup {"sendKey", "failed", "spinning"}
Rests(c) ==
    /\ Stays(c) /\ Mum(c) /\ Deaf(c) /\ tunnels' = tunnels
    /\ phase'[c] \in Sending => mail'[c] # <<>>
Mutters(c) ==
    /\ Stays(c) /\ Deaf(c) /\ tunnels' = tunnels
    /\ ~Usable(c) \/ ~Exists(curr[c])
    /\ phase[c] \in Sending /\ phase'[c] \in Awaiting
Says(c) ==
    /\ Stays(c) /\ Deaf(c) /\ Usable(c) /\ Pushed(c, Outgoing(c))
    /\ Stage(Outgoing(c)) = Said(c) + 1
    /\ Speaking(c) /\ (Speaking(c)' => Said(c)' = Said(c) + 1)
    /\ Ready(c, curr[c]) /\ phase'[c] \in Awaiting \cup {"failed"}
Hears(c) == LET m == Head(Speech(Peer[c], curr[c])) IN
    /\ Stays(c) /\ Mum(c) /\ Usable(c) /\ Pulled(c)
    /\ phase[c] \in Awaiting
    /\ Listening(c)' => \/ Stage(m) = 1 /\ Read(c)' = 1
                        \/ Listening(c) /\ (Stage(m) = Read(c) + 1 => Read(c)' = Read(c) + 1)
    /\ Stage(m) = Read(c) + 1 \/ ~Listening(c) => Level(c)'

Moves(c) == Meets(c) \/ Rests(c) \/ Mutters(c) \/ Says(c) \/ Hears(c)

\* Nobody else's changes.
Aside(c) == \A d \in Client \ {c} :
    /\ phase'[d] = phase[d] /\ curr'[d] = curr[d] /\ mail'[d] = mail[d]
    /\ opened'[d] = opened[d] /\ connected'[d] = connected[d] /\ otherPub'[d] = otherPub[d]
    /\ sent'[d] = sent[d] /\ got'[d] = got[d]

\* While they meet, the two exchange no text.
LEMMA MeetMoves ==
    ASSUME TalkInv, NEW c \in Client, Timely(c), Fresh(c), Level(c), Meet(c)
    PROVE  Aside(c) /\ Moves(c) /\ Timely(c)' /\ Fresh(c)' /\ Level(c)'
<1>1. Lists /\ Words
  BY Sorted
<1>2. phase[c] \in Meeting /\ \E a \in Heard(c) : Call(c, a)
  BY DEF Meet, Create, AskOther, CloseMine, Connect, AskMine, Meeting
<1>3. Silent(c) /\ Worded(mail'[c]) /\ \A d \in Client : d # c => mail'[d] = mail[d]
  BY <1>2, CallAnswered DEF Answered, Meeting, Sending, Awaiting
<1>4. phase' \in {[phase EXCEPT ![c] = p] : p \in Meeting \cup {"sendKey", "failed"}}
  BY DEF Meet, Create, AskOther, CloseMine, Connect, AskMine, Meeting, Goto, FirstAsk
<1>5. /\ phase'[c] \in Meeting \cup {"sendKey", "failed"}
      /\ \A d \in Client \ {c} : phase'[d] = phase[d]
  BY <1>1, <1>4 DEF Lists
<1>6. /\ UNCHANGED talkVars
      /\ \A d \in Client \ {c} : /\ curr'[d] = curr[d] /\ opened'[d] = opened[d]
                                 /\ connected'[d] = connected[d]
  BY <1>1 DEF Meet, Create, AskOther, CloseMine, Connect, AskMine, Lists, Listing, pairVars
<1>7. Aside(c)
  BY <1>3, <1>5, <1>6 DEF Aside, talkVars
<1>8. Meets(c)
  BY <1>2, <1>3, <1>5 DEF Meets
<1>9. Timely(c)' /\ Fresh(c)' /\ Level(c)'
  BY <1>2, <1>3, <1>5, <1>6 DEF Timely, Fresh, Level, Meeting, Helloing, Chatting, talkVars
<1> QED BY <1>7, <1>8, <1>9 DEF Moves

\* Sending puts the next text of the round behind the others.
LEMMA SendMoves ==
    ASSUME TalkInv, NEW c \in Client, Timely(c), Fresh(c), Level(c),
           SendKey(c) \/ SendAes(c) \/ SendHello(c) \/ SendMsg(c)
    PROVE  Aside(c) /\ Moves(c) /\ Timely(c)' /\ Fresh(c)' /\ Level(c)'
<1>1. Lists /\ Words /\ Rounds
  BY Sorted
<1>2. CASE Keyless(c)
  <2>1. phase[c] = "sendAes" /\ Goto(c, "failed") /\ UNCHANGED <<tunnelVars, mail, pairVars, talkVars>>
    BY <1>2 DEF SendKey, SendAes, SendHello, SendMsg, Keyless
  <2>2. phase'[c] = "failed" /\ \A d \in Client \ {c} : phase'[d] = phase[d]
    BY <1>1, <2>1 DEF Lists, Goto
  <2>3. Aside(c)
    BY <2>1, <2>2 DEF Aside, pairVars, talkVars
  <2>4. Rests(c)
    BY <2>1, <2>2 DEF Rests, Stays, Mum, Deaf, Speaking, Listening, Usable, tunnelVars, pairVars,
                      Sending, Helloing, Chatting
  <2> QED BY <2>2, <2>3, <2>4 DEF Moves, Timely, Fresh, Level, Meeting, Helloing, Chatting
<1>3. CASE ~Keyless(c)
  <2> DEFINE p == CASE phase[c] = "sendKey" -> "awaitKey" [] phase[c] = "sendAes" -> "awaitAes"
                    [] phase[c] = "sendHello" -> "awaitEcho" [] phase[c] = "sendMsg" -> "awaitMsg"
             k == IF phase[c] = "sendMsg" THEN 1 ELSE 0
  <2>1. /\ phase[c] \in Sending /\ Sent(c) /\ phase' = [phase EXCEPT ![c] = p]
        /\ sent' = [sent EXCEPT ![c] = @ + k]
        /\ UNCHANGED <<pairVars, otherPub, otherAes, got>>
    BY <1>1, <1>3 DEF SendKey, SendAes, SendHello, SendMsg, Sending, Goto, talkVars, Words
  <2>2. /\ phase'[c] = p /\ sent'[c] = sent[c] + k
        /\ \A d \in Client \ {c} : phase'[d] = phase[d] /\ sent'[d] = sent[d]
    BY <1>1, <2>1 DEF Lists, Words
  <2>3. phase'[c] \in Awaiting
    BY <2>1, <2>2 DEF Sending, Awaiting
  <2>4. /\ \A d \in Client : d # c => mail'[d] = mail[d]
        /\ phase[c] = "sendKey" => Worded(mail'[c])
        /\ phase[c] # "sendKey" => mail[c] = <<>> /\ mail'[c] = <<>>
        /\ \/ Usable(c) /\ Pushed(c, Outgoing(c))
           \/ tunnels' = tunnels /\ (~Usable(c) \/ ~Exists(curr[c]))
    <3>1. /\ phase[c] = "sendKey" => Worded(mail[c])
          /\ phase[c] # "sendKey" => mail[c] = <<>>
      BY <1>3, <2>1 DEF Timely, Sending, Chatting
    <3>2. CASE Usable(c)
      BY <1>3, <2>1, <3>1, <3>2, CallAnswered DEF Sent, Answered, Meeting, Sending, Awaiting
    <3>3. CASE ~Usable(c)
      BY <2>1, <3>1, <3>3 DEF Sent, tunnelVars
    <3> QED BY <3>2, <3>3
  <2>5. Aside(c)
    BY <2>1, <2>2, <2>4 DEF Aside, pairVars
  <2>6. Stays(c)
    BY <2>1, <2>3 DEF Stays, Usable, pairVars, Awaiting, Helloing, Chatting
  <2>7. Deaf(c)
    BY <1>3, <2>1, <2>2 DEF Deaf, Listening, Read, Sending, Chatting
  <2>8. /\ Speaking(c) /\ Said(c)' = Said(c) + 1
        /\ Stage(Outgoing(c)) = Said(c) + 1
    <3>1. sent[c] \in Nat
      BY <1>1, MessengerAssumption DEF Words
    <3> QED BY <2>1, <2>2, <3>1 DEF Speaking, Said, Stage, Outgoing, Pack, Sending, Helloing, Chatting
  <2>9. Says(c) \/ Mutters(c)
    BY <2>1, <2>3, <2>4, <2>6, <2>7, <2>8 DEF Says, Mutters, Ready
  <2>10. Timely(c)' /\ Fresh(c)' /\ Level(c)'
    BY <1>1, MessengerAssumption, <2>1, <2>2, <2>4 DEF Timely, Fresh, Level, Words, Sending, Meeting, Helloing, Chatting
  <2> QED BY <2>5, <2>9, <2>10 DEF Moves
<1> QED BY <1>2, <1>3

\* A poll that finds nothing leaves everything; one that finds a text hears it.
LEMMA PollMoves ==
    ASSUME TalkInv, NEW c \in Client, Timely(c), Fresh(c), Level(c), Poll(c)
    PROVE  Aside(c) /\ Moves(c) /\ Timely(c)' /\ Fresh(c)' /\ (Hears(c) \/ Level(c)')
<1>1. Lists /\ Words
  BY Sorted
<1>2. PICK a \in Heard(c) :
        /\ phase[c] \in Awaiting /\ Usable(c) /\ Call(c, a)
        /\ \/ a.text = "no-data" /\ UNCHANGED phase
           \/ a.text = "not-exists" /\ Goto(c, "failed")
        /\ UNCHANGED <<pairVars, talkVars>>
  BY DEF Poll
<1>3. Answered(c, a) /\ \A d \in Client : d # c => mail'[d] = mail[d]
  BY <1>2, CallAnswered
<1>4. \A d \in Client \ {c} : phase'[d] = phase[d]
  BY <1>1, <1>2 DEF Goto, Lists
<1>5. \/ a.text = "no-data" /\ phase'[c] = phase[c]
      \/ a.text = "not-exists" /\ phase'[c] = "failed"
  BY <1>1, <1>2 DEF Goto, Lists
<1>6. \/ mail[c] = <<>> /\ mail'[c] = <<>> /\ tunnels' = tunnels
      \/ phase'[c] = "failed" /\ (tunnels' = tunnels \/ Pulled(c))
  BY <1>2, <1>3, <1>5 DEF Answered, WordOnly, Meeting, Sending, Awaiting
<1>7. Aside(c)
  BY <1>2, <1>3, <1>4 DEF Aside, pairVars, talkVars
<1>8. Stays(c) /\ Mum(c) /\ Deaf(c)
  BY <1>2, <1>5 DEF Stays, Usable, Mum, Deaf, Speaking, Said, Listening, Read, Keyless, pairVars,
                    talkVars, Awaiting, Helloing, Chatting
<1>9. CASE tunnels' = tunnels
  <2>1. Rests(c)
    BY <1>2, <1>5, <1>8, <1>9 DEF Rests, Awaiting, Sending
  <2> QED BY <1>2, <1>5, <1>6, <1>7, <2>1
          DEF Moves, Timely, Fresh, Level, talkVars, Awaiting, Meeting, Helloing, Chatting, Worded
<1>10. CASE phase'[c] = "failed" /\ Pulled(c)
  <2>1. Hears(c)
    BY <1>2, <1>8, <1>10 DEF Hears, Listening, Level, Chatting
  <2> QED BY <1>7, <1>10, <2>1 DEF Moves, Timely, Fresh, Level, Meeting, Helloing, Chatting
<1> QED BY <1>6, <1>9, <1>10

\* An answer that recv returns.
LEMMA ReceivedAnswer ==
    ASSUME TalkInv, NEW c \in Client, Timely(c), phase[c] \in Awaiting, NEW a, Received(c, a)
    PROVE  /\ \A d \in Client : d # c => mail'[d] = mail[d]
           /\ \/ /\ mail[c] = <<>> /\ mail'[c] = <<>>
                 /\ Pulled(c) /\ a.load = Head(Speech(Peer[c], curr[c]))
              \/ /\ phase[c] = "awaitKey" /\ mail'[c] # <<>> /\ a.load = None
                 /\ tunnels' = tunnels \/ Pulled(c)
BY CallAnswered DEF Received, Answered, WordOnly, Meeting, Sending, Awaiting

\* What is awaited is heard in its turn.
LEMMA AwaitMoves ==
    ASSUME TalkInv, NEW c \in Client, Timely(c), Fresh(c), Level(c),
           AwaitKey(c) \/ AwaitAes(c) \/ AwaitEcho(c) \/ AwaitMsg(c)
    PROVE  Aside(c) /\ Moves(c) /\ Timely(c)' /\ Fresh(c)' /\ (Hears(c) \/ Level(c)')
<1>1. Lists /\ Words /\ Rounds
  BY Sorted
<1>2. sent[c] \in Nat /\ got[c] \in Nat
  BY <1>1, MessengerAssumption DEF Words
<1> DEFINE m == Head(Speech(Peer[c], curr[c]))
<1>3. CASE AwaitKey(c)
  <2>1. PICK a \in Heard(c), k \in AnyUid :
          /\ phase[c] = "awaitKey" /\ Received(c, a)
          /\ otherPub' = [otherPub EXCEPT ![c] = k]
          /\ Is(a, "pub", k) \/ k = Garbage
          /\ Goto(c, "sendAes")
          /\ UNCHANGED <<pairVars, otherAes, sent, got>>
    BY <1>3 DEF AwaitKey
  <2>2. /\ phase'[c] = "sendAes" /\ otherPub'[c] = k
        /\ \A d \in Client \ {c} : phase'[d] = phase[d] /\ otherPub'[d] = otherPub[d]
    BY <1>1, <2>1 DEF Goto, Lists, Words
  <2>3. /\ \A d \in Client : d # c => mail'[d] = mail[d]
        /\ \/ /\ mail[c] = <<>> /\ mail'[c] = <<>>
              /\ Pulled(c) /\ a.load = m
           \/ /\ mail'[c] # <<>> /\ k = Garbage
              /\ tunnels' = tunnels \/ Pulled(c)
    BY <2>1, ReceivedAnswer DEF Awaiting, Is
  <2>4. Aside(c)
    BY <2>1, <2>2, <2>3 DEF Aside, pairVars
  <2>5. Stays(c) /\ Mum(c) /\ (k = Garbage => Deaf(c))
    BY <2>1, <2>2 DEF Stays, Usable, Mum, Deaf, Speaking, Said, Listening, Keyless, pairVars,
                      Awaiting, Helloing, Chatting
  <2>6. Level(c)' /\ Fresh(c)'
    BY <2>1, <2>2 DEF Level, Fresh, Helloing
  <2>7. Timely(c)'
    BY <2>2, <2>3 DEF Timely, Keyless, Meeting, Chatting
  <2>8. CASE Pulled(c)
    <3>1. ~Listening(c)' \/ (Stage(m) = 1 /\ Read(c)' = 1)
      BY <2>1, <2>2, <2>3 DEF Listening, Keyless, Read, Is, Stage, Chatting
    <3>2. Hears(c)
      BY <2>1, <2>5, <2>6, <2>8, <3>1 DEF Hears, Received, Awaiting
    <3> QED BY <2>4, <2>6, <2>7, <3>2 DEF Moves
  <2>9. CASE ~Pulled(c)
    <3>1. Rests(c)
      BY <2>3, <2>5, <2>9 DEF Rests
    <3> QED BY <2>4, <2>6, <2>7, <3>1 DEF Moves
  <2> QED BY <2>8, <2>9
<1>4. CASE AwaitAes(c) \/ AwaitEcho(c) \/ AwaitMsg(c)
  <2> DEFINE p == CASE phase[c] = "awaitAes" -> "sendHello" [] phase[c] = "awaitEcho" -> "sendMsg"
                    [] phase[c] = "awaitMsg" -> IF More(c) THEN "sendMsg" ELSE "done"
  <2>1. PICK a \in Heard(c) :
          /\ phase[c] \in {"awaitAes", "awaitEcho", "awaitMsg"} /\ Received(c, a)
          /\ phase' \in {[phase EXCEPT ![c] = p], [phase EXCEPT ![c] = "failed"]}
          /\ \/ phase[c] = "awaitMsg" /\ Is(a, "msg", otherAes[c]) /\ got' = [got EXCEPT ![c] = a.load.n]
             \/ (phase[c] = "awaitMsg" => phase' = [phase EXCEPT ![c] = "failed"]) /\ UNCHANGED got
          /\ UNCHANGED <<pairVars, otherPub, sent>>
    <3>1. CASE AwaitAes(c)
      BY <3>1 DEF AwaitAes, Goto
    <3>2. CASE AwaitEcho(c)
      BY <3>2 DEF AwaitEcho, Goto, talkVars
    <3>3. CASE AwaitMsg(c)
      BY <3>3 DEF AwaitMsg, Goto
    <3> QED BY <1>4, <3>1, <3>2, <3>3
  <2>2. /\ phase'[c] \in {p, "failed"}
        /\ \/ phase[c] = "awaitMsg" /\ Is(a, "msg", otherAes[c]) /\ got'[c] = a.load.n
           \/ (phase[c] = "awaitMsg" => phase'[c] = "failed") /\ got'[c] = got[c]
        /\ \A d \in Client \ {c} : phase'[d] = phase[d] /\ got'[d] = got[d]
    BY <1>1, <2>1 DEF Lists, Words
  <2>3. /\ \A d \in Client : d # c => mail'[d] = mail[d]
        /\ mail[c] = <<>> /\ mail'[c] = <<>> /\ Pulled(c) /\ a.load = m
    BY <2>1, ReceivedAnswer DEF Awaiting
  <2>4. Aside(c)
    BY <2>1, <2>2, <2>3 DEF Aside, pairVars
  <2>5. Stays(c) /\ Mum(c)
    BY <1>1, <2>1, <2>2 DEF Stays, Usable, Mum, Speaking, Said, pairVars, Rounds, Awaiting, Helloing, Chatting
  <2>6. Listening(c)
    BY <2>1 DEF Listening, Chatting
  <2>7. Stage(m) = Read(c) + 1 /\ Listening(c)' => Read(c)' = Read(c) + 1
    BY <1>2, <2>1, <2>2, <2>3 DEF Listening, Read, Stage, Is, Fresh, Chatting, Helloing
  <2>8. Stage(m) = Read(c) + 1 => Level(c)'
    <3>1. CASE phase[c] = "awaitEcho"
      BY <1>1, <2>1, <2>2, <3>1 DEF Level, Fresh, Rounds, Helloing
    <3>2. CASE phase[c] = "awaitMsg"
      <4>1. TalkInv'
        BY <1>4, <2>1, <3>2, ChatTalk DEF AwaitAes, AwaitEcho, Chat
      <4>2. got'[c] \in Nat
        BY <4>1, MessengerAssumption DEF TalkInv, TypeOK
      <4> QED BY <1>2, <2>1, <2>2, <2>3, <3>2, <4>2, SMTT(30) DEF Level, Read, Stage, Is, Chatting
    <3>3. CASE phase[c] = "awaitAes"
      BY <2>2, <3>3 DEF Level
    <3> QED BY <2>1, <3>1, <3>2, <3>3
  <2>9. Hears(c)
    BY <2>1, <2>3, <2>5, <2>6, <2>7, <2>8 DEF Hears, Received, Awaiting
  <2>10. Timely(c)' /\ Fresh(c)'
    BY <2>1, <2>2, <2>3 DEF Timely, Fresh, Meeting, Helloing, Chatting
  <2> QED BY <2>4, <2>9, <2>10 DEF Moves
<1> QED BY <1>3, <1>4

\* A call that times out: asked for a tunnel, or for the last time.
LEMMA TimeOutMoves ==
    ASSUME TalkInv, NEW c \in Client, Timely(c), Fresh(c), Level(c), TimeOut(c)
    PROVE  Aside(c) /\ Moves(c) /\ Timely(c)' /\ Fresh(c)' /\ Level(c)'
<1>1. Lists /\ Words /\ TypeOK /\ Rounds /\ Voices /\ Places
  BY Sorted DEF TalkInv
<1>2. /\ phase[c] \in Meeting \/ (phase[c] \in Sending \cup Awaiting /\ Usable(c))
      /\ ~Keyless(c) /\ mail[c] = <<>>
      /\ UNCHANGED <<curr, connected, talkVars>>
      /\ opened' = [opened EXCEPT ![c] = opened'[c]]
      /\ phase[c] \notin Meeting => opened' = opened
  BY <1>1 DEF TimeOut, Listing, Lists, Meeting
<1>3. /\ phase' \in {[phase EXCEPT ![c] = p] : p \in {"askOther", "askMine", "spinning", "failed"}}
      /\ phase[c] \in Meeting \/ phase' = [phase EXCEPT ![c] = "failed"]
  BY DEF TimeOut, Stop, Goto, Meeting
<1>4. /\ phase'[c] \in {"askOther", "askMine", "spinning", "failed"}
      /\ phase[c] \in Meeting \/ phase'[c] = "failed"
      /\ \A d \in Client \ {c} : phase'[d] = phase[d]
  BY <1>1, <1>3 DEF Lists
<1>5. /\ \A d \in Client \ {c} : mail'[d] = mail[d]
      /\ phase[c] \in Meeting => Silent(c) /\ Worded(mail'[c])
      /\ phase[c] \in Sending => tunnels' = tunnels \/ Pushed(c, Outgoing(c))
      /\ phase[c] \in Awaiting => tunnels' = tunnels \/ Pulled(c)
  <2>1. CASE UNCHANGED <<tunnelVars, mail>>
    <3>1. phase[c] \in Meeting => Worded(mail[c])
      BY DEF Timely
    <3>2. Silent(c)
      BY <2>1 DEF Silent, Speech, SideOf, Exists, tunnelVars
    <3> QED BY <2>1, <3>1, <3>2 DEF tunnelVars
  <2>2. ASSUME NEW b \in Replies(c), Handled(c, b),
               mail' \in {mail, [mail EXCEPT ![c] = Append(@, b)]}
        PROVE  /\ \A d \in Client \ {c} : mail'[d] = mail[d]
               /\ phase[c] \in Meeting => Silent(c) /\ Worded(mail'[c])
               /\ phase[c] \in Sending => tunnels' = tunnels \/ Pushed(c, Outgoing(c))
               /\ phase[c] \in Awaiting => tunnels' = tunnels \/ Pulled(c)
    <3>1. /\ phase[c] \in Meeting => Silent(c) /\ WordOnly(b)
          /\ phase[c] \in Sending => tunnels' = tunnels \/ Pushed(c, Outgoing(c))
          /\ phase[c] \in Awaiting => tunnels' = tunnels \/ Pulled(c)
      BY <1>1, <1>2, <2>2, RequestSpeech
    <3>2. mail'[c] \in {<<>>, <<b>>} /\ \A d \in Client \ {c} : mail'[d] = mail[d]
      BY <1>1, <1>2, <2>2 DEF TypeOK
    <3>3. WordOnly(b) => Worded(mail'[c])
      BY <3>2 DEF Worded
    <3> QED BY <3>1, <3>2, <3>3
  <2> QED BY <2>1, <2>2 DEF TimeOut
<1>6. Aside(c)
  BY <1>1, <1>2, <1>4, <1>5 DEF Aside, talkVars, Lists
<1>7. Timely(c)' /\ Fresh(c)' /\ Level(c)'
  BY <1>2, <1>4, <1>5 DEF Timely, Fresh, Level, talkVars, Meeting, Helloing, Chatting
<1>8. CASE phase[c] \in Meeting
  BY <1>4, <1>5, <1>6, <1>7, <1>8 DEF Moves, Meets, Meeting
<1>9. CASE phase[c] \notin Meeting
  <2>1. phase'[c] = "failed" /\ UNCHANGED <<curr, opened, connected>> /\ Usable(c)
    BY <1>2, <1>4, <1>9
  <2>2. Stays(c) /\ Mum(c) /\ Deaf(c) /\ (Speaking(c)' => FALSE) /\ (Listening(c)' => FALSE)
    BY <1>2, <1>9, <2>1 DEF Stays, Usable, Mum, Deaf, Speaking, Listening, Helloing, Chatting
  <2>3. CASE tunnels' = tunnels
    BY <1>6, <1>7, <2>1, <2>2, <2>3 DEF Moves, Rests, Sending
  <2>4. CASE phase[c] \in Sending /\ Pushed(c, Outgoing(c))
    <3>1. Stage(Outgoing(c)) = Said(c) + 1 /\ Speaking(c)
      <4>1. sent[c] \in Nat
        BY <1>1, MessengerAssumption DEF Words
      <4> QED BY <2>4, <4>1 DEF Speaking, Said, Stage, Outgoing, Pack, Sending, Helloing, Chatting
    <3> QED BY <1>2, <1>6, <1>7, <2>1, <2>2, <2>4, <3>1 DEF Moves, Says, Ready
  <2>5. CASE phase[c] \in Awaiting /\ Pulled(c)
    BY <1>6, <1>7, <2>1, <2>2, <2>5 DEF Moves, Hears
  <2> QED BY <1>2, <1>5, <1>9, <2>3, <2>4, <2>5
<1> QED BY <1>8, <1>9

\* Whatever a client does, it is one of the five moves.
LEMMA ClientMoves ==
    ASSUME TalkInv, NEW c \in Client, Timely(c), Fresh(c), Level(c), ClientStep(c) \/ TimeOut(c)
    PROVE  Aside(c) /\ Moves(c) /\ Timely(c)' /\ Fresh(c)' /\ (Hears(c) \/ Level(c)')
<1>1. CASE Meet(c)
  BY <1>1, MeetMoves
<1>2. CASE SendKey(c) \/ SendAes(c) \/ SendHello(c) \/ SendMsg(c)
  BY <1>2, SendMoves
<1>3. CASE AwaitKey(c) \/ AwaitAes(c) \/ AwaitEcho(c) \/ AwaitMsg(c)
  BY <1>3, AwaitMoves
<1>4. CASE Poll(c)
  BY <1>4, PollMoves
<1>5. CASE TimeOut(c)
  BY <1>5, TimeOutMoves
<1>6. QED
  BY <1>1, <1>2, <1>3, <1>4, <1>5 DEF ClientStep, Hello, Chat

----------------------------------------------------------------------------
(* Taking turns bounds what the mirror stores for a pair.                  *)

\* What x has said and may still say in t before it has to hear an answer.
Load(x, t) == Len(Speech(x, t)) + IF Ready(x, t) THEN 1 ELSE 0

Turns == \A x \in Client : \A t \in TunnelsOf(x) : Load(x, t) + Load(Peer[x], t) <= 2

\* What a request of c leaves of the speeches.
LEMMA SpeechLeft ==
    ASSUME TalkInv, NEW c \in Client, Moves(c), NEW x \in Client, NEW t \in TunnelsOf(x)
    PROVE  /\ Speech(x, t) \in Seq(Payload)
           /\ \/ Speech(x, t)' = Speech(x, t) /\ (Exists(t)' <=> Exists(t))
              \/ Speech(x, t)' = <<>> /\ ~Exists(t)'
              \/ Meets(c) /\ t = Own[c] /\ Speech(x, t)' = <<>>
              \/ /\ Says(c) /\ x = c /\ t = curr[c] /\ Exists(t)
                 /\ Speech(x, t)' = Append(Speech(x, t), Outgoing(c))
              \/ /\ Hears(c) /\ x = Peer[c] /\ t = curr[c] /\ (Exists(t)' <=> Exists(t))
                 /\ Speech(x, t) # <<>> /\ Speech(x, t)' = Tail(Speech(x, t))
<1>1. Speech(x, t) \in Seq(Payload)
  BY SpeechOfPair DEF TalkInv, TypeOK
<1>2. CASE Meets(c)
  <2>1. ~Exists(t)' => Speech(x, t)' = <<>>
    BY DEF Speech
  <2> QED BY <1>1, <1>2, <2>1 DEF Meets, Silent
<1>3. CASE tunnels' = tunnels
  BY <1>1, <1>3 DEF Speech, SideOf, Exists
<1>4. CASE Says(c)
  BY <1>1, <1>4 DEF Says, Pushed
<1>5. CASE Hears(c)
  BY <1>1, <1>5 DEF Hears, Pulled
<1> QED BY <1>2, <1>3, <1>4, <1>5 DEF Moves, Rests, Mutters

\* None of the moves gives a client a turn that is not its own.
LEMMA TurnsKept ==
    ASSUME TalkInv, NEW c \in Client, Turns, Aside(c), Moves(c)
    PROVE  Turns'
<1>1. SUFFICES ASSUME NEW x \in Client, NEW t \in TunnelsOf(x)
               PROVE  Load(x, t)' + Load(Peer[x], t)' <= 2
  BY DEF Turns, TunnelsOf
<1>2. /\ Peer[x] \in Client /\ Peer[x] # x /\ Peer[Peer[x]] = x /\ t \in TunnelsOf(Peer[x])
      /\ Peer[c] \in Client /\ Peer[c] # c /\ Peer[Peer[c]] = c
  BY Pairs DEF TunnelsOf
<1>3. ASSUME NEW y \in {x, Peer[x]}
      PROVE  /\ y \in Client /\ t \in TunnelsOf(y) /\ Len(Speech(y, t)) \in Nat
             /\ y # c => (Ready(y, t)' <=> Ready(y, t))
  <2>1. y \in Client /\ t \in TunnelsOf(y)
    BY <1>2
  <2>2. Speech(y, t) \in Seq(Payload)
    BY <2>1, SpeechLeft
  <2> QED BY <2>1, <2>2 DEF Aside, Ready
<1>4. ASSUME NEW y \in {x, Peer[x]}
      PROVE  LET n == Len(Speech(y, t)) IN
             \/ Len(Speech(y, t))' \in 0..n
             \/ Says(c) /\ y = c /\ t = curr[c] /\ Len(Speech(y, t))' = n + 1
  <2> DEFINE q == Speech(y, t)
  <2>1. /\ q \in Seq(Payload)
        /\ \/ Speech(y, t)' = q \/ Speech(y, t)' = <<>>
           \/ Says(c) /\ y = c /\ t = curr[c] /\ Speech(y, t)' = Append(q, Outgoing(c))
           \/ q # <<>> /\ Speech(y, t)' = Tail(q)
    BY <1>3, SpeechLeft
  <2> HIDE DEF q
  <2>2. \/ Len(Speech(y, t)') \in 0..Len(q)
        \/ Says(c) /\ y = c /\ t = curr[c] /\ Len(Speech(y, t)') = Len(q) + 1
    BY <2>1
  <2> QED BY <2>2 DEF q
<1>5. CASE c \notin {x, Peer[x]}
  <2>1. ASSUME NEW y \in {x, Peer[x]}
        PROVE  Load(y, t) \in Nat /\ Load(y, t)' \in 0..Load(y, t)
    <3> DEFINE n == Len(Speech(y, t))
               k == Len(Speech(y, t))'
    <3>1. n \in Nat /\ k \in 0..n /\ (Ready(y, t)' <=> Ready(y, t))
      BY <1>3, <1>4, <1>5
    <3>2. /\ Load(y, t) = n + IF Ready(y, t) THEN 1 ELSE 0
          /\ Load(y, t)' = k + IF Ready(y, t)' THEN 1 ELSE 0
      BY DEF Load
    <3> HIDE DEF n, k
    <3> QED BY <3>1, <3>2
  <2>2. Load(x, t) + Load(Peer[x], t) <= 2
    BY <1>1 DEF Turns
  <2>3. /\ Load(x, t) \in Nat /\ Load(x, t)' \in 0..Load(x, t)
        /\ Load(Peer[x], t) \in Nat /\ Load(Peer[x], t)' \in 0..Load(Peer[x], t)
    BY <2>1
  <2> QED BY <2>2, <2>3
<1>6. CASE c \in {x, Peer[x]}
  <2> DEFINE p == Peer[c]
             n == Len(Speech(c, t))
             k == Len(Speech(p, t))
             i == Len(Speech(c, t))'
             j == Len(Speech(p, t))'
  <2>1. {x, Peer[x]} = {c, p}
    BY <1>2, <1>6
  <2>2. Load(c, t) + Load(p, t) <= 2
    BY <1>1, <1>2, <1>6 DEF Turns
  <2>3. /\ n \in Nat /\ k \in Nat /\ (Ready(p, t)' <=> Ready(p, t))
        /\ j \in 0..k
        /\ i \in 0..n \/ (Says(c) /\ t = curr[c] /\ i = n + 1)
    BY <1>2, <1>3, <1>4, <2>1
  <2>4. /\ Load(c, t) = n + IF Ready(c, t) THEN 1 ELSE 0
        /\ Load(p, t) = k + IF Ready(p, t) THEN 1 ELSE 0
        /\ Load(c, t)' = i + IF Ready(c, t)' THEN 1 ELSE 0
        /\ Load(p, t)' = j + IF Ready(p, t)' THEN 1 ELSE 0
    BY DEF Load
  <2>5. CASE Hears(c) /\ t = curr[c]
    <3>1. ~Says(c)
      <4>1. phase[c] \in Awaiting
        BY <2>5 DEF Hears
      <4>2. Says(c) => phase[c] \in Sending
        BY DEF Says, Ready, Awaiting, Meeting, Stays, Sending
      <4> QED BY <4>1, <4>2 DEF Awaiting, Sending
    <3>2. j < k
      <4> DEFINE q == Speech(p, t)
      <4>1. q \in Seq(Payload) /\ q # <<>> /\ Speech(p, t)' = Tail(q)
        BY <1>2, <1>3, <1>6, <2>1, <2>5, SpeechLeft DEF Hears, Pulled
      <4> HIDE DEF q
      <4>2. Len(Speech(p, t)') < Len(q)
        BY <4>1
      <4> QED BY <4>2 DEF q
    <3> HIDE DEF n, k, i, j, p
    <3>3. Load(c, t)' + Load(p, t)' <= 2
      BY <2>2, <2>3, <2>4, <3>1, <3>2
    <3> QED BY <1>6, <2>1, <2>3, <2>4, <3>3
  <2>6. CASE ~(Hears(c) /\ t = curr[c])
    <3>1. Ready(c, t)' => Ready(c, t) /\ ~Says(c)
      BY <2>6 DEF Moves, Meets, Rests, Mutters, Says, Hears, Stays, Ready, Awaiting, Sending,
                  Meeting, Helloing, Chatting
    <3>2. Says(c) /\ t = curr[c] => Ready(c, t)
      BY DEF Says
    <3> HIDE DEF n, k, i, j, p
    <3>3. Load(c, t)' + Load(p, t)' <= 2
      BY <2>2, <2>3, <2>4, <3>1, <3>2
    <3> QED BY <1>6, <2>1, <2>3, <2>4, <3>3
  <2> QED BY <2>5, <2>6
<1> QED BY <1>5, <1>6

----------------------------------------------------------------------------
(* What waits in a queue is the next of what was said.                     *)

Run(q) == \A i \in 1..Len(q) : Stage(q[i]) = Stage(q[1]) + i - 1
RunFrom(q, n) == \A i \in 1..Len(q) : Stage(q[i]) = n + i

\* x is in t, and is past looking for a tunnel.
Settled(x, t) == curr[x] = t /\ Usable(x) /\ phase[x] \notin Meeting \cup {"spinning"}

\* What x has said in t follows on itself, up to the last that x has said, and on what its
\* partner has understood there.
Lined(x, t) ==
    /\ Run(Speech(x, t))
    /\ Speech(x, t) # <<>> =>
         /\ Settled(x, t)
         /\ Speaking(x) => Stage(Speech(x, t)[Len(Speech(x, t))]) = Said(x)
    /\ Listening(Peer[x]) /\ curr[Peer[x]] = t =>
         /\ Settled(x, t)
         /\ RunFrom(Speech(x, t), Read(Peer[x]))
         /\ Speaking(x) /\ Exists(t) => Said(x) = Read(Peer[x]) + Len(Speech(x, t))

\* The stage of a text is a number.
LEMMA StageIsNat ==
    ASSUME NEW m \in Payload
    PROVE  Stage(m) \in Nat
BY MessengerAssumption DEF Stage, Payload

\* One more that follows.
LEMMA RunAppend ==
    ASSUME NEW q \in Seq(Payload), NEW m \in Payload, NEW n \in Int, Run(q),
           q # <<>> => Stage(q[Len(q)]) = n, Stage(m) = n + 1
    PROVE  LET a == Append(q, m) IN
           /\ Run(a) /\ Stage(a[Len(a)]) = n + 1
           /\ \A k \in Int : RunFrom(q, k) /\ n = k + Len(q) => RunFrom(a, k) /\ n + 1 = k + Len(a)
<1> DEFINE a == Append(q, m)
<1>1. /\ Len(q) \in Nat /\ Len(a) = Len(q) + 1 /\ a[Len(a)] = m
      /\ \A i \in 1..Len(q) : a[i] = q[i]
      /\ q = <<>> => Len(q) = 0
  OBVIOUS
<1>2. \A i \in 1..Len(q) : Stage(q[i]) \in Nat
  BY StageIsNat
<1> HIDE DEF a
<1>3. Stage(a[Len(a)]) = n + 1
  BY <1>1
<1>4. \A i \in 1..Len(a) : i \in 1..Len(q) \/ i = Len(a)
  BY <1>1
<1>5. Run(a)
  <2>1. CASE Len(q) = 0
    BY <1>1, <1>3, <2>1 DEF Run
  <2>2. CASE Len(q) # 0
    <3>1. /\ 1 \in 1..Len(q) /\ Len(q) \in 1..Len(q) /\ a[1] = q[1]
      BY <1>1, <2>2
    <3>2. n = Stage(q[1]) + Len(q) - 1
      BY <1>1, <2>2, <3>1 DEF Run
    <3>3. \A i \in 1..Len(q) : Stage(a[i]) = Stage(a[1]) + i - 1
      BY <1>1, <3>1 DEF Run
    <3>4. Stage(a[Len(a)]) = Stage(a[1]) + Len(a) - 1
      BY <1>1, <1>2, <1>3, <3>1, <3>2
    <3> QED BY <1>4, <3>3, <3>4 DEF Run
  <2> QED BY <2>1, <2>2
<1>6. ASSUME NEW k \in Int, RunFrom(q, k), n = k + Len(q)
      PROVE  RunFrom(a, k) /\ n + 1 = k + Len(a)
  <2>1. n + 1 = k + Len(a)
    BY <1>1, <1>6
  <2>2. \A i \in 1..Len(q) : Stage(a[i]) = k + i
    BY <1>1, <1>6 DEF RunFrom
  <2> QED BY <1>3, <1>4, <2>1, <2>2 DEF RunFrom
<1> QED BY <1>3, <1>5, <1>6 DEF a

\* The first one less.
LEMMA RunTail ==
    ASSUME NEW q \in Seq(Payload), q # <<>>, Run(q)
    PROVE  LET a == Tail(q) IN
           /\ Run(a) /\ (a # <<>> => Stage(a[Len(a)]) = Stage(q[Len(q)]))
           /\ Len(q) = Len(a) + 1 /\ Len(a) \in Nat
           /\ \A k \in Int : RunFrom(q, k) => Stage(Head(q)) = k + 1 /\ RunFrom(a, k + 1)
           /\ RunFrom(a, Stage(Head(q))) /\ Stage(q[Len(q)]) = Stage(Head(q)) + Len(a)
           /\ Stage(Head(q)) \in Nat
<1> DEFINE a == Tail(q)
<1>1. /\ Len(q) \in Nat /\ Len(q) = Len(a) + 1 /\ Len(a) \in Nat /\ Head(q) = q[1]
      /\ \A i \in 1..Len(a) : a[i] = q[i + 1] /\ i + 1 \in 1..Len(q)
      /\ 1 \in 1..Len(q) /\ Len(q) \in 1..Len(q)
      /\ a # <<>> => Len(a) \in 1..Len(a)
  OBVIOUS
<1>2. \A i \in 1..Len(q) : Stage(q[i]) \in Nat
  BY StageIsNat
<1> HIDE DEF a
<1>3. \A i \in 1..Len(a) : Stage(a[i]) = Stage(q[1]) + i
  <2> SUFFICES ASSUME NEW i \in 1..Len(a) PROVE Stage(a[i]) = Stage(q[1]) + i
    OBVIOUS
  <2>1. Stage(q[i + 1]) = Stage(q[1]) + (i + 1) - 1
    BY <1>1 DEF Run
  <2> QED BY <1>1, <1>2, <2>1
<1>4. Stage(q[Len(q)]) = Stage(q[1]) + Len(a)
  <2>1. Stage(q[Len(q)]) = Stage(q[1]) + Len(q) - 1
    BY <1>1 DEF Run
  <2> QED BY <1>1, <1>2, <2>1
<1>5. Run(a)
  <2> SUFFICES ASSUME NEW i \in 1..Len(a) PROVE Stage(a[i]) = Stage(a[1]) + i - 1
    BY DEF Run
  <2>1. 1 \in 1..Len(a)
    BY <1>1
  <2>2. Stage(a[1]) = Stage(q[1]) + 1 /\ Stage(a[i]) = Stage(q[1]) + i
    BY <1>3, <2>1
  <2> QED BY <1>1, <1>2, <2>2
<1>6. ASSUME NEW k \in Int, RunFrom(q, k)
      PROVE  Stage(Head(q)) = k + 1 /\ RunFrom(a, k + 1)
  <2>1. Stage(Head(q)) = k + 1
    BY <1>1, <1>6 DEF RunFrom
  <2> QED BY <1>1, <1>3, <2>1 DEF RunFrom
<1>7. a # <<>> => Stage(a[Len(a)]) = Stage(q[Len(q)])
  BY <1>1, <1>3, <1>4
<1> QED BY <1>1, <1>2, <1>3, <1>4, <1>5, <1>6, <1>7 DEF a, RunFrom

\* Nothing new was said in t, and nothing more understood.
LEMMA LinedStays ==
    ASSUME NEW x \in Client, NEW t, Lined(x, t),
           \/ Speech(x, t)' = Speech(x, t) /\ (Exists(t)' <=> Exists(t))
           \/ Speech(x, t)' = <<>> /\ ~Exists(t)',
           Settled(x, t) => Settled(x, t)', Mum(x), Deaf(Peer[x]), curr'[Peer[x]] = curr[Peer[x]]
    PROVE  Lined(x, t)'
<1> DEFINE q == Speech(x, t)
<1>1. Run(<<>>) /\ \A k : RunFrom(<<>>, k)
  BY DEF Run, RunFrom
<1>2. Speech(x, t)' \in {q, <<>>}
  OBVIOUS
<1>3. Run(Speech(x, t)')
  BY <1>1, <1>2 DEF Lined
<1>4. Speech(x, t)' # <<>> =>
        /\ Settled(x, t)'
        /\ Speaking(x)' => Stage(Speech(x, t)'[Len(Speech(x, t)')]) = Said(x)'
  BY <1>2 DEF Lined, Mum
<1>5. Listening(Peer[x])' /\ curr'[Peer[x]] = t =>
        /\ Settled(x, t)'
        /\ RunFrom(Speech(x, t)', Read(Peer[x])')
        /\ Speaking(x)' /\ Exists(t)' => Said(x)' = Read(Peer[x])' + Len(Speech(x, t)')
  BY <1>1, <1>2 DEF Lined, Mum, Deaf
<1> QED BY <1>3, <1>4, <1>5 DEF Lined, Run, RunFrom

\* Whoever is not c.
LEMMA OthersAside ==
    ASSUME NEW c \in Client, Aside(c), NEW d \in Client, d # c
    PROVE  /\ Mum(d) /\ Deaf(d) /\ curr'[d] = curr[d] /\ (Listening(d)' <=> Listening(d))
           /\ Read(d)' = Read(d) /\ Said(d)' = Said(d) /\ (Speaking(d)' <=> Speaking(d))
           /\ \A t : Settled(d, t)' <=> Settled(d, t)
BY DEF Aside, Mum, Deaf, Speaking, Said, Listening, Read, Settled, Usable, Keyless

\* c's own words in t.
LEMMA LinedSpeaker ==
    ASSUME TalkInv, NEW c \in Client, Aside(c), Moves(c), NEW t \in TunnelsOf(c), Lined(c, t)
    PROVE  Lined(c, t)'
<1> DEFINE p == Peer[c]
           q == Speech(c, t)
<1>1. p \in Client /\ p # c
  BY Pairs
<1>2. /\ curr'[p] = curr[p] /\ (Listening(p)' <=> Listening(p)) /\ Read(p)' = Read(p)
      /\ Mum(p) /\ Deaf(p)
  BY <1>1, OthersAside
<1>3. Stays(c) /\ Settled(c, t) => Settled(c, t)'
  BY DEF Stays, Settled, Helloing, Chatting, Meeting
<1>4. Run(<<>>)
  BY DEF Run
<1>5. ASSUME ~Settled(c, t), Speech(c, t)' = <<>>
      PROVE  Lined(c, t)'
  BY <1>2, <1>4, <1>5 DEF Lined, Run, RunFrom
<1>6. CASE Meets(c)
  <2>1. ~Settled(c, t)
    BY <1>6 DEF Meets, Settled
  <2>2. Speech(c, t) = <<>>
    BY <2>1 DEF Lined
  <2>3. Speech(c, t)' = <<>>
    <3>1. \/ ~Exists(t)'
          \/ Exists(t) /\ Speech(c, t)' = Speech(c, t)
          \/ Speech(c, t)' = <<>>
      BY <1>6 DEF Meets, Silent
    <3> QED BY <2>2, <3>1 DEF Speech
  <2> QED BY <1>5, <2>1, <2>3
<1>7. CASE Rests(c) \/ Mutters(c) \/ Hears(c)
  <2>1. Stays(c) /\ Speech(c, t)' = Speech(c, t) /\ (Exists(t)' <=> Exists(t))
    <3>1. CASE tunnels' = tunnels
      BY <1>7, <3>1 DEF Rests, Mutters, Hears, Speech, SideOf, Exists
    <3>2. CASE Hears(c)
      BY <1>1, <3>2 DEF Hears, Pulled
    <3> QED BY <1>7, <3>1, <3>2 DEF Rests, Mutters
  <2>2. CASE Mum(c)
    BY <1>2, <1>3, <2>1, <2>2, LinedStays
  <2>3. CASE ~Settled(c, t)
    BY <1>5, <2>1, <2>3 DEF Lined
  <2>4. CASE Mutters(c) /\ Settled(c, t)
    <3>1. ~Exists(t) /\ Speech(c, t)' = <<>> /\ ~Exists(t)' /\ Settled(c, t)'
      BY <1>3, <2>1, <2>4 DEF Mutters, Settled, Speech
    <3> QED BY <1>2, <1>4, <3>1 DEF Lined, Run, RunFrom
  <2> QED BY <1>7, <2>2, <2>3, <2>4 DEF Rests, Hears
<1>8. CASE Says(c) /\ t # curr[c]
  <2>1. ~Settled(c, t) /\ Speech(c, t)' = Speech(c, t)
    BY <1>8 DEF Says, Pushed, Settled
  <2> QED BY <1>5, <2>1 DEF Lined
<1>9. CASE Says(c) /\ t = curr[c]
  <2> DEFINE m == Outgoing(c)
             n == Said(c)
  <2>1. /\ Settled(c, t)' /\ Exists(t) /\ Speech(c, t)' = Append(q, m)
        /\ Stage(m) = n + 1 /\ Speaking(c) /\ (Speaking(c)' => Said(c)' = n + 1)
    <3>1. Settled(c, t)
      BY <1>9 DEF Says, Stays, Settled, Sending, Awaiting, Meeting
    <3> QED BY <1>3, <1>9, <3>1 DEF Says, Pushed
  <2>2. q \in Seq(Payload) /\ m \in Payload /\ n \in Int /\ Read(p) \in Int
    <3>1. q \in Seq(Payload)
      BY SpeechLeft
    <3>2. m \in Payload
      <4>1. phase[c] \in Sending
        BY <1>9 DEF Says, Stays, Ready, Sending, Awaiting, Meeting
      <4> QED BY <4>1, OutgoingIsPayload, PayloadAssumption DEF TalkInv
    <3>3. sent[c] \in Int /\ got[p] \in Int
      BY <1>1, MessengerAssumption DEF TalkInv, TypeOK
    <3> QED BY <3>1, <3>2, <3>3 DEF Said, Read
  <2>3. Run(q) /\ (q # <<>> => Stage(q[Len(q)]) = n)
    BY <2>1 DEF Lined
  <2>4. Listening(p) /\ curr[p] = t => RunFrom(q, Read(p)) /\ n = Read(p) + Len(q)
    BY <2>1 DEF Lined
  <2> DEFINE a == Append(q, m)
  <2>5. /\ Run(a) /\ Stage(a[Len(a)]) = n + 1
        /\ \A k \in Int : RunFrom(q, k) /\ n = k + Len(q) => RunFrom(a, k) /\ n + 1 = k + Len(a)
    <3> HIDE DEF q, m, n
    <3> QED BY <2>1, <2>2, <2>3, RunAppend
  <2>6. Speech(c, t)' = a
    BY <2>1
  <2>7. Listening(p) /\ curr[p] = t => RunFrom(a, Read(p)) /\ n + 1 = Read(p) + Len(a)
    BY <2>2, <2>4, <2>5
  <2> HIDE DEF a, n
  <2>8. /\ Run(Speech(c, t)')
        /\ Speaking(c)' => Stage(Speech(c, t)'[Len(Speech(c, t)')]) = Said(c)'
    BY <2>1, <2>5, <2>6
  <2>9. Listening(p)' /\ curr'[p] = t =>
          /\ RunFrom(Speech(c, t)', Read(p)')
          /\ Speaking(c)' => Said(c)' = Read(p)' + Len(Speech(c, t)')
    BY <1>2, <2>1, <2>6, <2>7
  <2> QED BY <2>1, <2>8, <2>9 DEF Lined, Run, RunFrom
<1> QED BY <1>6, <1>7, <1>8, <1>9 DEF Moves

\* What c's partner has said in t.
LEMMA LinedListener ==
    ASSUME TalkInv, NEW c \in Client, Aside(c), Moves(c), NEW t \in TunnelsOf(c), Lined(Peer[c], t)
    PROVE  Lined(Peer[c], t)' /\ (Hears(c) /\ t = curr[c] => Level(c)')
<1> DEFINE x == Peer[c]
           q == Speech(x, t)
<1>1. x \in Client /\ x # c /\ Peer[x] = c /\ t \in TunnelsOf(x)
  BY Pairs DEF TunnelsOf
<1>2. /\ Mum(x) /\ Said(x)' = Said(x) /\ (Speaking(x)' <=> Speaking(x))
      /\ Settled(x, t)' <=> Settled(x, t)
  BY <1>1, OthersAside
<1>3. Run(<<>>)
  BY DEF Run
<1>4. CASE Meets(c)
  <2>1. ~Listening(c)'
    BY <1>4 DEF Meets, Listening, Meeting, Chatting
  <2>2. Speech(x, t)' = q \/ Speech(x, t)' = <<>>
    BY <1>1, <1>4 DEF Meets, Silent, Speech
  <2>3. ~Hears(c)
    BY <1>4 DEF Meets, Hears, Meeting, Awaiting
  <2> QED BY <1>1, <1>2, <1>3, <2>1, <2>2, <2>3 DEF Lined, Run
<1>5. CASE Rests(c) \/ Mutters(c) \/ Says(c)
  <2>1. Stays(c) /\ Deaf(c) /\ Speech(x, t)' = q /\ (Exists(t)' <=> Exists(t))
    <3>1. CASE tunnels' = tunnels
      BY <1>5, <3>1 DEF Rests, Mutters, Says, Speech, SideOf, Exists
    <3>2. CASE Says(c)
      BY <1>1, <3>2 DEF Says, Pushed
    <3> QED BY <1>5, <3>1, <3>2 DEF Rests, Mutters
  <2>2. curr'[c] = curr[c]
    BY <2>1 DEF Stays
  <2>3. Lined(x, t)'
    <3> HIDE DEF x
    <3> QED BY <1>1, <1>2, <2>1, <2>2, LinedStays DEF x
  <2>4. CASE ~(Hears(c) /\ t = curr[c])
    BY <2>3, <2>4
  <2>5. CASE Hears(c) /\ t = curr[c]
    <3>1. Speech(x, t) # <<>> /\ Speech(x, t)' = Tail(Speech(x, t)) /\ Speech(x, t) \in Seq(Payload)
      BY <1>1, <2>5, SpeechLeft DEF Hears, Pulled
    <3>2. Len(Speech(x, t)') # Len(Speech(x, t))
      BY <3>1
    <3> QED BY <2>1, <3>2
  <2> QED BY <2>4, <2>5
<1>6. CASE Hears(c) /\ t # curr[c]
  <2>1. Speech(x, t)' = q /\ curr'[c] # t
    BY <1>1, <1>6 DEF Hears, Pulled, Stays
  <2> QED BY <1>1, <1>2, <1>6, <2>1 DEF Lined, Run
<1>7. CASE Hears(c) /\ t = curr[c]
  <2> DEFINE m == Head(q)
             a == Tail(q)
  <2>1. /\ Speech(x, t)' = a /\ q # <<>> /\ (Exists(t)' <=> Exists(t))
        /\ Listening(c)' => \/ Stage(m) = 1 /\ Read(c)' = 1
                            \/ Listening(c) /\ (Stage(m) = Read(c) + 1 => Read(c)' = Read(c) + 1)
        /\ Stage(m) = Read(c) + 1 \/ ~Listening(c) => Level(c)'
    BY <1>1, <1>7 DEF Hears, Pulled
  <2>2. q \in Seq(Payload) /\ Read(c) \in Int
    <3>1. q \in Seq(Payload)
      BY <1>1, SpeechLeft
    <3>2. got[c] \in Int
      BY MessengerAssumption DEF TalkInv, TypeOK
    <3> QED BY <3>1, <3>2 DEF Read
  <2>3. /\ Run(q) /\ Settled(x, t)
        /\ Speaking(x) => Stage(q[Len(q)]) = Said(x)
        /\ Listening(c) => RunFrom(q, Read(c))
    BY <1>1, <1>7, <2>1 DEF Lined
  <2>4. /\ Run(a) /\ (a # <<>> => Stage(a[Len(a)]) = Stage(q[Len(q)]))
        /\ \A k \in Int : RunFrom(q, k) => Stage(m) = k + 1
        /\ RunFrom(a, Stage(m)) /\ Stage(q[Len(q)]) = Stage(m) + Len(a)
    <3> HIDE DEF q
    <3> QED BY <2>1, <2>2, <2>3, RunTail
  <2> HIDE DEF a, m
  <2>5. Listening(c) => Stage(m) = Read(c) + 1
    BY <2>2, <2>3, <2>4
  <2>6. Listening(c)' => Read(c)' = Stage(m)
    BY <2>1, <2>5
  <2>7. Level(c)'
    BY <2>1, <2>5
  <2>8. Speech(x, t)' # <<>> /\ Speaking(x)' => Stage(Speech(x, t)'[Len(Speech(x, t)')]) = Said(x)'
    BY <1>2, <2>1, <2>3, <2>4
  <2>9. Listening(c)' =>
          /\ RunFrom(Speech(x, t)', Read(c)')
          /\ Speaking(x)' => Said(x)' = Read(c)' + Len(Speech(x, t)')
    BY <1>2, <2>1, <2>3, <2>4, <2>6
  <2>10. Run(Speech(x, t)')
    BY <2>1, <2>4
  <2> QED BY <1>1, <1>2, <2>3, <2>7, <2>8, <2>9, <2>10 DEF Lined, Run, RunFrom
<1> QED BY <1>4, <1>5, <1>6, <1>7 DEF Moves

\* Other pairs.
LEMMA LinedOthers ==
    ASSUME TalkInv, NEW c \in Client, Aside(c), Moves(c), NEW x \in Client, x # c, Peer[x] # c,
           NEW t \in TunnelsOf(x), Lined(x, t)
    PROVE  Lined(x, t)'
<1>1. Peer[x] \in Client /\ t # Own[c] /\ x # Peer[c]
  <2>1. Peer[x] \in Client /\ Peer[Peer[c]] = c
    BY Pairs
  <2>2. Own[c] # Own[x] /\ Own[c] # Own[Peer[x]]
    BY <2>1, Pairs
  <2> QED BY <2>1, <2>2 DEF TunnelsOf
<1>2. Mum(x) /\ Deaf(Peer[x]) /\ curr'[Peer[x]] = curr[Peer[x]] /\ (Settled(x, t)' <=> Settled(x, t))
  BY <1>1, OthersAside
<1>3. \/ Speech(x, t)' = Speech(x, t) /\ (Exists(t)' <=> Exists(t))
      \/ Speech(x, t)' = <<>> /\ ~Exists(t)'
  BY <1>1, SpeechLeft
<1> QED BY <1>2, <1>3, LinedStays

----------------------------------------------------------------------------
(* The invariant of the conversation's order, whatever the cleaner and the *)
(* timeouts do.                                                            *)

Orderly(c) == Timely(c) /\ Fresh(c) /\ Level(c)

InLine == \A x \in Client : \A t \in TunnelsOf(x) : Lined(x, t)

OrderInv == TalkInv /\ Owned /\ Turns /\ InLine /\ \A c \in Client : Orderly(c)

\* A client's step keeps the turns, the line and everybody's order.
LEMMA StepOrder ==
    ASSUME OrderInv, NEW c \in Client, ClientStep(c) \/ TimeOut(c)
    PROVE  Turns' /\ InLine' /\ \A d \in Client : Orderly(d)'
<1>1. TalkInv /\ Turns /\ InLine /\ Orderly(c)
  BY DEF OrderInv
<1>2. Aside(c) /\ Moves(c) /\ Timely(c)' /\ Fresh(c)' /\ (Hears(c) \/ Level(c)')
  BY <1>1, ClientMoves DEF Orderly
<1>3. Turns'
  BY <1>1, <1>2, TurnsKept
<1>4. Peer[c] \in Client /\ Peer[c] # c /\ Peer[Peer[c]] = c /\ TunnelsOf(Peer[c]) = TunnelsOf(c)
  BY Pairs DEF TunnelsOf
<1>5. \A t \in TunnelsOf(c) : Lined(c, t)' /\ Lined(Peer[c], t)' /\ (Hears(c) /\ t = curr[c] => Level(c)')
  BY <1>1, <1>2, <1>4, LinedSpeaker, LinedListener DEF InLine
<1>6. InLine'
  <2> SUFFICES ASSUME NEW x \in Client, NEW t \in TunnelsOf(x) PROVE Lined(x, t)'
    BY DEF InLine, TunnelsOf
  <2>1. Peer[x] \in Client /\ Peer[Peer[x]] = x
    BY Pairs
  <2>2. CASE x = c \/ Peer[x] = c
    BY <1>4, <1>5, <2>1, <2>2
  <2>3. CASE x # c /\ Peer[x] # c
    BY <1>1, <1>2, <2>3, LinedOthers DEF InLine
  <2> QED BY <2>2, <2>3
<1>7. Level(c)'
  <2>1. CASE Hears(c)
    <3>1. curr[c] \in TunnelsOf(c)
      BY <1>1, <2>1, UsableIsPair DEF Hears, TalkInv, TunnelsOf
    <3> QED BY <1>5, <2>1, <3>1
  <2> QED BY <1>2, <2>1
<1>8. \A d \in Client \ {c} : Orderly(d)'
  BY <1>2 DEF OrderInv, Orderly, Aside, Timely, Fresh, Level, Keyless
<1> QED BY <1>2, <1>3, <1>6, <1>7, <1>8 DEF Orderly

\* Who asks for a tunnel owns it.
LEMMA StepOwned ==
    ASSUME TalkInv, Owned, NEW c \in Client, ClientStep(c) \/ TimeOut(c)
    PROVE  Owned'
<1>1. CASE tunnels' = tunnels
  BY <1>1 DEF Owned, Exists
<1>2. CASE \E b \in Replies(c) : Handled(c, b) /\ (phase[c] \in Meeting \/ Usable(c))
  BY <1>2, RequestOwned DEF TalkInv
<1>3. ASSUME NEW a, Call(c, a), phase[c] \in Meeting \/ Usable(c)
      PROVE  Owned'
  BY <1>2, <1>3 DEF Call
<1>4. CASE Meet(c)
  <2>1. phase[c] \in Meeting /\ \E a \in Heard(c) : Call(c, a)
    BY <1>4 DEF Meet, Create, AskOther, CloseMine, Connect, AskMine, Meeting
  <2> QED BY <1>3, <2>1
<1>5. CASE Sent(c) \/ (SendAes(c) /\ Keyless(c))
  BY <1>1, <1>3, <1>5 DEF Sent, SendAes, tunnelVars
<1>6. CASE Poll(c) \/ AwaitKey(c) \/ AwaitAes(c) \/ AwaitEcho(c) \/ AwaitMsg(c)
  BY <1>3, <1>6 DEF Poll, AwaitKey, AwaitAes, AwaitEcho, AwaitMsg, Received
<1>7. CASE TimeOut(c)
  BY <1>1, <1>2, <1>7 DEF TimeOut, tunnelVars
<1>8. SendKey(c) \/ SendAes(c) \/ SendHello(c) \/ SendMsg(c) => Sent(c) \/ (SendAes(c) /\ Keyless(c))
  BY DEF SendKey, SendAes, SendHello, SendMsg
<1> QED BY <1>4, <1>5, <1>6, <1>7, <1>8 DEF ClientStep, Hello, Chat

\* What the cleaner takes was nobody's turn.
LEMMA CleanOrder ==
    ASSUME OrderInv, UNCHANGED <<phase, pairVars, talkVars, waitVars>>,
           \A u \in Tun : tunnels'[u] \in {tunnels[u], None}
    PROVE  Owned' /\ Turns' /\ InLine' /\ \A c \in Client : Orderly(c)'
<1>1. Owned'
  BY DEF OrderInv, Owned, Exists
<1>2. \A c \in Client : Orderly(c)'
  BY DEF OrderInv, Orderly, Timely, Fresh, Level, Keyless, talkVars, waitVars
<1>3. ASSUME NEW x \in Client, NEW t \in TunnelsOf(x)
      PROVE  /\ Speech(x, t) \in Seq(Payload)
             /\ \/ Speech(x, t)' = Speech(x, t) /\ (Exists(t)' <=> Exists(t))
                \/ Speech(x, t)' = <<>> /\ ~Exists(t)'
  <2>1. t \in Tun /\ Speech(x, t) \in Seq(Payload)
    BY SpeechOfPair DEF OrderInv, TalkInv, TypeOK
  <2> QED BY <2>1 DEF Speech, SideOf, Exists
<1>4. ASSUME NEW x \in Client
      PROVE  /\ Mum(x) /\ Deaf(x) /\ curr'[x] = curr[x] /\ \A t : Settled(x, t)' <=> Settled(x, t)
             /\ \A t : Ready(x, t)' <=> Ready(x, t)
  BY DEF Mum, Deaf, Speaking, Said, Listening, Read, Settled, Ready, Usable, Keyless, pairVars,
         talkVars, waitVars
<1>5. ASSUME NEW x \in Client, NEW t \in TunnelsOf(x)
      PROVE  /\ Peer[x] \in Client /\ t \in TunnelsOf(Peer[x])
             /\ Lined(x, t) /\ Load(x, t) + Load(Peer[x], t) <= 2
  BY Pairs DEF OrderInv, InLine, Turns, TunnelsOf
<1>6. InLine'
  <2> SUFFICES ASSUME NEW x \in Client, NEW t \in TunnelsOf(x) PROVE Lined(x, t)'
    BY DEF InLine, TunnelsOf
  <2> QED BY <1>3, <1>4, <1>5, LinedStays
<1>7. ASSUME NEW x \in Client, NEW t \in TunnelsOf(x)
      PROVE  Load(x, t) \in Nat /\ Load(x, t)' \in 0..Load(x, t)
  <2> DEFINE n == Len(Speech(x, t))
             k == Len(Speech(x, t))'
  <2>1. n \in Nat /\ k \in 0..n
    BY <1>3
  <2>2. /\ Load(x, t) = n + IF Ready(x, t) THEN 1 ELSE 0
        /\ Load(x, t)' = k + IF Ready(x, t)' THEN 1 ELSE 0
        /\ Ready(x, t)' <=> Ready(x, t)
    BY <1>4 DEF Load
  <2> HIDE DEF n, k
  <2> QED BY <2>1, <2>2
<1>8. Turns'
  <2> SUFFICES ASSUME NEW x \in Client, NEW t \in TunnelsOf(x)
               PROVE  Load(x, t)' + Load(Peer[x], t)' <= 2
    BY DEF Turns, TunnelsOf
  <2>1. /\ Load(x, t) \in Nat /\ Load(x, t)' \in 0..Load(x, t)
        /\ Load(Peer[x], t) \in Nat /\ Load(Peer[x], t)' \in 0..Load(Peer[x], t)
    BY <1>5, <1>7
  <2> QED BY <1>5, <2>1
<1> QED BY <1>1, <1>2, <1>6, <1>8

\* The order of the conversation holds in every reachable state.
THEOREM OrderInvariant == Spec => []OrderInv
<1>1. Init => OrderInv
  <2> SUFFICES ASSUME Init PROVE OrderInv
    OBVIOUS
  <2>1. TalkInv
    BY TalkInit
  <2>2. \A x \in Client : \A t \in TunnelsOf(x) : t \in Tun /\ ~Exists(t) /\ Speech(x, t) = <<>>
    BY Pairs DEF Init, InitTunnels, TunnelsOf, Speech, Exists
  <2>3. Owned
    BY DEF Owned, Init, InitTunnels, Exists
  <2>4. \A x \in Client : \A t : Ready(x, t) /\ ~Listening(x)
    BY DEF Init, Ready, Listening, Meeting, Chatting
  <2>5. Turns
    <3>1. ASSUME NEW x \in Client, NEW t \in TunnelsOf(x)
          PROVE  Load(x, t) = 1 /\ Peer[x] \in Client /\ t \in TunnelsOf(Peer[x])
      BY <2>2, <2>4, Pairs DEF Load, TunnelsOf
    <3> QED BY <3>1 DEF Turns
  <2>6. InLine
    BY <2>2, <2>4, Pairs DEF InLine, Lined, Run
  <2>7. \A c \in Client : Orderly(c)
    <3>1. \A c \in Client : phase[c] = "start" /\ mail[c] = <<>> /\ got[c] = 0
      BY DEF Init
    <3>2. Worded(<<>>)
      BY DEF Worded
    <3> QED BY <3>1, <3>2 DEF Orderly, Timely, Fresh, Level, Chatting
  <2> QED BY <2>1, <2>3, <2>5, <2>6, <2>7 DEF OrderInv
<1>2. OrderInv /\ [Next]_vars => OrderInv'
  <2> SUFFICES ASSUME OrderInv, [Next]_vars PROVE OrderInv'
    OBVIOUS
  <2>1. TalkInv'
    BY TalkStep DEF OrderInv
  <2>2. ASSUME NEW c \in Client, ClientStep(c) \/ TimeOut(c)
        PROVE  OrderInv'
    BY <2>1, <2>2, StepOrder, StepOwned DEF OrderInv
  <2>3. CASE Clean /\ UNCHANGED <<phase, pairVars, talkVars, waitVars>>
    <3>1. \A u \in Tun : tunnels'[u] \in {tunnels[u], None}
      BY <2>3 DEF Clean, ReadClock, Collect, Tick, OrderInv, TalkInv, TypeOK, TunnelsTypeOK
    <3> QED BY <2>1, <2>3, <3>1, CleanOrder DEF OrderInv
  <2>4. CASE UNCHANGED vars
    <3>1. UNCHANGED <<phase, pairVars, talkVars, waitVars>> /\ \A u \in Tun : tunnels'[u] \in {tunnels[u], None}
      BY <2>4 DEF vars, tunnelVars
    <3> QED BY <2>1, <3>1, CleanOrder DEF OrderInv
  <2> QED BY <2>2, <2>3, <2>4 DEF Next
<1> QED BY <1>1, <1>2, PTL DEF Spec

\* Round k reads message k: none is lost, repeated or out of its turn for whoever is still
\* in the conversation, though answers come late, requests run without one and the cleaner
\* takes tunnels away.
THEOREM MessagesInOrder == Spec => []InOrder
<1>1. OrderInv => InOrder
  BY DEF OrderInv, Orderly, Level, InOrder
<1> QED BY <1>1, OrderInvariant, PTL

\* No queue of the mirror holds more than two payloads of a pair.
THEOREM FewWait == Spec => []AtMostTwoWaiting
<1>1. OrderInv => AtMostTwoWaiting
  <2> SUFFICES ASSUME OrderInv, NEW t \in Tun, Exists(t), NEW s \in Side
               PROVE  Len(tunnels[t].queue[s]) <= 2
    BY DEF AtMostTwoWaiting
  <2>1. PICK d \in Client : t = Own[d]
    BY DEF OrderInv, Owned
  <2>2. /\ Peer[d] \in Client /\ Own[d] # Own[Peer[d]]
        /\ t \in TunnelsOf(d) /\ t \in TunnelsOf(Peer[d])
    BY <2>1, Pairs DEF TunnelsOf
  <2>3. /\ s = "from" => tunnels[t].queue[s] = Speech(d, t)
        /\ s = "to" => tunnels[t].queue[s] = Speech(Peer[d], t)
    BY <2>1, <2>2 DEF Speech, SideOf
  <2>4. ASSUME NEW x \in {d, Peer[d]}
        PROVE  Len(Speech(x, t)) \in Nat /\ Load(x, t) \in Nat /\ Len(Speech(x, t)) <= Load(x, t)
    <3>1. Speech(x, t) \in Seq(Payload)
      BY <2>2, SpeechOfPair DEF OrderInv, TalkInv, TypeOK
    <3> DEFINE n == Len(Speech(x, t))
    <3>2. n \in Nat /\ Load(x, t) = n + IF Ready(x, t) THEN 1 ELSE 0
      BY <3>1 DEF Load
    <3> HIDE DEF n
    <3>3. Load(x, t) \in Nat /\ n <= Load(x, t)
      BY <3>2
    <3> QED BY <3>2, <3>3 DEF n
  <2>5. Load(d, t) + Load(Peer[d], t) <= 2
    BY <2>2 DEF OrderInv, Turns
  <2>6. Len(Speech(d, t)) <= 2 /\ Len(Speech(Peer[d], t)) <= 2
    BY <2>4, <2>5
  <2> QED BY <2>3, <2>6 DEF Side
<1> QED BY <1>1, OrderInvariant, PTL
=============================================================================
