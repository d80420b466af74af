----------------------------- MODULE Messenger -----------------------------
(***************************************************************************)
(* Two messengers, ReNClient (messenger/system/client.hpp) run by          *)
(* msg_client.cpp, meet on the mirror.  Each opens a tunnel of its own and *)
(* looks for the other's: who finds it closes its own and connects, who    *)
(* finds only its own stays there.  On the tunnel they met they exchange   *)
(* RSA keys, AES keys and an encrypted "hello", and then messages in turn. *)
(*                                                                         *)
(* A call of mirror::Client sends a request and takes the oldest unread    *)
(* answer for its own: after a receive timeout that may be a late one.     *)
(* The layers below carry a request and its answer once, unchanged, when   *)
(* they carry it: the encrypted layer is ErNet, and what damaged, repeated *)
(* or overtaken datagrams do to the calls is in Calls.                     *)
(***************************************************************************)
EXTENDS Tunnels

CONSTANTS
    Own,            \* the tunnel uid of each client (regme)
    Peer,           \* whose tunnel uid its user enters
    MaxRounds,      \* messages each one sends (10 in msg_client.cpp)
    Reaping,        \* the mirror's cleaner runs meanwhile
    Timeouts        \* an answer may miss its call

ASSUME MessengerAssumption ==
    /\ Own \in [Client -> Tun] /\ Peer \in [Client -> Client]
    /\ \A c, d \in Client : Own[c] = Own[d] => c = d
    /\ \A c \in Client : Peer[c] # c /\ Peer[Peer[c]] = c
    /\ MaxRounds \in Nat \ {0}
    /\ {Reaping, Timeouts} \subseteq BOOLEAN

VARIABLES
    phase,          \* the call each client makes next
    mail,           \* the answers in each client's socket that nobody has read
    stopped,        \* the futures of wait_first that an exception has stopped
    curr,           \* curr_tunnel
    opened,         \* the keys of c_tunnels
    connected,      \* connected_to
    otherPub,       \* whose RSA key other_pb is
    otherAes,       \* whose AES key other_aes is
    sent,           \* messages sent
    got             \* the number of the last message read

pairVars == <<curr, opened, connected>>
talkVars == <<otherPub, otherAes, sent, got>>
waitVars == <<mail, stopped>>
vars == <<tunnelVars, phase, pairVars, talkVars, waitVars>>

\* A payload: whose key, "hello" or message it is, and for whom it is sealed.
Payload == [kind : {"pub", "aes", "hello", "msg"}, from : Client,
            seal : AnyUid \cup {None}, n : 0..MaxRounds]

ASSUME PayloadAssumption == Message = Payload /\ None \notin Payload /\ None \notin Tunnel

Pack(kind, c, seal, n) == [kind |-> kind, from |-> c, seal |-> seal, n |-> n]

Init ==
    /\ InitTunnels
    /\ phase = [c \in Client |-> "start"]
    /\ mail = [c \in Client |-> <<>>]
    /\ stopped = [c \in Client |-> {}]
    /\ curr = [c \in Client |-> None]
    /\ opened = [c \in Client |-> {}]
    /\ connected = [c \in Client |-> {}]
    /\ otherPub = [c \in Client |-> None]
    /\ otherAes = [c \in Client |-> None]
    /\ sent = [c \in Client |-> 0]
    /\ got = [c \in Client |-> 0]

Meeting == {"start", "askOther", "closeMine", "connect", "askMine"}
Sending == {"sendKey", "sendAes", "sendHello", "sendMsg"}
Awaiting == {"awaitKey", "awaitAes", "awaitEcho", "awaitMsg"}

Goto(c, p) == phase' = [phase EXCEPT ![c] = p]

----------------------------------------------------------------------------
(* A call of mirror::Client.                                               *)

\* An answer of the mirror: a word, or "data" with its payload.
Answer == [text : {"ok", "yes", "no", "alr-exists", "not-exists", "alr-conn", "only-one",
                   "no-data", "data"},
           load : Payload \cup {None}]

\* The tunnels mirror::Client lets its caller send to and receive from.
Usable(c) == curr[c] \in opened[c] \cup connected[c]

Inboxed(c) == tunnels[curr[c]].queue[Inbox(c, curr[c])]

\* The answers worth looking at: every word, and the payload c may receive.
Replies(c) ==
    [text : {"ok", "yes", "no", "alr-exists", "not-exists", "alr-conn", "only-one", "no-data"},
     load : {None}]
    \cup IF phase[c] \in Awaiting /\ Exists(curr[c]) /\ Inboxed(c) # <<>>
         THEN [text : {"data"}, load : {Head(Inboxed(c))}] ELSE {}

\* What a sending phase puts on the tunnel.
Outgoing(c) ==
    CASE phase[c] = "sendKey"   -> Pack("pub", c, None, 0)
      [] phase[c] = "sendAes"   -> Pack("aes", c, otherPub[c], 0)
      [] phase[c] = "sendHello" -> Pack("hello", c, None, 0)
      [] phase[c] = "sendMsg"   -> Pack("msg", c, None, sent[c] + 1)

\* The mirror runs the request of c's present call.
Handled(c, b) ==
    \/ phase[c] = "start" /\ OpenTunnel(c, Own[c], b.text)
    \/ phase[c] = "askOther" /\ CheckExist(c, Own[Peer[c]], b.text)
    \/ phase[c] = "closeMine" /\ CloseTunnel(c, Own[c], b.text)
    \/ phase[c] = "connect" /\ ConnTunnel(c, Own[Peer[c]], b.text)
    \/ phase[c] = "askMine" /\ CheckExist(c, Own[c], b.text)
    \/ phase[c] \in Sending /\ SendBytes(c, curr[c], Outgoing(c), b.text)
    \/ phase[c] \in Awaiting /\ RecvBytes(c, curr[c], b.load, b.text)

\* The socket once answer b has arrived.
Unread(c, b) == Append(mail[c], b)

\* The request is run, and a is the oldest answer in the socket.
Call(c, a) == \E b \in Replies(c) :
    /\ Handled(c, b)
    /\ a = Head(Unread(c, b))
    /\ mail' = [mail EXCEPT ![c] = Tail(Unread(c, b))]

\* What c may hear.
Heard(c) == IF mail[c] = <<>> THEN Replies(c) ELSE {Head(mail[c])}

\* The lists change before the request goes out.
Listing(c) ==
    opened' = [opened EXCEPT ![c] =
        IF phase[c] = "start" THEN @ \cup {Own[c]}
        ELSE IF phase[c] = "closeMine" THEN @ \ {Own[c]} ELSE @]

\* wait_first stops a future that throws, and goes on with the other; it spins
\* for ever when none is left.
Stop(c, f) ==
    /\ stopped' = [stopped EXCEPT ![c] = @ \cup {f}]
    /\ Goto(c, IF {"askOther", "askMine"} \subseteq stopped'[c] THEN "spinning"
               ELSE IF f = "askOther" THEN "askMine" ELSE "askOther")

\* No padding fits a key that is none.
Keyless(c) == phase[c] = "sendAes" /\ otherPub[c] = Garbage

\* No answer in time: the request is lost, or run with its answer late or lost.
\* An exception outside wait_first ends the program.
TimeOut(c) ==
    /\ Timeouts
    /\ phase[c] \in Meeting \/ (phase[c] \in Sending \cup Awaiting /\ Usable(c))
    /\ ~Keyless(c)
    /\ mail[c] = <<>>
    /\ \/ UNCHANGED <<tunnelVars, mail>>
       \/ \E b \in Replies(c) :
            /\ Handled(c, b)
            /\ mail' \in {mail, [mail EXCEPT ![c] = Append(@, b)]}
    /\ Listing(c)
    /\ \/ phase[c] \in {"askOther", "closeMine", "connect"} /\ Stop(c, "askOther")
       \/ phase[c] = "askMine" /\ Stop(c, "askMine")
       \/ phase[c] \notin Meeting \ {"start"} /\ Goto(c, "failed") /\ UNCHANGED stopped
    /\ UNCHANGED <<curr, connected, talkVars>>

----------------------------------------------------------------------------
(* connect                                                                 *)

\* Mutant: wait_first asks for its own tunnel first.
AskMineFirst == "askMine"

\* The first future wait_first asks.
FirstAsk == "askOther"

Create(c) == \E a \in Heard(c) :
    /\ phase[c] = "start"
    /\ Call(c, a)
    /\ Listing(c)
    /\ Goto(c, IF a.text = "ok" THEN FirstAsk ELSE "failed")
    /\ UNCHANGED <<curr, connected, talkVars, stopped>>

\* Anything but "no" is a yes.
AskOther(c) == \E a \in Heard(c) :
    /\ phase[c] = "askOther"
    /\ Call(c, a)
    /\ Goto(c, IF a.text # "no" THEN "closeMine"
               ELSE IF "askMine" \in stopped[c] THEN "askOther" ELSE "askMine")
    /\ UNCHANGED <<pairVars, talkVars, stopped>>

\* Mutant: my own tunnel stays open.
KeepMine(c) ==
    /\ phase[c] = "closeMine"
    /\ Goto(c, "connect")
    /\ UNCHANGED <<tunnelVars, pairVars, talkVars, waitVars>>

CloseMine(c) == \E a \in Heard(c) :
    /\ phase[c] = "closeMine"
    /\ Call(c, a)
    /\ Listing(c)
    /\ Goto(c, "connect")
    /\ UNCHANGED <<curr, connected, talkVars, stopped>>

\* The answer decides whether the tunnel is listed, and nothing else: it is
\* the current one either way.
Connect(c) == LET t == Own[Peer[c]] IN \E a \in Heard(c) :
    /\ phase[c] = "connect"
    /\ Call(c, a)
    /\ connected' = IF a.text = "ok" THEN [connected EXCEPT ![c] = @ \cup {t}] ELSE connected
    /\ curr' = [curr EXCEPT ![c] = t]
    /\ Goto(c, "sendKey")
    /\ UNCHANGED <<opened, talkVars, stopped>>

AskMine(c) == \E a \in Heard(c) :
    /\ phase[c] = "askMine"
    /\ Call(c, a)
    /\ \/ /\ a.text # "no"
          /\ curr' = [curr EXCEPT ![c] = Own[c]]
          /\ Goto(c, "sendKey")
       \/ /\ a.text = "no"
          /\ Goto(c, IF "askOther" \in stopped[c] THEN "askMine" ELSE "askOther")
          /\ UNCHANGED curr
    /\ UNCHANGED <<opened, connected, talkVars, stopped>>

----------------------------------------------------------------------------
(* crypto_hello, and the loop of msg_client.cpp                            *)

\* send: its verdict is ignored, and of a tunnel that is not listed it does
\* nothing.
Sent(c) == IF Usable(c) THEN \E a \in Heard(c) : Call(c, a) ELSE UNCHANGED <<tunnelVars, mail>>

\* recv finds nothing and the future asks again, or the tunnel is gone and recv
\* throws.  Of a tunnel that is not listed recv always says there is nothing.
Poll(c) == \E a \in Heard(c) :
    /\ phase[c] \in Awaiting
    /\ Usable(c)
    /\ Call(c, a)
    /\ \/ a.text = "no-data" /\ UNCHANGED phase
       \/ a.text = "not-exists" /\ Goto(c, "failed")
    /\ UNCHANGED <<pairVars, talkVars, stopped>>

\* recv returns something: a payload, or a word that was not meant for it.
Received(c, a) ==
    /\ Usable(c)
    /\ Call(c, a)
    /\ a.text \notin {"no-data", "not-exists"}

\* a is a payload of this kind from d.
Is(a, kind, d) == a.load # None /\ a.load.kind = kind /\ a.load.from = d

SendKey(c) ==
    /\ phase[c] = "sendKey"
    /\ Sent(c)
    /\ Goto(c, "awaitKey")
    /\ UNCHANGED <<pairVars, talkVars, stopped>>

\* Whatever arrives is loaded as a key.
AwaitKey(c) == \E a \in Heard(c) :
    /\ phase[c] = "awaitKey"
    /\ Received(c, a)
    /\ \E d \in AnyUid :
         /\ otherPub' = [otherPub EXCEPT ![c] = d]
         /\ Is(a, "pub", d) \/ (d = Garbage /\ \A e \in Client : ~Is(a, "pub", e))
    /\ Goto(c, "sendAes")
    /\ UNCHANGED <<pairVars, otherAes, sent, got, stopped>>

SendAes(c) ==
    /\ phase[c] = "sendAes"
    /\ \/ ~Keyless(c) /\ Sent(c) /\ Goto(c, "awaitAes")
       \/ Keyless(c) /\ Goto(c, "failed") /\ UNCHANGED <<tunnelVars, mail>>
    /\ UNCHANGED <<pairVars, talkVars, stopped>>

AwaitAes(c) == \E a \in Heard(c) :
    /\ phase[c] = "awaitAes"
    /\ Received(c, a)
    /\ \/ \E d \in Client :
            /\ Is(a, "aes", d) /\ a.load.seal = c
            /\ otherAes' = [otherAes EXCEPT ![c] = d]
            /\ Goto(c, "sendHello")
       \/ /\ ~\E d \in Client : Is(a, "aes", d) /\ a.load.seal = c
          /\ Goto(c, "failed")
          /\ UNCHANGED otherAes
    /\ UNCHANGED <<pairVars, otherPub, sent, got, stopped>>

SendHello(c) ==
    /\ phase[c] = "sendHello"
    /\ Sent(c)
    /\ Goto(c, "awaitEcho")
    /\ UNCHANGED <<pairVars, talkVars, stopped>>

AwaitEcho(c) == \E a \in Heard(c) :
    /\ phase[c] = "awaitEcho"
    /\ Received(c, a)
    /\ Goto(c, IF Is(a, "hello", otherAes[c]) THEN "sendMsg" ELSE "failed")
    /\ UNCHANGED <<pairVars, talkVars, stopped>>

SendMsg(c) ==
    /\ phase[c] = "sendMsg"
    /\ Sent(c)
    /\ sent' = [sent EXCEPT ![c] = @ + 1]
    /\ Goto(c, "awaitMsg")
    /\ UNCHANGED <<pairVars, otherPub, otherAes, got, stopped>>

\* Mutant: the loop counts once too often.
MoreAndOne(c) == sent[c] <= MaxRounds

\* The loop goes round again.
More(c) == sent[c] < MaxRounds

\* Mutant: no message is taken for a message.
AwaitMsgOnce(c) == \E a \in Heard(c) :
    /\ phase[c] = "awaitMsg"
    /\ Usable(c) /\ Call(c, a)
    /\ Goto(c, IF More(c) THEN "sendMsg" ELSE "done")
    /\ got' = [got EXCEPT ![c] = IF a.load = None THEN @ ELSE a.load.n]
    /\ UNCHANGED <<pairVars, otherPub, otherAes, sent, stopped>>

AwaitMsg(c) == \E a \in Heard(c) :
    /\ phase[c] = "awaitMsg"
    /\ Received(c, a)
    /\ \/ /\ Is(a, "msg", otherAes[c])
          /\ got' = [got EXCEPT ![c] = a.load.n]
          /\ Goto(c, IF More(c) THEN "sendMsg" ELSE "done")
       \/ /\ ~Is(a, "msg", otherAes[c])
          /\ Goto(c, "failed")
          /\ UNCHANGED got
    /\ UNCHANGED <<pairVars, otherPub, otherAes, sent, stopped>>

----------------------------------------------------------------------------
Meet(c) == Create(c) \/ AskOther(c) \/ CloseMine(c) \/ Connect(c) \/ AskMine(c)
Hello(c) ==
    \/ SendKey(c) \/ AwaitKey(c) \/ SendAes(c) \/ AwaitAes(c) \/ SendHello(c) \/ AwaitEcho(c)
Chat(c) == SendMsg(c) \/ AwaitMsg(c)

ClientStep(c) == Meet(c) \/ Hello(c) \/ Chat(c) \/ Poll(c)

Next ==
    \/ \E c \in Client : ClientStep(c) \/ TimeOut(c)
    \/ Reaping /\ Clean /\ UNCHANGED <<phase, pairVars, talkVars, waitVars>>

Spec == Init /\ [][Next]_vars

\* Both programs run.
FairSpec == Spec /\ \A c \in Client : WF_vars(ClientStep(c))

----------------------------------------------------------------------------
Helloing == {"sendKey", "awaitKey", "sendAes", "awaitAes", "sendHello", "awaitEcho"}
Chatting == {"sendMsg", "awaitMsg", "done"}

TypeOK ==
    /\ TunnelsTypeOK
    /\ phase \in [Client -> Meeting \cup Helloing \cup Chatting \cup {"failed", "spinning"}]
    /\ mail \in [Client -> Seq(Answer)]
    /\ stopped \in [Client -> SUBSET {"askOther", "askMine"}]
    /\ curr \in [Client -> Tun \cup {None}]
    /\ opened \in [Client -> SUBSET Tun]
    /\ connected \in [Client -> SUBSET Tun]
    /\ otherPub \in [Client -> AnyUid \cup {None}]
    /\ otherAes \in [Client -> Client \cup {None}]
    /\ sent \in [Client -> 0..MaxRounds]
    /\ got \in [Client -> 0..MaxRounds]

\* Opening one's own tunnel before looking for the other's keeps both from
\* staying on their own, each waiting for the other (without the cleaner).
NeverBothOwn == \A c \in Client : ~(curr[c] = Own[c] /\ curr[Peer[c]] = Own[Peer[c]])

\* Who got through the hello holds the other's keys, never its own or a third's.
HelloAgreement == \A c \in Client :
    phase[c] \in Chatting => otherPub[c] = Peer[c] /\ otherAes[c] = Peer[c]

\* Messages arrive in order, none lost and none twice: round k reads message k.
InOrder == \A c \in Client :
    /\ phase[c] \in {"sendMsg", "done"} => got[c] = sent[c]
    /\ phase[c] = "awaitMsg" => got[c] = sent[c] - 1

\* Waiting for the other's answer bounds what the mirror stores for a pair.
AtMostTwoWaiting == \A t \in Tun : Exists(t) => \A s \in Side : Len(tunnels[t].queue[s]) <= 2

\* Who stays on its own tunnel is found there, and the conversation takes place
\* (without the cleaner).
OwnerTalks == \A c \in Client : curr[c] = Own[c] ~> phase[c] = "done"

\* crypto_hello says it is not run unless connected to a tunnel, and the
\* comments of connect that the other's tunnel is the current one.
CurrentIsConnected == \A c \in Client : phase[c] \in Helloing => Usable(c)
=============================================================================
