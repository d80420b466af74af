-------------------------------- MODULE Calls --------------------------------
(***************************************************************************)
(* The calls of mirror::Client (mirror/client.hpp) as they cross the       *)
(* network.  A call sends its request with fail_safe_sr, which sends it    *)
(* again when recv times out or finds nothing, `retries' times in all, and *)
(* takes the first bytes it gets for the answer.  No datagram says which   *)
(* call it belongs to: the server runs a request as often as it arrives,   *)
(* and an answer that missed its call is still there for a later one.      *)
(*                                                                         *)
(* Between a client and the server there is one queue of datagrams: first  *)
(* the answers the client has not read, then the requests the server has   *)
(* not run.  The network loses, repeats, damages and reorders them; what   *)
(* the server's workers do out of order is a reordering too.               *)
(* The handlers are those of Tunnels, the clients' sessions (ErNet) are    *)
(* open, and the cleaner sleeps.                                           *)
(***************************************************************************)
EXTENDS Tunnels, SequencesExt

CONSTANTS
    Retries,        \* set_retries, for each client
    MaxCalls,       \* calls a client makes (bound)
    Blank,          \* the messages of no bytes
    Program,        \* the calls each client's program makes
    MaxFaults       \* time-outs, and datagrams lost, damaged, doubled or overtaken (bound)

Op == {"create", "connect", "close", "exist", "send", "recv"}

ASSUME CallsAssumption ==
    /\ Retries \in [Client -> Nat \ {0}]
    /\ {MaxCalls, MaxFaults} \subseteq Nat
    /\ Program \in [Client -> SUBSET Op]

VARIABLES
    call,       \* the request each client waits for an answer to, or None
    left,       \* how often it may still be sent
    made,       \* the calls each client has made
    wire,       \* the datagrams between each client and the server
    connected_to, c_tunnels,    \* the tunnels each client has connected to, and opened
    \* history
    resent,     \* requests sent again, and calls that failed
    repeats, swaps, \* datagrams of each client doubled, and overtaken by the next
    faults,         \* time-outs, and what the network has done
    taken,      \* the messages recv_bytes has handed to each client's requests
    read,       \* the messages each client's recv has returned
    latest,     \* the call of the last of them, by reader, author and tunnel, or 0
    warned      \* clients that saw a call fail, or got no message for a message

listVars == <<connected_to, c_tunnels>>
callVars == <<call, left, made, wire, listVars>>
faultVars == <<resent, repeats, swaps, faults>>
dataVars == <<taken, read, latest, warned>>
vars == <<tunnelVars, callVars, faultVars, dataVars>>

\* A message knows its author, the author's call, and the tunnel it is for.
Payload == [from : Client, n : 1..MaxCalls, tun : Tun]

Request == {req \in [op : Op, tun : Tun, load : Payload \cup {None}] :
                req.load # None <=> req.op = "send"}

\* "garbage" is an answer that does not decipher, "" one of no bytes.
Word == {"ok", "yes", "no", "alr-exists", "not-exists", "alr-conn", "only-one", "no-data", "garbage"}
Answer == [text : Word \cup {"data", ""}, load : Payload \cup {None}]

\* A datagram: the call it belongs to, the request, and the answer once it is run.
Datagram == [of : 1..MaxCalls, req : Request, ans : Answer \cup {None}]

ASSUME RequestAssumption ==
    Message = Payload /\ None \notin Payload \cup Request \cup Answer \cup Tunnel

Init ==
    /\ InitTunnels
    /\ call = [c \in Client |-> None]
    /\ left = [c \in Client |-> 0]
    /\ made = [c \in Client |-> 0]
    /\ wire = [c \in Client |-> <<>>]
    /\ connected_to = [c \in Client |-> <<>>]
    /\ c_tunnels = [c \in Client |-> <<>>]
    /\ resent = [c \in Client |-> 0]
    /\ repeats = [c \in Client |-> 0]
    /\ swaps = [c \in Client |-> 0]
    /\ faults = 0
    /\ taken = [c \in Client |-> {}]
    /\ read = [c \in Client |-> {}]
    /\ latest = [c \in Client |-> [d \in Client |-> [t \in Tun |-> 0]]]
    /\ warned = {}

Waiting(c) == call[c] # None

----------------------------------------------------------------------------
(* A call *)

\* close, send and recv need a tunnel the client has listed.
May(c, op, t) == op \in {"close", "send", "recv"} =>
    t \in ToSet(connected_to[c]) \cup ToSet(c_tunnels[c])

\* What remove_if keeps.
Kept(list, t) ==
    LET kept[i \in 0..Len(list)] ==
          IF i = 0 THEN <<>> ELSE IF list[i] = t THEN kept[i - 1] ELSE Append(kept[i - 1], list[i])
    IN  kept[Len(list)]

\* erase(remove_if(...)) moves what is kept to the front and erases one element:
\* the one after it.
Struck(list, t) == Kept(list, t) \o SubSeq(list, Len(Kept(list, t)) + 2, Len(list))

\* create lists its tunnel before it is open, close strikes it off before it is
\* closed.
Listing(c, op, t) ==
    LET among == t \in ToSet(connected_to[c]) IN
    /\ connected_to' = IF op = "close" /\ among
                       THEN [connected_to EXCEPT ![c] = Struck(@, t)] ELSE connected_to
    /\ c_tunnels' = CASE op = "create" -> [c_tunnels EXCEPT ![c] = Append(@, t)]
                      [] op = "close" /\ ~among -> [c_tunnels EXCEPT ![c] = Struck(@, t)]
                      [] OTHER -> c_tunnels

\* Mutant: one datagram too many.
FirstLeftOneMore(c) == Retries[c]

\* The first datagram is out.
FirstLeft(c) == Retries[c] - 1

Fresh(c, req) == [of |-> made'[c], req |-> req, ans |-> None]

Call(c) == \E op \in Program[c], t \in Tun, m \in Payload \cup {None} :
    LET req == [op |-> op, tun |-> t, load |-> m] IN
    /\ ~Waiting(c)
    /\ made[c] < MaxCalls
    /\ May(c, op, t)
    /\ IF op = "send" THEN m = [from |-> c, n |-> made[c] + 1, tun |-> t] ELSE m = None
    /\ made' = [made EXCEPT ![c] = @ + 1]
    /\ call' = [call EXCEPT ![c] = req]
    /\ left' = [left EXCEPT ![c] = FirstLeft(c)]
    /\ wire' = [wire EXCEPT ![c] = Append(@, Fresh(c, req))]
    /\ Listing(c, op, t)
    /\ UNCHANGED <<tunnelVars, faultVars, dataVars>>

\* The loop goes round again, with `rest' still under way.
Resend(c, rest) ==
    /\ left[c] > 0
    /\ left' = [left EXCEPT ![c] = @ - 1]
    /\ wire' = [wire EXCEPT ![c] = Append(rest, [of |-> made[c], req |-> call[c], ans |-> None])]
    /\ UNCHANGED <<call, warned>>

\* "server down" is thrown.
Fail(c, rest) ==
    /\ left[c] = 0
    /\ call' = [call EXCEPT ![c] = None]
    /\ wire' = [wire EXCEPT ![c] = rest]
    /\ warned' = warned \cup {c}
    /\ UNCHANGED left

NoAnswer(c, rest) ==
    /\ Waiting(c)
    /\ Resend(c, rest) \/ Fail(c, rest)
    /\ resent' = [resent EXCEPT ![c] = @ + 1]
    /\ UNCHANGED <<tunnelVars, made, listVars, repeats, swaps, taken, read, latest>>

\* recv times out, whatever is still under way.
TimeOut(c) ==
    /\ faults < MaxFaults
    /\ faults' = faults + 1
    /\ NoAnswer(c, wire[c])

\* Something to read: the oldest datagram is an answer.
Readable(c) == wire[c] # <<>> /\ Head(wire[c]).ans # None

\* Mutant: the answer stays in the socket.
UnreadPeeked(c) == wire[c]

\* What stays in the socket once the oldest answer is read.
Unread(c) == Tail(wire[c])

\* No bytes are no answer.
TakeNothing(c) ==
    /\ Readable(c) /\ Head(wire[c]).ans.text = ""
    /\ NoAnswer(c, Unread(c))
    /\ UNCHANGED faults

\* Whatever else arrives ends the call.  recv takes every text but two for a
\* message, and connect lists its tunnel when told "ok".
Take(c) == LET a == Head(wire[c]).ans IN
    /\ Waiting(c) /\ Readable(c) /\ a.text # ""
    /\ call' = [call EXCEPT ![c] = None]
    /\ wire' = [wire EXCEPT ![c] = Unread(c)]
    /\ connected_to' = IF call[c].op = "connect" /\ a.text = "ok"
                       THEN [connected_to EXCEPT ![c] = Append(@, call[c].tun)] ELSE connected_to
    /\ \/ /\ call[c].op = "recv" /\ a.load # None
          /\ read' = [read EXCEPT ![c] = @ \cup {a.load}]
          /\ latest' = [latest EXCEPT ![c][a.load.from][a.load.tun] = a.load.n]
          /\ UNCHANGED warned
       \/ /\ call[c].op = "recv" /\ a.load = None
          /\ warned' = IF a.text = "no-data" THEN warned ELSE warned \cup {c}
          /\ UNCHANGED <<read, latest>>
       \/ /\ call[c].op # "recv"
          /\ UNCHANGED <<read, latest, warned>>
    /\ UNCHANGED <<tunnelVars, left, made, c_tunnels, faultVars, taken>>

----------------------------------------------------------------------------
(* The server *)

\* The handler of a request; ans is its answer.  An empty message is an answer
\* of no bytes.
Handled(c, req, ans) ==
    \/ req.op = "create" /\ OpenTunnel(c, req.tun, ans.text) /\ ans.load = None
    \/ req.op = "connect" /\ ConnTunnel(c, req.tun, ans.text) /\ ans.load = None
    \/ req.op = "close" /\ CloseTunnel(c, req.tun, ans.text) /\ ans.load = None
    \/ req.op = "exist" /\ CheckExist(c, req.tun, ans.text) /\ ans.load = None
    \/ req.op = "send" /\ SendBytes(c, req.tun, req.load, ans.text) /\ ans.load = None
    \/ /\ req.op = "recv"
       /\ \E text \in {"data", "no-data", "not-exists"} :
            /\ RecvBytes(c, req.tun, ans.load, text)
            /\ ans.text = IF ans.load \in Blank THEN "" ELSE text

\* Every word, and the messages that wait.
Replies(t) ==
    [text : Word \ {"garbage"}, load : {None}]
    \cup (IF Exists(t) THEN [text : {"data", ""}, load : UNION {ToSet(tunnels[t].queue[s]) : s \in Side}]
          ELSE {})

\* The oldest request is run.
Execute(c) == \E i \in DOMAIN wire[c] : \E ans \in Replies(wire[c][i].req.tun) :
    /\ wire[c][i].ans = None
    /\ \A j \in 1..(i - 1) : wire[c][j].ans # None
    /\ Handled(c, wire[c][i].req, ans)
    /\ wire' = [wire EXCEPT ![c][i].ans = ans]
    /\ taken' = [taken EXCEPT ![c] = IF ans.load = None THEN @ ELSE @ \cup {ans.load}]
    /\ UNCHANGED <<call, left, made, listVars, faultVars, read, latest, warned>>

----------------------------------------------------------------------------
(* The network *)

Fault ==
    /\ faults < MaxFaults
    /\ faults' = faults + 1
    /\ UNCHANGED <<tunnelVars, call, left, made, listVars, resent, dataVars>>

Repeat(c) == \E i \in DOMAIN wire[c] :
    /\ Fault
    /\ repeats' = [repeats EXCEPT ![c] = @ + 1]
    /\ wire' = [wire EXCEPT ![c] = InsertAt(@, i, @[i])]
    /\ UNCHANGED swaps

Overtake(c) == \E i \in 1..(Len(wire[c]) - 1) :
    /\ Fault
    /\ swaps' = [swaps EXCEPT ![c] = @ + 1]
    /\ wire' = [wire EXCEPT ![c][i] = wire[c][i + 1], ![c][i + 1] = wire[c][i]]
    /\ UNCHANGED repeats

\* A damaged request is refused in clear, and the client takes the refusal, as it
\* takes a damaged answer, for the answer: fail_safe_sr looks for -1 and no bytes.
Damage(c) == \E i \in DOMAIN wire[c] :
    /\ Fault
    /\ wire' = [wire EXCEPT ![c][i].ans = [text |-> "garbage", load |-> None]]
    /\ UNCHANGED <<repeats, swaps>>

Lose(c) == \E i \in DOMAIN wire[c] :
    /\ Fault
    /\ wire' = [wire EXCEPT ![c] = RemoveAt(@, i)]
    /\ UNCHANGED <<repeats, swaps>>

----------------------------------------------------------------------------
ClientStep(c) == Call(c) \/ TimeOut(c) \/ TakeNothing(c) \/ Take(c)
Network(c) == Repeat(c) \/ Overtake(c) \/ Damage(c) \/ Lose(c)

Next == \E c \in Client : ClientStep(c) \/ Execute(c) \/ Network(c)

Spec == Init /\ [][Next]_vars

----------------------------------------------------------------------------
CallsTypeOK ==
    /\ call \in [Client -> Request \cup {None}]
    /\ left \in [Client -> Nat]
    /\ \A c \in Client : left[c] < Retries[c]
    /\ made \in [Client -> 0..MaxCalls]
    /\ wire \in [Client -> Seq(Datagram)]
    /\ {connected_to, c_tunnels} \subseteq [Client -> Seq(Tun)]
    /\ {resent, repeats, swaps} \subseteq [Client -> Nat]
    /\ faults \in 0..MaxFaults
    /\ {taken, read} \subseteq [Client -> SUBSET Payload]
    /\ latest \in [Client -> [Client -> [Tun -> 0..MaxCalls]]]
    /\ warned \subseteq Client

\* What can put an answer behind its call.
Disturbed(c) == resent[c] + repeats[c] + swaps[c]

\* How far an answer may be from its call: an answer that c could be given now
\* belongs to one of its last Disturbed(c) + 1 calls.  So where nothing was sent
\* twice, doubled or overtaken every call gets its own answer, and each such
\* event shifts the conversation by one call at most, however many answers are
\* lost or damaged.
AnswerAge == \A c \in Client : \A i \in DOMAIN wire[c] :
    Waiting(c) => made[c] - wire[c][i].of <= Disturbed(c)

\* A client that sends every request once and has seen no call fail, nor got
\* anything strange for a message, has read every message the mirror took out of
\* a queue for it.  (With more retries one is lost with no sign of it.)
LossIsNoticed == \A c \in Client :
    Retries[c] = 1 /\ repeats[c] = 0 /\ c \notin warned /\ ~Waiting(c) => taken[c] = read[c]

\* What one client writes into a tunnel another reads in the order it was sent,
\* whatever is lost, late, doubled, sent again or taken by the wrong call, and
\* whoever else writes, until a datagram overtakes another.
ReadInOrder == [][\A c, d \in Client, t \in Tun :
    (\A e \in Client : swaps[e] = 0) => latest'[c][d][t] >= latest[c][d][t]]_vars

=============================================================================
