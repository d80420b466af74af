----------------------------- MODULE CallsProofs -----------------------------
(* Proofs about Calls for every number of clients, tunnels, calls, retries   *)
(* and faults: the mirror under the calls is the mirror of Tunnels, and no   *)
(* answer is further from its call than what has disturbed the conversation. *)
EXTENDS Calls, TunnelsProofs, SequenceTheorems, FiniteSetTheorems, WellFoundedInduction

----------------------------------------------------------------------------
(* The mirror under the calls.                                             *)

\* What Execute runs is a handler of the mirror.
LEMMA HandledIsHandler ==
    ASSUME NEW c \in Client, NEW req \in Request, NEW ans, Handled(c, req, ans)
    PROVE  /\ req.tun \in Tun
           /\ \E m, text : Handler(c, req.tun, m, text)
<1>1. /\ req.tun \in Tun
      /\ req.op = "send" => req.load \in Message
  BY RequestAssumption DEF Request
<1>2. ASSUME req.op = "recv"
      PROVE  \E m, text : Handler(c, req.tun, m, text)
  <2>1. PICK text : RecvBytes(c, req.tun, ans.load, text)
    BY <1>2 DEF Handled
  <2>2. Handler(c, req.tun, ans.load, text)
    BY <2>1 DEF Handler
  <2> QED BY <2>2
<1>3. ASSUME req.op # "recv"
      PROVE  Handler(c, req.tun, req.load, ans.text)
  BY <1>1, <1>3 DEF Handled, Handler
<1> QED BY <1>1, <1>2, <1>3

----------------------------------------------------------------------------
(* The inductive invariant.                                                *)

Shape ==
    /\ call \in [Client -> Request \cup {None}]
    /\ made \in [Client -> 0..MaxCalls]
    /\ wire \in [Client -> Seq(Datagram)]
    /\ {resent, repeats, swaps} \subseteq [Client -> Nat]
    /\ \A c \in Client : Waiting(c) => made[c] > 0

\* The oldest call the i-th datagram of c may belong to: the further back a
\* datagram stands, the fewer events can have put it behind.
One(c) == IF Waiting(c) THEN 1 ELSE 0
Oldest(c, i) == made[c] - Disturbed(c) + i - One(c)

InLine(c) == \A i \in DOMAIN wire[c] :
    /\ Oldest(c, i) <= wire[c][i].of
    /\ wire[c][i].of <= made[c]

IInv == TunnelsTypeOK /\ Shape /\ \A c \in Client : InLine(c)

----------------------------------------------------------------------------
(* What the network does to a queue.                                       *)

\* t is s with its i-th datagram twice.
Doubled(t, s, i) ==
    /\ t \in Seq(Datagram) /\ Len(t) = Len(s) + 1
    /\ \A j \in 1..(Len(s) + 1) : t[j] = IF j < i THEN s[j] ELSE IF j = i THEN s[i] ELSE s[j - 1]

\* Repeating a datagram in a queue.
LEMMA Inserted ==
    ASSUME NEW s \in Seq(Datagram), NEW i \in 1..Len(s), s[i] \in Datagram
    PROVE  Doubled(InsertAt(s, i, s[i]), s, i)
<1> DEFINE e == s[i]
<1> DEFINE front == SubSeq(s, 1, i - 1)
           back == SubSeq(s, i, Len(s))
<1>1. /\ front \in Seq(Datagram) /\ Len(front) = i - 1
      /\ \A j \in 1..(i - 1) : front[j] = s[j]
  BY SubSeqProperties
<1>2. /\ back \in Seq(Datagram) /\ Len(back) = Len(s) - i + 1
      /\ \A j \in 1..(Len(s) - i + 1) : back[j] = s[i + j - 1]
  BY SubSeqProperties
<1> HIDE DEF e
<1>3. /\ <<e>> \in Seq(Datagram) /\ Len(<<e>>) = 1 /\ <<e>>[1] = e
  BY DEF e
<1>4. /\ front \o <<e>> \in Seq(Datagram) /\ Len(front \o <<e>>) = i
      /\ \A j \in 1..i : (front \o <<e>>)[j] = IF j < i THEN s[j] ELSE e
  <2> HIDE DEF front
  <2> QED BY <1>1, <1>3, ConcatProperties
<1>5. InsertAt(s, i, e) = (front \o <<e>>) \o back
  BY DEF InsertAt
<1> DEFINE head == front \o <<e>>
<1> HIDE DEF front, back, head
<1>6. /\ head \o back \in Seq(Datagram) /\ Len(head \o back) = Len(s) + 1
      /\ \A j \in 1..(Len(s) + 1) : (head \o back)[j] = IF j <= i THEN head[j] ELSE back[j - i]
  <2>1. head \in Seq(Datagram) /\ Len(head) = i
    BY <1>4 DEF head
  <2>2. /\ head \o back \in Seq(Datagram) /\ Len(head \o back) = Len(head) + Len(back)
        /\ \A j \in 1..(Len(head) + Len(back)) :
             (head \o back)[j] = IF j <= Len(head) THEN head[j] ELSE back[j - Len(head)]
    BY <1>2, <2>1, ConcatProperties
  <2> QED BY <1>2, <2>1, <2>2
<1>7. ASSUME NEW j \in 1..(Len(s) + 1)
      PROVE  (head \o back)[j] = IF j < i THEN s[j] ELSE IF j = i THEN e ELSE s[j - 1]
  <2>1. CASE j <= i
    BY <1>4, <1>6, <2>1 DEF head
  <2>2. CASE ~(j <= i)
    <3>1. j - i \in 1..(Len(s) - i + 1) /\ i + (j - i) - 1 = j - 1
      BY <2>2
    <3>2. (head \o back)[j] = back[j - i]
      BY <1>6, <2>2
    <3>3. back[j - i] = s[i + (j - i) - 1]
      BY <1>2, <3>1
    <3> QED BY <2>2, <3>1, <3>2, <3>3
  <2> QED BY <2>1, <2>2
<1> QED BY <1>5, <1>6, <1>7 DEF head, e, Doubled

\* A queue without its i-th datagram keeps the order of the rest.
LEMMA Removed ==
    ASSUME NEW S, NEW s \in Seq(S), NEW i \in 1..Len(s)
    PROVE  /\ RemoveAt(s, i) \in Seq(S)
           /\ Len(RemoveAt(s, i)) = Len(s) - 1
           /\ \A j \in 1..(Len(s) - 1) : RemoveAt(s, i)[j] = IF j < i THEN s[j] ELSE s[j + 1]
<1> DEFINE front == SubSeq(s, 1, i - 1)
           back == SubSeq(s, i + 1, Len(s))
<1>1. /\ front \in Seq(S) /\ Len(front) = i - 1
      /\ \A j \in 1..(i - 1) : front[j] = s[j]
  BY SubSeqProperties
<1>2. /\ back \in Seq(S) /\ Len(back) = Len(s) - i
      /\ \A j \in 1..(Len(s) - i) : back[j] = s[i + j]
  BY SubSeqProperties
<1>3. RemoveAt(s, i) = front \o back
  BY DEF RemoveAt
<1> HIDE DEF front, back
<1>4. /\ front \o back \in Seq(S) /\ Len(front \o back) = Len(s) - 1
      /\ \A j \in 1..(Len(s) - 1) :
           (front \o back)[j] = IF j < i THEN front[j] ELSE back[j - i + 1]
  <2>1. /\ front \o back \in Seq(S) /\ Len(front \o back) = Len(front) + Len(back)
        /\ \A j \in 1..(Len(front) + Len(back)) :
             (front \o back)[j] = IF j <= Len(front) THEN front[j] ELSE back[j - Len(front)]
    BY <1>1, <1>2, ConcatProperties
  <2> QED BY <1>1, <1>2, <2>1, SMTT(30)
<1>5. ASSUME NEW j \in 1..(Len(s) - 1)
      PROVE  (front \o back)[j] = IF j < i THEN s[j] ELSE s[j + 1]
  <2>1. CASE j < i
    BY <1>1, <1>4, <2>1
  <2>2. CASE ~(j < i)
    <3>1. j - i + 1 \in 1..(Len(s) - i) /\ i + (j - i + 1) = j + 1
      BY <2>2
    <3>2. (front \o back)[j] = back[j - i + 1]
      BY <1>4, <2>2
    <3>3. back[j - i + 1] = s[i + (j - i + 1)]
      BY <1>2, <3>1
    <3> QED BY <2>2, <3>1, <3>2, <3>3
  <2> QED BY <2>1, <2>2
<1> QED BY <1>3, <1>4, <1>5

----------------------------------------------------------------------------
(* The steps.                                                              *)

\* What a queue holds are datagrams, each of a call already counted.
LEMMA QueueOfDatagrams ==
    ASSUME Shape, NEW c \in Client
    PROVE  /\ wire[c] \in Seq(Datagram)
           /\ Len(wire[c]) \in Nat /\ DOMAIN wire[c] = 1..Len(wire[c])
           /\ \A i \in DOMAIN wire[c] : wire[c][i] \in Datagram /\ wire[c][i].of \in Nat
<1>1. wire[c] \in Seq(Datagram)
  BY DEF Shape
<1>2. Len(wire[c]) \in Nat /\ DOMAIN wire[c] = 1..Len(wire[c])
  BY <1>1, LenProperties
<1>3. \A i \in DOMAIN wire[c] : wire[c][i] \in Datagram
  BY <1>1, <1>2, ElementOfSeq
<1>4. \A x \in Datagram : x.of \in Nat
  BY CallsAssumption DEF Datagram
<1> QED BY <1>1, <1>2, <1>3, <1>4

\* To the mirror a step of Calls is one of its own or none at all.
LEMMA StepMirror ==
    ASSUME TunnelsTypeOK, Shape, [Next]_vars
    PROVE  [NextTunnels]_tunnelVars
<1>1. ASSUME NEW c \in Client, Execute(c)
      PROVE  NextTunnels
  <2>1. PICK i \in DOMAIN wire[c] : \E ans : Handled(c, wire[c][i].req, ans)
    BY <1>1 DEF Execute
  <2>2. wire[c][i] \in Datagram
    BY QueueOfDatagrams
  <2>3. wire[c][i].req \in Request
    BY <2>2 DEF Datagram
  <2> QED BY <2>1, <2>3, HandledIsHandler, HandlerStep
<1>2. ASSUME NEW c \in Client, ClientStep(c) \/ Network(c)
      PROVE  UNCHANGED tunnelVars
  BY <1>2 DEF ClientStep, Network, Call, TimeOut, TakeNothing, NoAnswer, Take, Repeat, Overtake,
              Damage, Lose, Fault
<1>3. CASE UNCHANGED vars
  BY <1>3 DEF vars
<1> QED BY <1>1, <1>2, <1>3 DEF Next

\* What one client may be given depends on its own datagrams and counters.
LEMMA Untouched ==
    ASSUME NEW d \in Client, InLine(d), made'[d] = made[d], call'[d] = call[d],
           wire'[d] = wire[d], Disturbed(d)' = Disturbed(d)
    PROVE  InLine(d)'
BY DEF InLine, Oldest, One, Waiting

\* The counters of a client are numbers.
LEMMA Counts ==
    ASSUME Shape, NEW c \in Client
    PROVE  /\ made[c] \in 0..MaxCalls /\ made[c] \in Nat /\ MaxCalls \in Nat
           /\ {resent[c], repeats[c], swaps[c]} \subseteq Nat
           /\ Disturbed(c) \in Nat
           /\ One(c) \in {0, 1}
BY CallsAssumption DEF Shape, Disturbed, One

\* A queue is no longer than what has disturbed it, and the call that waits.
LEMMA Room ==
    ASSUME Shape, NEW c \in Client, InLine(c)
    PROVE  Len(wire[c]) <= Disturbed(c) + One(c)
<1>1. CASE wire[c] = <<>>
  BY <1>1, Counts
<1>2. CASE Len(wire[c]) > 0
  <2>1. Len(wire[c]) \in DOMAIN wire[c]
    BY <1>2, QueueOfDatagrams
  <2> DEFINE last == wire[c][Len(wire[c])].of
  <2>2. last \in Nat /\ last <= made[c] /\ made[c] - Disturbed(c) + Len(wire[c]) - One(c) <= last
    BY <2>1, QueueOfDatagrams DEF InLine, Oldest
  <2> HIDE DEF last
  <2> QED BY <2>2, QueueOfDatagrams, Counts
<1> QED BY <1>1, <1>2, QueueOfDatagrams, EmptySeq

\* What a call does, given its request.
Asks(c, req) ==
    /\ ~Waiting(c) /\ made[c] < MaxCalls
    /\ req.op = "send" => req.load = [from |-> c, n |-> made[c] + 1, tun |-> req.tun]
    /\ made' = [made EXCEPT ![c] = @ + 1]
    /\ call' = [call EXCEPT ![c] = req]
    /\ left' = [left EXCEPT ![c] = Retries[c] - 1]
    /\ wire' = [wire EXCEPT ![c] = Append(@, Fresh(c, req))]
    /\ Listing(c, req.op, req.tun)
    /\ UNCHANGED <<tunnelVars, faultVars, dataVars>>

\* A call makes a request, and a message of its own when it sends.
LEMMA CallAsks ==
    ASSUME Shape, NEW c \in Client, Call(c)
    PROVE  \E req \in Request : Asks(c, req)
<1>1. PICK op \in Program[c], t \in Tun, m \in Payload \cup {None} :
        /\ ~Waiting(c) /\ made[c] < MaxCalls
        /\ IF op = "send" THEN m = [from |-> c, n |-> made[c] + 1, tun |-> t] ELSE m = None
        /\ made' = [made EXCEPT ![c] = @ + 1]
        /\ call' = [call EXCEPT ![c] = [op |-> op, tun |-> t, load |-> m]]
        /\ left' = [left EXCEPT ![c] = FirstLeft(c)]
        /\ wire' = [wire EXCEPT ![c] = Append(@, Fresh(c, [op |-> op, tun |-> t, load |-> m]))]
        /\ Listing(c, op, t)
        /\ UNCHANGED <<tunnelVars, faultVars, dataVars>>
  BY DEF Call
<1> DEFINE req == [op |-> op, tun |-> t, load |-> m]
<1>2. op \in Op
  BY CallsAssumption
<1>3. m # None <=> op = "send"
  <2>1. made[c] + 1 \in 1..MaxCalls
    BY <1>1, CallsAssumption DEF Shape
  <2>2. [from |-> c, n |-> made[c] + 1, tun |-> t] \in Payload
    BY <2>1 DEF Payload
  <2> QED BY <1>1, <2>2, RequestAssumption
<1>4. req \in Request
  BY <1>2, <1>3 DEF Request
<1>5. req.op = op /\ req.tun = t /\ req.load = m
  OBVIOUS
<1> HIDE DEF req
<1> QED BY <1>1, <1>4, <1>5 DEF Asks, FirstLeft, req

\* A new call, its request last in the queue.
LEMMA CallStep ==
    ASSUME IInv, NEW c \in Client, Call(c)
    PROVE  Shape' /\ \A d \in Client : InLine(d)'
<1>1. PICK req \in Request :
        /\ ~Waiting(c) /\ made[c] < MaxCalls
        /\ made' = [made EXCEPT ![c] = @ + 1]
        /\ call' = [call EXCEPT ![c] = req]
        /\ wire' = [wire EXCEPT ![c] = Append(@, Fresh(c, req))]
        /\ UNCHANGED <<resent, repeats, swaps>>
  BY CallAsks DEF IInv, Asks, faultVars
<1>2. made'[c] = made[c] + 1 /\ made'[c] \in 1..MaxCalls /\ made' \in [Client -> 0..MaxCalls]
  BY <1>1, Counts, SMTT(30) DEF IInv, Shape
<1>3. Fresh(c, req) \in Datagram /\ Fresh(c, req).of = made[c] + 1
  BY <1>2 DEF Fresh, Datagram
<1>4. /\ wire'[c] \in Seq(Datagram)
      /\ DOMAIN wire'[c] = 1..(Len(wire[c]) + 1)
      /\ \A i \in 1..Len(wire[c]) : wire'[c][i] = wire[c][i]
      /\ wire'[c][Len(wire[c]) + 1] = Fresh(c, req)
  <2>1. wire'[c] = Append(wire[c], Fresh(c, req))
    BY <1>1 DEF IInv, Shape
  <2> QED BY <1>3, <2>1, QueueOfDatagrams, AppendProperties, LenProperties DEF IInv
<1>5. Shape'
  BY <1>1, <1>2, <1>4 DEF IInv, Shape, Waiting
<1>6. Waiting(c)' /\ Disturbed(c)' = Disturbed(c)
  BY <1>1, RequestAssumption DEF IInv, Shape, Waiting, Disturbed
<1>7. ASSUME NEW i \in DOMAIN wire'[c]
      PROVE  Oldest(c, i)' <= wire'[c][i].of /\ wire'[c][i].of <= made'[c]
  <2>1. Oldest(c, i)' = made[c] - Disturbed(c) + i
    BY <1>2, <1>4, <1>6, Counts, QueueOfDatagrams DEF IInv, Oldest, One
  <2>2. CASE i \in 1..Len(wire[c])
    BY <1>1, <1>2, <1>4, <2>1, <2>2, Counts, QueueOfDatagrams, SMTT(30) DEF IInv, InLine, Oldest, One
  <2>3. CASE i = Len(wire[c]) + 1
    BY <1>1, <1>2, <1>3, <1>4, <2>1, <2>3, Counts, QueueOfDatagrams, Room DEF IInv, One
  <2> QED BY <1>4, <2>2, <2>3, QueueOfDatagrams DEF IInv
<1>8. InLine(c)'
  BY <1>7 DEF InLine
<1>9. ASSUME NEW d \in Client, d # c
      PROVE  InLine(d)'
  BY <1>1, <1>9, Untouched DEF IInv, Shape, Disturbed
<1> QED BY <1>5, <1>8, <1>9

\* The loop of fail_safe_sr goes round again, or the call has failed.
LEMMA NoAnswerStep ==
    ASSUME IInv, NEW c \in Client, NEW rest \in Seq(Datagram), NoAnswer(c, rest),
           Len(rest) <= Len(wire[c]),
           \A i \in 1..Len(rest) :
             made[c] - Disturbed(c) + i - 1 <= rest[i].of /\ rest[i].of <= made[c]
    PROVE  Shape' /\ \A d \in Client : InLine(d)'
<1> DEFINE again == [of |-> made[c], req |-> call[c], ans |-> None]
<1>1. /\ Waiting(c) /\ UNCHANGED <<made, repeats, swaps>>
      /\ resent' = [resent EXCEPT ![c] = @ + 1]
  BY DEF NoAnswer
<1>2. Disturbed(c)' = Disturbed(c) + 1
  BY <1>1, Counts DEF IInv, Shape, Disturbed
<1>3. /\ Len(rest) \in Nat /\ DOMAIN rest = 1..Len(rest)
      /\ \A i \in 1..Len(rest) : rest[i] \in Datagram /\ rest[i].of \in Nat
  <2>1. \A x \in Datagram : x.of \in Nat
    BY CallsAssumption DEF Datagram
  <2> QED BY <2>1, LenProperties, ElementOfSeq
<1>4. \A d \in Client : /\ d # c => /\ call'[d] = call[d] /\ wire'[d] = wire[d]
                                   /\ Disturbed(d)' = Disturbed(d)
  BY <1>1 DEF IInv, Shape, NoAnswer, Resend, Fail, Disturbed
<1>5. /\ made[c] \in Nat /\ Disturbed(c) \in Nat /\ made'[c] = made[c]
      /\ Len(rest) <= Disturbed(c) + 1
  BY <1>1, <1>3, Counts, QueueOfDatagrams, Room DEF IInv, One
<1>6. CASE Resend(c, rest)
  <2>1. again \in Datagram /\ again.of = made[c]
    BY <1>1, Counts DEF IInv, Shape, Datagram, Waiting
  <2>2. wire' = [wire EXCEPT ![c] = Append(rest, again)] /\ call' = call
    BY <1>6 DEF Resend
  <2> HIDE DEF again
  <2>3. wire'[c] = Append(rest, again)
    BY <2>2 DEF IInv, Shape
  <2>4. /\ wire'[c] \in Seq(Datagram)
        /\ DOMAIN wire'[c] = 1..(Len(rest) + 1)
        /\ \A i \in 1..Len(rest) : wire'[c][i] = rest[i]
        /\ wire'[c][Len(rest) + 1] = again
    BY <1>3, <2>1, <2>3, AppendProperties, LenProperties
  <2>5. Shape'
    BY <1>1, <2>2, <2>4 DEF IInv, Shape, Waiting
  <2>6. ASSUME NEW i \in DOMAIN wire'[c]
        PROVE  Oldest(c, i)' <= wire'[c][i].of /\ wire'[c][i].of <= made'[c]
    <3>1. i \in Nat /\ One(c)' = 1
      BY <1>1, <1>3, <2>2, <2>4 DEF One, Waiting
    <3>2. Oldest(c, i)' = made[c] - (Disturbed(c) + 1) + i - 1
      BY <1>2, <1>5, <3>1 DEF Oldest
    <3>3. CASE i \in 1..Len(rest)
      <4>1. /\ wire'[c][i].of = rest[i].of /\ rest[i].of \in Nat
            /\ made[c] - Disturbed(c) + i - 1 <= rest[i].of /\ rest[i].of <= made[c]
        BY <1>3, <2>4, <3>3
      <4> QED BY <1>5, <3>1, <3>2, <4>1, SMTT(30)
    <3>4. CASE i = Len(rest) + 1
      BY <1>3, <1>5, <2>1, <2>4, <3>1, <3>2, <3>4
    <3> QED BY <1>3, <2>4, <3>3, <3>4
  <2>7. InLine(c)'
    BY <2>6 DEF InLine
  <2> QED BY <1>1, <1>4, <2>5, <2>7, Untouched DEF IInv
<1>7. CASE Fail(c, rest)
  <2>1. wire' = [wire EXCEPT ![c] = rest] /\ call' = [call EXCEPT ![c] = None]
    BY <1>7 DEF Fail
  <2>2. wire'[c] = rest /\ ~Waiting(c)'
    BY <2>1 DEF IInv, Shape, Waiting
  <2>3. Shape'
    BY <1>1, <2>1 DEF IInv, Shape, Waiting
  <2>4. ASSUME NEW i \in 1..Len(rest)
        PROVE  Oldest(c, i)' = made[c] - Disturbed(c) + i - 1
    <3>1. Oldest(c, i)' = made[c] - (Disturbed(c) + 1) + i - 0
      BY <1>2, <1>5, <2>2 DEF Oldest, One
    <3> QED BY <1>3, <1>5, <3>1
  <2>5. InLine(c)'
    BY <1>1, <1>3, <2>2, <2>4 DEF InLine
  <2> QED BY <1>1, <1>4, <2>3, <2>5, Untouched DEF IInv
<1> QED BY <1>6, <1>7 DEF NoAnswer

\* Without its oldest, every place of a queue is one further on in the old one.
LEMMA Shifted ==
    ASSUME IInv, NEW c \in Client, wire[c] # <<>>
    PROVE  /\ Tail(wire[c]) \in Seq(Datagram)
           /\ Len(Tail(wire[c])) = Len(wire[c]) - 1
           /\ DOMAIN Tail(wire[c]) = 1..(Len(wire[c]) - 1)
           /\ \A i \in 1..(Len(wire[c]) - 1) :
                /\ Oldest(c, i + 1) <= Tail(wire[c])[i].of
                /\ Tail(wire[c])[i].of <= made[c]
<1>1. /\ Tail(wire[c]) \in Seq(Datagram)
      /\ Len(Tail(wire[c])) = Len(wire[c]) - 1
      /\ \A i \in 1..(Len(wire[c]) - 1) : Tail(wire[c])[i] = wire[c][i + 1]
  BY QueueOfDatagrams, HeadTailProperties DEF IInv
<1>2. \A i \in 1..(Len(wire[c]) - 1) : i + 1 \in DOMAIN wire[c]
  BY QueueOfDatagrams DEF IInv
<1>3. DOMAIN Tail(wire[c]) = 1..(Len(wire[c]) - 1)
  BY <1>1, LenProperties
<1> QED BY <1>1, <1>2, <1>3 DEF IInv, InLine

\* A call that hears nothing: sent again, or given up.
LEMMA TimeOutStep ==
    ASSUME IInv, NEW c \in Client, TimeOut(c)
    PROVE  Shape' /\ \A d \in Client : InLine(d)'
<1>1. NoAnswer(c, wire[c]) /\ Waiting(c)
  BY DEF TimeOut, NoAnswer
<1>2. \A i \in 1..Len(wire[c]) :
        made[c] - Disturbed(c) + i - 1 <= wire[c][i].of /\ wire[c][i].of <= made[c]
  BY <1>1, QueueOfDatagrams DEF IInv, InLine, Oldest, One
<1> QED BY <1>1, <1>2, QueueOfDatagrams, NoAnswerStep DEF IInv

\* A call that finds no answer in the socket.
LEMMA TakeNothingStep ==
    ASSUME IInv, NEW c \in Client, TakeNothing(c)
    PROVE  Shape' /\ \A d \in Client : InLine(d)'
<1>1. NoAnswer(c, Tail(wire[c])) /\ Waiting(c) /\ wire[c] # <<>>
  BY DEF TakeNothing, NoAnswer, Readable, Unread
<1>2. ASSUME NEW i \in 1..Len(Tail(wire[c]))
      PROVE  /\ made[c] - Disturbed(c) + i - 1 <= Tail(wire[c])[i].of
             /\ Tail(wire[c])[i].of <= made[c]
  <2> DEFINE n == Tail(wire[c])[i].of
  <2>1. /\ made[c] - Disturbed(c) + (i + 1) - 1 <= n /\ n <= made[c]
    BY <1>1, Shifted DEF Oldest, One
  <2>2. n \in Nat
    <3>1. Tail(wire[c])[i] \in Datagram
      BY <1>1, Shifted, ElementOfSeq
    <3> QED BY <3>1, CallsAssumption DEF Datagram
  <2>3. i \in Nat /\ made[c] \in Nat /\ Disturbed(c) \in Nat
    BY <1>1, Counts, Shifted, QueueOfDatagrams DEF IInv
  <2> HIDE DEF n
  <2>4. made[c] - Disturbed(c) + i - 1 <= n
    BY <2>1, <2>2, <2>3
  <2> QED BY <2>1, <2>4 DEF n
<1>3. Tail(wire[c]) \in Seq(Datagram) /\ Len(Tail(wire[c])) <= Len(wire[c])
  BY <1>1, Shifted, QueueOfDatagrams DEF IInv
<1> QED BY <1>1, <1>2, <1>3, NoAnswerStep

\* A call that reads the oldest answer, its own or not.
LEMMA TakeStep ==
    ASSUME IInv, NEW c \in Client, Take(c)
    PROVE  Shape' /\ \A d \in Client : InLine(d)'
<1>1. /\ Waiting(c) /\ wire[c] # <<>>
      /\ call' = [call EXCEPT ![c] = None] /\ wire' = [wire EXCEPT ![c] = Tail(wire[c])]
      /\ UNCHANGED <<made, resent, repeats, swaps>>
  BY DEF Take, Readable, Unread, faultVars
<1>2. wire'[c] = Tail(wire[c]) /\ ~Waiting(c)' /\ made'[c] = made[c] /\ Disturbed(c)' = Disturbed(c)
  BY <1>1 DEF IInv, Shape, Waiting, Disturbed
<1>3. Shape'
  BY <1>1, Shifted DEF IInv, Shape, Waiting
<1>4. ASSUME NEW i \in 1..(Len(wire[c]) - 1)
      PROVE  Oldest(c, i)' = Oldest(c, i + 1)
  <2>1. i \in Nat /\ made[c] \in Nat /\ Disturbed(c) \in Nat
    BY Counts, QueueOfDatagrams DEF IInv
  <2>2. Oldest(c, i)' = made[c] - Disturbed(c) + i - 0
    BY <1>2 DEF Oldest, One
  <2>3. Oldest(c, i + 1) = made[c] - Disturbed(c) + (i + 1) - 1
    BY <1>1 DEF Oldest, One
  <2> QED BY <2>1, <2>2, <2>3
<1>5. InLine(c)'
  BY <1>1, <1>2, <1>4, Shifted DEF InLine
<1>6. ASSUME NEW d \in Client, d # c
      PROVE  InLine(d)'
  BY <1>1, <1>6, Untouched DEF IInv, Shape, Disturbed
<1> QED BY <1>3, <1>5, <1>6

\* Execute and Damage write the answer of one datagram.
LEMMA AnsweredStep ==
    ASSUME IInv, NEW c \in Client, NEW i \in DOMAIN wire[c], NEW ans \in Answer,
           wire' = [wire EXCEPT ![c][i].ans = ans],
           UNCHANGED <<call, made, resent, repeats, swaps>>
    PROVE  Shape' /\ \A d \in Client : InLine(d)'
<1>1. wire[c] \in Seq(Datagram) /\ i \in 1..Len(wire[c]) /\ wire[c][i] \in Datagram
  BY QueueOfDatagrams DEF IInv
<1>2. [wire[c][i] EXCEPT !.ans = ans] \in Datagram
  BY <1>1 DEF Datagram
<1>3. wire'[c] = [wire[c] EXCEPT ![i] = [wire[c][i] EXCEPT !.ans = ans]]
  BY DEF IInv, Shape
<1>4. /\ wire'[c] \in Seq(Datagram) /\ Len(wire'[c]) = Len(wire[c])
      /\ \A j \in 1..Len(wire[c]) :
           wire'[c][j] = IF j = i THEN [wire[c][i] EXCEPT !.ans = ans] ELSE wire[c][j]
  BY <1>1, <1>2, <1>3, ExceptSeq, SMTT(30)
<1>5. DOMAIN wire'[c] = DOMAIN wire[c]
  BY <1>4, LenProperties, QueueOfDatagrams DEF IInv
<1>6. \A j \in DOMAIN wire[c] : wire'[c][j].of = wire[c][j].of
  <2>1. [wire[c][i] EXCEPT !.ans = ans].of = wire[c][i].of
    BY <1>1 DEF Datagram
  <2> QED BY <1>4, <2>1, QueueOfDatagrams DEF IInv
<1>7. Shape'
  BY <1>4 DEF IInv, Shape, Waiting
<1>8. InLine(c)'
  BY <1>5, <1>6 DEF IInv, InLine, Oldest, One, Disturbed, Waiting
<1>9. ASSUME NEW d \in Client, d # c
      PROVE  InLine(d)'
  BY <1>9, Untouched DEF IInv, Shape, Disturbed
<1> QED BY <1>7, <1>8, <1>9

\* What a handler may answer is an answer.
LEMMA RepliesAreAnswers ==
    ASSUME TunnelsTypeOK, NEW t \in Tun, NEW x \in Replies(t)
    PROVE  x \in Answer
<1>1. CASE x \in [text : Word \ {"garbage"}, load : {None}]
  BY <1>1 DEF Answer
<1>2. CASE Exists(t) /\ x \in [text : {"data", ""}, load : UNION {ToSet(tunnels[t].queue[s]) : s \in Side}]
  <2>1. \A s \in Side : tunnels[t].queue[s] \in Seq(Message)
    BY <1>2 DEF TunnelsTypeOK, Exists, Tunnel
  <2>2. \A s \in Side : ToSet(tunnels[t].queue[s]) \subseteq Payload
    BY <2>1, RequestAssumption, LenProperties, ElementOfSeq DEF ToSet
  <2>3. UNION {ToSet(tunnels[t].queue[s]) : s \in Side} \subseteq Payload
    BY <2>2
  <2>4. x.text \in {"data", ""} /\ x.load \in Payload /\ x = [text |-> x.text, load |-> x.load]
    BY <1>2, <2>3
  <2> QED BY <2>4 DEF Answer
<1> QED BY <1>1, <1>2 DEF Replies

\* The mirror executes a request and its answer takes the place of it.
LEMMA ExecuteStep ==
    ASSUME IInv, NEW c \in Client, Execute(c)
    PROVE  Shape' /\ \A d \in Client : InLine(d)'
<1>1. PICK i \in DOMAIN wire[c] : \E ans \in Replies(wire[c][i].req.tun) :
        wire' = [wire EXCEPT ![c][i].ans = ans]
  BY DEF Execute
<1>2. PICK ans \in Replies(wire[c][i].req.tun) : wire' = [wire EXCEPT ![c][i].ans = ans]
  BY <1>1
<1>3. wire[c][i].req.tun \in Tun
  <2>1. wire[c][i] \in Datagram
    BY QueueOfDatagrams DEF IInv
  <2> QED BY <2>1 DEF Datagram, Request
<1>4. ans \in Answer
  BY <1>3, RepliesAreAnswers DEF IInv
<1> QED BY <1>2, <1>4, AnsweredStep DEF Execute, faultVars

\* A datagram damaged stays where it is.
LEMMA DamageStep ==
    ASSUME IInv, NEW c \in Client, Damage(c)
    PROVE  Shape' /\ \A d \in Client : InLine(d)'
<1>1. [text |-> "garbage", load |-> None] \in Answer
  BY DEF Answer, Word
<1>2. PICK i \in DOMAIN wire[c] :
        wire' = [wire EXCEPT ![c][i].ans = [text |-> "garbage", load |-> None]]
  BY DEF Damage
<1> QED BY <1>1, <1>2, AnsweredStep DEF Damage, Fault

\* A datagram lost lets the later ones move up.
LEMMA LoseStep ==
    ASSUME IInv, NEW c \in Client, Lose(c)
    PROVE  Shape' /\ \A d \in Client : InLine(d)'
<1>1. PICK i \in DOMAIN wire[c] : /\ wire' = [wire EXCEPT ![c] = RemoveAt(@, i)]
                                 /\ UNCHANGED <<call, made, resent, repeats, swaps>>
  BY DEF Lose, Fault
<1>2. /\ wire[c] \in Seq(Datagram) /\ i \in 1..Len(wire[c]) /\ Len(wire[c]) \in Nat
      /\ wire'[c] = RemoveAt(wire[c], i)
  BY <1>1, QueueOfDatagrams DEF IInv, Shape
<1>3. /\ wire'[c] \in Seq(Datagram) /\ DOMAIN wire'[c] = 1..(Len(wire[c]) - 1)
      /\ \A j \in 1..(Len(wire[c]) - 1) :
           wire'[c][j] = IF j < i THEN wire[c][j] ELSE wire[c][j + 1]
  <2>1. /\ wire'[c] \in Seq(Datagram) /\ Len(wire'[c]) = Len(wire[c]) - 1
        /\ \A j \in 1..(Len(wire[c]) - 1) :
             wire'[c][j] = IF j < i THEN wire[c][j] ELSE wire[c][j + 1]
    <3> DEFINE q == wire[c]
    <3>1. q \in Seq(Datagram) /\ i \in 1..Len(q) /\ wire'[c] = RemoveAt(q, i)
      BY <1>2
    <3> HIDE DEF q
    <3>2. /\ wire'[c] \in Seq(Datagram) /\ Len(wire'[c]) = Len(q) - 1
          /\ \A j \in 1..(Len(q) - 1) : wire'[c][j] = IF j < i THEN q[j] ELSE q[j + 1]
      BY <3>1, Removed
    <3> QED BY <3>2 DEF q
  <2>2. DOMAIN wire'[c] = 1..Len(wire'[c])
    BY <2>1, LenProperties
  <2> QED BY <2>1, <2>2
<1>4. Shape'
  BY <1>1, <1>3 DEF IInv, Shape, Waiting
<1>5. ASSUME NEW j \in 1..(Len(wire[c]) - 1)
      PROVE  Oldest(c, j)' <= wire'[c][j].of /\ wire'[c][j].of <= made'[c]
  <2>1. /\ Oldest(c, j)' = Oldest(c, j) /\ made'[c] = made[c]
    BY <1>1 DEF Oldest, One, Disturbed, Waiting
  <2>2. CASE j < i
    BY <1>2, <1>3, <2>1, <2>2, QueueOfDatagrams DEF IInv, InLine
  <2>3. CASE ~(j < i)
    <3> DEFINE n == wire[c][j + 1].of
    <3>1. j + 1 \in DOMAIN wire[c] /\ j \in Nat
      BY <1>2, QueueOfDatagrams DEF IInv
    <3>2. wire'[c][j].of = n /\ n \in Nat /\ Oldest(c, j + 1) <= n /\ n <= made[c]
      BY <1>3, <2>3, <3>1, QueueOfDatagrams DEF IInv, InLine
    <3> HIDE DEF n
    <3>3. /\ made[c] \in Nat /\ Disturbed(c) \in Nat /\ One(c) \in {0, 1}
          /\ Oldest(c, j) = made[c] - Disturbed(c) + j - One(c)
          /\ Oldest(c, j + 1) = made[c] - Disturbed(c) + (j + 1) - One(c)
      BY Counts DEF IInv, Oldest
    <3>4. Oldest(c, j) <= n
      BY <3>1, <3>2, <3>3
    <3> QED BY <2>1, <3>2, <3>4
  <2> QED BY <2>2, <2>3
<1>6. InLine(c)'
  BY <1>3, <1>5 DEF InLine
<1>7. ASSUME NEW d \in Client, d # c
      PROVE  InLine(d)'
  BY <1>1, <1>7, Untouched DEF IInv, Shape, Disturbed
<1> QED BY <1>4, <1>6, <1>7

\* One more event, and nothing else that Oldest looks at.
LEMMA OneMoreEvent ==
    ASSUME IInv, NEW c \in Client, NEW j \in Int,
           Disturbed(c)' = Disturbed(c) + 1, UNCHANGED <<call, made>>
    PROVE  /\ Oldest(c, j)' = Oldest(c, j) - 1
           /\ Oldest(c, j)' = Oldest(c, j - 1)
           /\ Oldest(c, j) \in Int
<1>1. /\ made[c] \in Nat /\ Disturbed(c) \in Nat /\ One(c) \in {0, 1}
  BY Counts DEF IInv
<1>2. One(c)' = One(c)
  BY DEF One, Waiting
<1>3. Oldest(c, j)' = made[c] - (Disturbed(c) + 1) + j - One(c)
  BY <1>2 DEF Oldest
<1>4. /\ Oldest(c, j) = made[c] - Disturbed(c) + j - One(c)
      /\ Oldest(c, j - 1) = made[c] - Disturbed(c) + (j - 1) - One(c)
  BY DEF Oldest
<1> QED BY <1>1, <1>3, <1>4

\* A datagram repeated pushes the later ones back.
LEMMA RepeatStep ==
    ASSUME IInv, NEW c \in Client, Repeat(c)
    PROVE  Shape' /\ \A d \in Client : InLine(d)'
<1>1. PICK i \in DOMAIN wire[c] :
        /\ wire' = [wire EXCEPT ![c] = InsertAt(@, i, @[i])]
        /\ repeats' = [repeats EXCEPT ![c] = @ + 1]
        /\ UNCHANGED <<call, made, resent, swaps>>
  BY DEF Repeat, Fault
<1> DEFINE q == wire[c]
<1>2. /\ q \in Seq(Datagram) /\ i \in 1..Len(q) /\ Len(q) \in Nat /\ q[i] \in Datagram
      /\ wire'[c] = InsertAt(q, i, q[i])
  BY <1>1, QueueOfDatagrams DEF IInv, Shape
<1>3. /\ wire'[c] \in Seq(Datagram) /\ Len(wire'[c]) = Len(q) + 1
      /\ \A j \in 1..(Len(q) + 1) :
           wire'[c][j] = IF j < i THEN q[j] ELSE IF j = i THEN q[i] ELSE q[j - 1]
  <2> HIDE DEF q
  <2>1. Doubled(wire'[c], q, i)
    BY <1>2, Inserted
  <2> QED BY <2>1 DEF Doubled
<1>4. DOMAIN wire'[c] = 1..(Len(q) + 1)
  BY <1>3, LenProperties
<1>5. Disturbed(c)' = Disturbed(c) + 1
  BY <1>1, Counts DEF IInv, Shape, Disturbed
<1>6. Shape'
  BY <1>1, <1>3 DEF IInv, Shape, Waiting
<1>7. \A j \in 1..Len(q) : Oldest(c, j) <= q[j].of /\ q[j].of <= made[c] /\ q[j].of \in Nat
  BY QueueOfDatagrams DEF IInv, InLine
<1>8. ASSUME NEW j \in 1..(Len(q) + 1)
      PROVE  Oldest(c, j)' <= wire'[c][j].of /\ wire'[c][j].of <= made'[c]
  <2>1. /\ j \in Int /\ made'[c] = made[c]
        /\ Oldest(c, j)' = Oldest(c, j) - 1 /\ Oldest(c, j)' = Oldest(c, j - 1)
        /\ Oldest(c, j) \in Int
    <3>1. j \in Int
      BY <1>2
    <3> QED BY <1>1, <1>5, <3>1, OneMoreEvent
  <2>2. CASE j <= i
    <3>1. wire'[c][j] = q[j] /\ j \in 1..Len(q)
      BY <1>2, <1>3, <2>2
    <3> HIDE DEF q
    <3> QED BY <1>7, <2>1, <3>1
  <2>3. CASE ~(j <= i)
    <3>1. wire'[c][j] = q[j - 1] /\ j - 1 \in 1..Len(q)
      BY <1>2, <1>3, <2>3
    <3> HIDE DEF q
    <3> QED BY <1>7, <2>1, <3>1
  <2> QED BY <2>2, <2>3
<1>9. InLine(c)'
  BY <1>4, <1>8 DEF InLine
<1>10. ASSUME NEW d \in Client, d # c
       PROVE  InLine(d)'
  BY <1>1, <1>10, Untouched DEF IInv, Shape, Disturbed
<1> QED BY <1>6, <1>9, <1>10

\* Two neighbours change places.
LEMMA OvertakeStep ==
    ASSUME IInv, NEW c \in Client, Overtake(c)
    PROVE  Shape' /\ \A d \in Client : InLine(d)'
<1>1. PICK i \in 1..(Len(wire[c]) - 1) :
        /\ wire' = [wire EXCEPT ![c][i] = wire[c][i + 1], ![c][i + 1] = wire[c][i]]
        /\ swaps' = [swaps EXCEPT ![c] = @ + 1]
        /\ UNCHANGED <<call, made, resent, repeats>>
  BY DEF Overtake, Fault
<1> DEFINE q == wire[c]
<1>2. /\ q \in Seq(Datagram) /\ Len(q) \in Nat
      /\ i \in 1..Len(q) /\ i + 1 \in 1..Len(q) /\ q[i] \in Datagram /\ q[i + 1] \in Datagram
      /\ wire'[c] = [[q EXCEPT ![i] = q[i + 1]] EXCEPT ![i + 1] = q[i]]
  BY <1>1, QueueOfDatagrams DEF IInv, Shape
<1>3. /\ wire'[c] \in Seq(Datagram) /\ Len(wire'[c]) = Len(q)
      /\ \A j \in 1..Len(q) :
           wire'[c][j] = IF j = i + 1 THEN q[i] ELSE IF j = i THEN q[i + 1] ELSE q[j]
  <2> DEFINE r == [q EXCEPT ![i] = q[i + 1]]
  <2> HIDE DEF q
  <2>1. /\ r \in Seq(Datagram) /\ Len(r) = Len(q)
        /\ \A j \in 1..Len(q) : r[j] = IF j = i THEN q[i + 1] ELSE q[j]
    BY <1>2, ExceptSeq
  <2>2. wire'[c] = [r EXCEPT ![i + 1] = q[i]]
    BY <1>2
  <2> HIDE DEF r
  <2> QED BY <1>2, <2>1, <2>2, ExceptSeq
<1>4. DOMAIN wire'[c] = 1..Len(q)
  BY <1>3, LenProperties
<1>5. Disturbed(c)' = Disturbed(c) + 1
  BY <1>1, Counts DEF IInv, Shape, Disturbed
<1>6. Shape'
  BY <1>1, <1>3 DEF IInv, Shape, Waiting
<1>7. \A j \in 1..Len(q) : Oldest(c, j) <= q[j].of /\ q[j].of <= made[c] /\ q[j].of \in Nat
  BY QueueOfDatagrams DEF IInv, InLine
<1>8. ASSUME NEW j \in 1..Len(q)
      PROVE  Oldest(c, j)' <= wire'[c][j].of /\ wire'[c][j].of <= made'[c]
  <2>1. /\ j \in Int /\ made'[c] = made[c]
        /\ Oldest(c, j)' = Oldest(c, j) - 1 /\ Oldest(c, j)' = Oldest(c, j - 1)
        /\ Oldest(c, j) \in Int
    BY <1>1, <1>2, <1>5, OneMoreEvent
  <2>2. CASE j = i + 1
    <3>1. wire'[c][j] = q[j - 1] /\ j - 1 \in 1..Len(q)
      BY <1>2, <1>3, <2>2
    <3> HIDE DEF q
    <3> QED BY <1>7, <2>1, <3>1
  <2>3. CASE j = i
    <3>1. Oldest(c, j)' <= Oldest(c, j + 1)
      BY <2>1, Counts, SMTT(30) DEF IInv, Oldest
    <3>2. wire'[c][j] = q[j + 1] /\ j + 1 \in 1..Len(q)
      BY <1>2, <1>3, <2>3
    <3>3. Oldest(c, j + 1) \in Int
      BY <2>1, Counts, SMTT(30) DEF IInv, Oldest
    <3> HIDE DEF q
    <3> QED BY <1>7, <2>1, <3>1, <3>2, <3>3
  <2>4. CASE j # i /\ j # i + 1
    <3>1. wire'[c][j] = q[j]
      BY <1>2, <1>3, <2>4
    <3> HIDE DEF q
    <3> QED BY <1>7, <2>1, <3>1
  <2> QED BY <2>2, <2>3, <2>4
<1>9. InLine(c)'
  BY <1>4, <1>8 DEF InLine
<1>10. ASSUME NEW d \in Client, d # c
       PROVE  InLine(d)'
  BY <1>1, <1>10, Untouched DEF IInv, Shape, Disturbed
<1> QED BY <1>6, <1>9, <1>10

----------------------------------------------------------------------------
\* The strengthened invariant holds in every reachable state.
LEMMA IInvHolds == Spec => []IInv
<1>1. Init => IInv
  <2> SUFFICES ASSUME Init PROVE IInv
    OBVIOUS
  <2>1. TunnelsTypeOK
    BY TunnelsAssumption DEF Init, InitTunnels, TunnelsTypeOK
  <2>2. Shape
    BY CallsAssumption DEF Init, Shape, Waiting
  <2>3. \A c \in Client : InLine(c)
    BY DEF Init, InLine
  <2> QED BY <2>1, <2>2, <2>3 DEF IInv
<1>2. IInv /\ [Next]_vars => IInv'
  <2> SUFFICES ASSUME IInv, [Next]_vars PROVE IInv'
    OBVIOUS
  <2>1. TunnelsTypeOK'
    BY StepMirror, TunnelsStepType DEF IInv
  <2>2. CASE UNCHANGED vars
    BY <2>1, <2>2 DEF IInv, Shape, InLine, Oldest, One, Disturbed, Waiting, vars, callVars, faultVars
  <2>3. CASE Next
    BY <2>1, <2>3, CallStep, TimeOutStep, TakeNothingStep, TakeStep, ExecuteStep, RepeatStep,
       OvertakeStep, DamageStep, LoseStep DEF IInv, Next, ClientStep, Network
  <2> QED BY <2>2, <2>3
<1> QED BY <1>1, <1>2, PTL DEF Spec

\* However the network loses, doubles, damages and reorders datagrams, and however
\* often fail_safe_sr sends its request again, an answer a waiting client may be
\* given is at most as many calls old as there were such events.
THEOREM AnswersStayClose == Spec => []AnswerAge
<1>1. IInv => AnswerAge
  <2> SUFFICES ASSUME IInv, NEW c \in Client, NEW i \in DOMAIN wire[c], Waiting(c)
               PROVE  made[c] - wire[c][i].of <= Disturbed(c)
    BY DEF AnswerAge
  <2> DEFINE n == wire[c][i].of
  <2>1. i \in 1..Len(wire[c]) /\ n \in Nat /\ made[c] - Disturbed(c) + i - 1 <= n
    BY QueueOfDatagrams DEF IInv, InLine, Oldest, One
  <2> HIDE DEF n
  <2>2. made[c] - n <= Disturbed(c)
    BY <2>1, Counts, QueueOfDatagrams DEF IInv
  <2> QED BY <2>2 DEF n
<1> QED BY <1>1, IInvHolds, PTL

\* Calls over the network run the mirror of Tunnels and nothing else: every
\* property proved of the mirror holds for the clients of this module.
THEOREM CallsRunTheMirror == Spec => SpecTunnels
<1>1. Init => InitTunnels
  BY DEF Init
<1>2. IInv /\ [Next]_vars => [NextTunnels]_tunnelVars
  BY StepMirror DEF IInv
<1> QED BY <1>1, <1>2, IInvHolds, PTL DEF Spec, SpecTunnels

\* So a retried connect, or one answered late, never joins a client to itself.
COROLLARY NoSelfTunnelInCalls == Spec => []NoSelfTunnel
BY CallsRunTheMirror, NobodyTalksToItself, PTL

----------------------------------------------------------------------------
(* Induction over data.  The library's induction theorems take an operator, *)
(* which no installed prover can instantiate; a set will do in its place.   *)

\* A set of naturals has a least element.
LEMMA Least == ASSUME NEW T, T \subseteq Nat, NEW b \in T PROVE \E x \in T : \A y \in T : x <= y
<1> DEFINE B == 0..b
           U == {0..y : y \in T \cap B}
           R == StrictSubsetOrdering(B)
<1>1. IsFiniteSet(B)
  BY FS_Interval
<1>2. IsWellFoundedOn(R, SUBSET B)
  BY <1>1, FS_StrictSubsetOrderingWellFounded, FS_FiniteSubsetsOfFinite
<1>3. U \subseteq SUBSET B /\ U # {}
  OBVIOUS
<1>4. PICK m \in U : \A o \in U : ~(<<o, m>> \in R)
  <2> HIDE DEF R, U, B
  <2> QED BY <1>2, <1>3, WFMin
<1>5. PICK x \in T \cap B : m = 0..x
  BY <1>4
<1>6. ASSUME NEW y \in T, y < x PROVE FALSE
  <2>1. y \in B /\ 0..y \in U
    BY <1>6
  <2>2. 0..y # 0..x /\ 0..y \subseteq 0..x
    BY <1>6
  <2>3. <<0..y, 0..x>> \in R
    BY <1>3, <2>1, <2>2, <1>5 DEF StrictSubsetOrdering
  <2> QED BY <2>1, <2>3, <1>4, <1>5
<1> QED BY <1>5, <1>6

\* induction as a set
LEMMA Induction == ASSUME NEW G, 0 \in G, \A n \in Nat : n \in G => n + 1 \in G PROVE Nat \subseteq G
<1> SUFFICES ASSUME NEW b \in Nat \ G PROVE FALSE
  OBVIOUS
<1>1. PICK x \in Nat \ G : \A y \in Nat \ G : x <= y
  BY Least
<1>2. x # 0 /\ x - 1 \in Nat /\ x - 1 \in G
  BY <1>1
<1> QED BY <1>1, <1>2


(* The lists of tunnels, and the types of all variables.                   *)

\* remove_if leaves a list of what was in the list.
LEMMA KeptType == ASSUME NEW S, NEW list \in Seq(S), NEW t PROVE Kept(list, t) \in Seq(S)
<1> DEFINE Step(k, i) == IF i = 0 THEN <<>>
                         ELSE IF list[i] = t THEN k[i - 1] ELSE Append(k[i - 1], list[i])
           Runs(n) == \E k \in [0..n -> Seq(S)] : \A i \in 0..n : k[i] = Step(k, i)
           G == {n \in Nat : n <= Len(list) => Runs(n)}
<1>1. Runs(0)
  <2> DEFINE k == [i \in 0..0 |-> <<>>]
  <2>1. k \in [0..0 -> Seq(S)]
    BY EmptySeq
  <2>2. \A i \in 0..0 : k[i] = Step(k, i)
    <3> SUFFICES ASSUME NEW i \in 0..0 PROVE k[i] = Step(k, i)
      OBVIOUS
    <3>1. i = 0 /\ k[i] = <<>>
      OBVIOUS
    <3> HIDE DEF k
    <3> QED BY <3>1
  <2> HIDE DEF k
  <2> QED BY <2>1, <2>2
<1>2. ASSUME NEW n \in Nat, n \in G PROVE n + 1 \in G
  <2> SUFFICES ASSUME n + 1 <= Len(list) PROVE Runs(n + 1)
    <3> HIDE DEF Runs
    <3> QED OBVIOUS
  <2>1. PICK k \in [0..n -> Seq(S)] : \A i \in 0..n : k[i] = Step(k, i)
    BY <1>2, LenProperties, SMTT(30)
  <2> DEFINE l == IF list[n + 1] = t THEN k[n] ELSE Append(k[n], list[n + 1])
             h == [i \in 0..(n + 1) |-> IF i = n + 1 THEN l ELSE k[i]]
  <2>2. l \in Seq(S)
    BY ElementOfSeq, AppendProperties, LenProperties
  <2> HIDE DEF l
  <2>3. h \in [0..(n + 1) -> Seq(S)]
    BY <2>2
  <2>4. ASSUME NEW i \in 0..(n + 1) PROVE h[i] = Step(h, i)
    <3>1. CASE i = n + 1
      BY <3>1 DEF l
    <3>2. CASE i # n + 1
      <4>0. i \in 0..n
        BY <3>2
      <4>a. h[i] = k[i]
        BY <3>2
      <4>1. i \in 0..n /\ h[i] = k[i] /\ k[i] = Step(k, i)
        <5> HIDE DEF h, Step
        <5> QED BY <2>1, <4>0, <4>a
      <4>2. i # 0 => h[i - 1] = k[i - 1]
        BY <3>2
      <4> HIDE DEF h
      <4> QED BY <4>1, <4>2
    <3> QED BY <3>1, <3>2
  <2> HIDE DEF h
  <2> QED BY <2>3, <2>4
<1>3. Len(list) \in G
  <2> HIDE DEF Runs
  <2>1. 0 \in G
    BY <1>1
  <2> HIDE DEF G
  <2> QED BY <1>2, <2>1, Induction, LenProperties
<1>4. PICK k \in [0..Len(list) -> Seq(S)] : \A i \in 0..Len(list) : k[i] = Step(k, i)
  BY <1>3, LenProperties
<1> DEFINE Fun(h) == h = [i \in 0..Len(list) |-> Step(h, i)]
<1>5. Fun(k)
  BY <1>4
<1> DEFINE f == CHOOSE h : Fun(h)
<1>6. Fun(f)
  BY <1>5
<1>7. Kept(list, t) = f[Len(list)]
  BY DEF Kept
<1> HIDE DEF f
<1> DEFINE H == {i \in Nat : i <= Len(list) => f[i] \in Seq(S)}
<1>8. Len(list) \in H
  <2>1. 0 \in H
    BY <1>6, LenProperties, EmptySeq
  <2>2. ASSUME NEW i \in Nat, i \in H PROVE i + 1 \in H
    <3> SUFFICES ASSUME i + 1 <= Len(list) PROVE f[i + 1] \in Seq(S)
      OBVIOUS
    <3>1. list[i + 1] \in S /\ f[i] \in Seq(S)
      BY <2>2, LenProperties, ElementOfSeq
    <3>2. f[i + 1] = IF list[i + 1] = t THEN f[i] ELSE Append(f[i], list[i + 1])
      <4>1. i + 1 \in 0..Len(list) /\ i + 1 # 0 /\ i + 1 - 1 = i
        BY LenProperties
      <4>2. f[i + 1] = Step(f, i + 1)
        BY <1>6, <4>1
      <4> QED BY <4>1, <4>2
    <3> QED BY <3>1, <3>2, AppendProperties
  <2> HIDE DEF H
  <2> QED BY <2>1, <2>2, Induction, LenProperties
<1> QED BY <1>7, <1>8, LenProperties

\* What erase leaves behind is a list of tunnels still.
LEMMA StruckType ==
    ASSUME NEW list \in Seq(Tun), NEW t
    PROVE  Struck(list, t) \in Seq(Tun)
<1> DEFINE kept == Kept(list, t)
<1>1. kept \in Seq(Tun) /\ Len(kept) \in Nat
  BY KeptType, LenProperties
<1> HIDE DEF kept
<1>2. SubSeq(list, Len(kept) + 2, Len(list)) \in Seq(Tun)
  <2>1. \A i \in (Len(kept) + 2)..Len(list) : list[i] \in Tun
    BY <1>1, LenProperties, ElementOfSeq
  <2> QED BY <1>1, <2>1, LenProperties, SubSeqProperties
<1> QED BY <1>1, <1>2, ConcatProperties DEF Struck, kept

\* Whatever is called, the lists stay lists of tunnels.
LEMMA ListingType ==
    ASSUME connected_to \in [Client -> Seq(Tun)], c_tunnels \in [Client -> Seq(Tun)],
           NEW c \in Client, NEW op, NEW t \in Tun, Listing(c, op, t)
    PROVE  connected_to' \in [Client -> Seq(Tun)] /\ c_tunnels' \in [Client -> Seq(Tun)]
<1>1. connected_to[c] \in Seq(Tun) /\ c_tunnels[c] \in Seq(Tun)
  OBVIOUS
<1>2. Struck(connected_to[c], t) \in Seq(Tun) /\ Struck(c_tunnels[c], t) \in Seq(Tun)
  BY <1>1, StruckType
<1>3. Append(c_tunnels[c], t) \in Seq(Tun)
  BY <1>1, AppendProperties
<1>4. connected_to' \in [Client -> Seq(Tun)]
  BY <1>2 DEF Listing
<1>5. c_tunnels' \in [Client -> Seq(Tun)]
  BY <1>2, <1>3 DEF Listing
<1> QED BY <1>4, <1>5

\* The variables Shape leaves out.
OwnTypes ==
    /\ left \in [Client -> Nat]
    /\ \A c \in Client : left[c] < Retries[c]
    /\ connected_to \in [Client -> Seq(Tun)]
    /\ c_tunnels \in [Client -> Seq(Tun)]
    /\ faults \in 0..MaxFaults
    /\ taken \in [Client -> SUBSET Payload]
    /\ read \in [Client -> SUBSET Payload]
    /\ latest \in [Client -> [Client -> [Tun -> 0..MaxCalls]]]
    /\ warned \subseteq Client

\* The message in an answer is a payload.
LEMMA AnswerLoad ==
    ASSUME Shape, NEW c \in Client, NEW i \in DOMAIN wire[c], wire[c][i].ans # None
    PROVE  wire[c][i].ans \in Answer /\ wire[c][i].ans.load \in Payload \cup {None}
<1>1. wire[c][i] \in Datagram
  BY QueueOfDatagrams
<1> QED BY <1>1 DEF Datagram, Answer

\* The oldest datagram.
LEMMA Oldest1 ==
    ASSUME Shape, NEW c \in Client, wire[c] # <<>>
    PROVE  1 \in DOMAIN wire[c] /\ Head(wire[c]) = wire[c][1]
BY QueueOfDatagrams, EmptySeq

\* Every step keeps them.
LEMMA OwnTypesStep ==
    ASSUME IInv, OwnTypes, [Next]_vars
    PROVE  OwnTypes'
<1> USE DEF OwnTypes
<1>1. ASSUME NEW c \in Client, Call(c)
      PROVE  OwnTypes'
  <2>1. PICK req \in Request : Asks(c, req)
    BY <1>1, CallAsks DEF IInv
  <2>2. connected_to' \in [Client -> Seq(Tun)] /\ c_tunnels' \in [Client -> Seq(Tun)]
    BY <2>1, ListingType DEF Asks, Request
  <2>3. left' \in [Client -> Nat] /\ \A d \in Client : left'[d] < Retries[d]
    <3>1. left' = [left EXCEPT ![c] = Retries[c] - 1] /\ Retries[c] \in Nat \ {0}
      BY <2>1, CallsAssumption DEF Asks
    <3>2. Retries[c] - 1 \in Nat /\ Retries[c] - 1 < Retries[c]
      BY <3>1
    <3> QED BY <3>1, <3>2
  <2> QED BY <2>1, <2>2, <2>3 DEF Asks, faultVars, dataVars
<1>2. ASSUME NEW c \in Client, NEW rest, NoAnswer(c, rest), faults' \in 0..MaxFaults
      PROVE  OwnTypes'
  <2>1. CASE Resend(c, rest)
    <3>1. left' = [left EXCEPT ![c] = @ - 1] /\ left[c] \in Nat /\ left[c] > 0
      BY <2>1 DEF Resend
    <3>a. Retries[c] \in Nat /\ left[c] < Retries[c]
      BY CallsAssumption
    <3>2. left[c] - 1 \in Nat /\ left[c] - 1 < Retries[c]
      <4> HIDE DEF OwnTypes
      <4> QED BY <3>1, <3>a
    <3>3. left' \in [Client -> Nat] /\ \A d \in Client : left'[d] < Retries[d]
      BY <3>1, <3>2
    <3> QED BY <1>2, <2>1, <3>3 DEF NoAnswer, Resend, listVars
  <2>2. CASE Fail(c, rest)
    BY <1>2, <2>2 DEF NoAnswer, Fail, listVars
  <2> QED BY <1>2, <2>1, <2>2 DEF NoAnswer
<1>3. ASSUME NEW c \in Client, TimeOut(c) \/ TakeNothing(c)
      PROVE  OwnTypes'
  <2>1. \E rest : NoAnswer(c, rest)
    BY <1>3 DEF TimeOut, TakeNothing
  <2>2. faults' \in 0..MaxFaults
    <3>1. faults \in 0..MaxFaults /\ MaxFaults \in Nat
      BY CallsAssumption
    <3>2. \/ faults < MaxFaults /\ faults' = faults + 1
          \/ faults' = faults
      BY <1>3 DEF TimeOut, TakeNothing
    <3> HIDE DEF OwnTypes
    <3> QED BY <3>1, <3>2
  <2> QED BY <1>2, <2>1, <2>2
<1>4. ASSUME NEW c \in Client, Take(c)
      PROVE  OwnTypes'
  <2> DEFINE a == Head(wire[c]).ans
  <2>1. a \in Answer /\ a.load \in Payload \cup {None}
    BY <1>4, Oldest1, AnswerLoad, ZenonT(60) DEF IInv, Take, Readable
  <2>2. call[c] \in Request
    BY <1>4 DEF Take, Waiting, IInv, Shape
  <2>3. connected_to' \in [Client -> Seq(Tun)] /\ c_tunnels' \in [Client -> Seq(Tun)]
    <3>1. Append(connected_to[c], call[c].tun) \in Seq(Tun)
      BY <2>2, AppendProperties DEF Request
    <3> QED BY <1>4, <3>1 DEF Take
  <2> HIDE DEF a
  <2>4. CASE call[c].op = "recv" /\ a.load # None
    <3>1. a.load \in Payload /\ a.load.from \in Client /\ a.load.tun \in Tun /\ a.load.n \in 0..MaxCalls
      BY <2>1, <2>4, CallsAssumption, SMTT(30) DEF Payload
    <3>2. /\ read' = [read EXCEPT ![c] = @ \cup {a.load}]
          /\ latest' = [latest EXCEPT ![c][a.load.from][a.load.tun] = a.load.n]
          /\ UNCHANGED <<warned, left, faults, taken>>
      BY <1>4, <2>4 DEF Take, a, faultVars
    <3>3. latest' \in [Client -> [Client -> [Tun -> 0..MaxCalls]]]
      BY <3>1, <3>2
    <3>4. read' \in [Client -> SUBSET Payload]
      BY <3>1, <3>2
    <3> QED BY <2>3, <3>2, <3>3, <3>4
  <2>5. CASE ~(call[c].op = "recv" /\ a.load # None)
    <3>1. UNCHANGED <<read, latest, left, faults, taken>> /\ warned' \subseteq Client
      BY <1>4, <2>5 DEF Take, a, faultVars
    <3> QED BY <2>3, <3>1
  <2> QED BY <2>4, <2>5
<1>5. ASSUME NEW c \in Client, Execute(c)
      PROVE  OwnTypes'
  <2>1. PICK i \in DOMAIN wire[c] : \E ans \in Replies(wire[c][i].req.tun) :
          taken' = [taken EXCEPT ![c] = IF ans.load = None THEN @ ELSE @ \cup {ans.load}]
    BY <1>5 DEF Execute
  <2>2. wire[c][i].req.tun \in Tun
    <3>1. wire[c][i] \in Datagram
      BY QueueOfDatagrams DEF IInv
    <3> QED BY <3>1 DEF Datagram, Request
  <2>3. PICK ans \in Replies(wire[c][i].req.tun) :
          taken' = [taken EXCEPT ![c] = IF ans.load = None THEN @ ELSE @ \cup {ans.load}]
    BY <2>1
  <2>4. ans.load \in Payload \cup {None}
    BY <2>2, RepliesAreAnswers DEF IInv, Answer
  <2> QED BY <1>5, <2>3, <2>4 DEF Execute, listVars, faultVars
<1>6. ASSUME NEW c \in Client, Network(c)
      PROVE  OwnTypes'
  <2>1. Fault
    BY <1>6 DEF Network, Repeat, Overtake, Damage, Lose
  <2>2. faults' \in 0..MaxFaults
    BY <2>1, CallsAssumption DEF Fault
  <2> QED BY <2>1, <2>2 DEF Fault, listVars, dataVars
<1>7. CASE UNCHANGED vars
  BY <1>7 DEF vars, callVars, listVars, faultVars, dataVars
<1> QED BY <1>1, <1>3, <1>4, <1>5, <1>6, <1>7 DEF Next, ClientStep

\* The messages, counters, lists and answers of the calls keep their types, with
\* any number of clients, tunnels, retries and faults: fail_safe_sr never has more
\* than the set retries to go, erase leaves a list.
THEOREM CallsTypeCorrect == Spec => []CallsTypeOK
<1>1. Init => OwnTypes
  BY CallsAssumption, EmptySeq DEF Init, OwnTypes
<1>2. IInv /\ OwnTypes /\ [Next]_vars => OwnTypes'
  BY OwnTypesStep
<1>3. IInv /\ OwnTypes => CallsTypeOK
  BY DEF IInv, Shape, OwnTypes, CallsTypeOK
<1> QED BY <1>1, <1>2, <1>3, IInvHolds, PTL DEF Spec

----------------------------------------------------------------------------
(* What a client that sends once may have lost.                            *)

\* A client that sends every request once, and of which nothing was doubled, has
\* seen nothing strange.
Unwarned(c) == Retries[c] = 1 /\ repeats[c] = 0 /\ c \notin warned

\* The datagram d is the call's own, and what the mirror took out for it is in it.
Carries(c, d) ==
    /\ d.req = call[c]
    /\ d.ans = None => taken[c] = read[c]
    /\ d.ans # None =>
         /\ d.ans.load # None => d.req.op = "recv" /\ d.ans.text # "garbage"
         /\ d.ans.text # "garbage" => taken[c] = read[c] \cup ({d.ans.load} \ {None})

\* At most one datagram is under way, and only a recv has taken what is not read.
NoneLost(c) == Unwarned(c) =>
    /\ ~Waiting(c) => wire[c] = <<>> /\ taken[c] = read[c]
    /\ Waiting(c) =>
         /\ Len(wire[c]) <= 1
         /\ call[c].op # "recv" => taken[c] = read[c]
         /\ wire[c] # <<>> => Carries(c, wire[c][1])

NoLoss == \A c \in Client : NoneLost(c)

\* What one client has lost is its own affair.
LEMMA LossUntouched ==
    ASSUME NEW d \in Client, NoneLost(d), call'[d] = call[d], wire'[d] = wire[d],
           repeats'[d] = repeats[d], d \in warned => d \in warned',
           taken'[d] = taken[d], read'[d] = read[d]
    PROVE  NoneLost(d)'
BY DEF NoneLost, Unwarned, Waiting, Carries

\* A queue of at most one datagram has one at most at its first place.
LEMMA OnlyOne ==
    ASSUME Shape, NEW c \in Client, Len(wire[c]) <= 1, NEW i \in DOMAIN wire[c]
    PROVE  i = 1 /\ Len(wire[c]) = 1 /\ wire[c] # <<>>
<1> DEFINE n == Len(wire[c])
<1>1. n \in Nat /\ i \in 1..n /\ n <= 1
  BY QueueOfDatagrams
<1> HIDE DEF n
<1>2. i = 1 /\ n = 1
  BY <1>1
<1> QED BY <1>2, QueueOfDatagrams, EmptySeq DEF n

\* A call starts with nothing on its way.
LEMMA LossCall ==
    ASSUME IInv, OwnTypes, NEW c \in Client, Call(c), NoLoss
    PROVE  NoLoss'
<1> USE DEF NoLoss
<1>1. PICK req \in Request : Asks(c, req)
  BY CallAsks DEF IInv
<1>2. ASSUME NEW d \in Client, d # c
      PROVE  NoneLost(d)'
  BY <1>1, <1>2, LossUntouched DEF IInv, Shape, Asks, faultVars, dataVars
<1>3. ASSUME Unwarned(c)'
      PROVE  NoneLost(c)'
  <2>1. Unwarned(c) /\ wire[c] = <<>> /\ taken[c] = read[c]
    BY <1>1, <1>3 DEF Asks, faultVars, dataVars, Unwarned, NoneLost
  <2>2. wire'[c] = <<Fresh(c, req)>>
    <3>1. wire'[c] = Append(<<>>, Fresh(c, req))
      BY <1>1, <2>1 DEF Asks, IInv, Shape
    <3> HIDE DEF Fresh
    <3> QED BY <3>1
  <2>3. call'[c] = req /\ taken'[c] = read'[c]
    BY <1>1, <2>1 DEF Asks, IInv, Shape, dataVars
  <2>4. Len(wire'[c]) = 1 /\ wire'[c][1] = Fresh(c, req)
    BY <2>2
  <2>5. Carries(c, wire[c][1])'
    BY <2>3, <2>4 DEF Carries, Fresh
  <2> QED BY <2>3, <2>4, <2>5, RequestAssumption DEF NoneLost, Waiting
<1>4. NoneLost(c)'
  BY <1>3 DEF NoneLost
<1> QED BY <1>2, <1>4

\* A client that sends once has no second try: without an answer it is warned.
LEMMA LossNoAnswer ==
    ASSUME IInv, OwnTypes, NEW c \in Client, NEW rest, NoAnswer(c, rest),
           NoLoss
    PROVE  NoLoss'
<1> USE DEF NoLoss
<1>1. ASSUME NEW d \in Client, d # c
      PROVE  NoneLost(d)'
  BY <1>1, LossUntouched DEF IInv, Shape, NoAnswer, Resend, Fail
<1>2. NoneLost(c)'
  <2>1. CASE Retries[c] = 1
    <3>1. ~(left[c] > 0)
      BY <2>1 DEF OwnTypes
    <3>2. c \in warned'
      BY <3>1 DEF NoAnswer, Resend, Fail
    <3> QED BY <3>2 DEF NoneLost, Unwarned
  <2>2. CASE Retries[c] # 1
    BY <2>2 DEF NoneLost, Unwarned
  <2> QED BY <2>1, <2>2
<1> QED BY <1>1, <1>2

\* An answer taken is the call's own; a message in it is read, and if the answer
\* is not what the mirror said the client is warned.
LEMMA LossTake ==
    ASSUME IInv, OwnTypes, NEW c \in Client, Take(c), NoLoss
    PROVE  NoLoss'
<1> USE DEF NoLoss
<1>1. ASSUME NEW d \in Client, d # c
      PROVE  NoneLost(d)'
  BY <1>1, LossUntouched DEF IInv, Shape, OwnTypes, Take, faultVars
<1> DEFINE a == Head(wire[c]).ans
<1>2. /\ Waiting(c) /\ wire[c] # <<>> /\ a # None /\ a = wire[c][1].ans
      /\ call' = [call EXCEPT ![c] = None] /\ wire' = [wire EXCEPT ![c] = Tail(wire[c])]
      /\ UNCHANGED <<repeats, taken>>
  BY Oldest1 DEF Take, Readable, Unread, faultVars, IInv
<1>3. \/ /\ call[c].op = "recv" /\ a.load # None
         /\ read' = [read EXCEPT ![c] = @ \cup {a.load}] /\ warned' = warned
      \/ /\ call[c].op = "recv" /\ a.load = None /\ read' = read
         /\ warned' = IF a.text = "no-data" THEN warned ELSE warned \cup {c}
      \/ call[c].op # "recv" /\ UNCHANGED <<read, warned>>
  BY DEF Take
<1> HIDE DEF a
<1>4. ASSUME Unwarned(c)'
      PROVE  NoneLost(c)'
  <2>1. Unwarned(c)
    BY <1>2, <1>3, <1>4 DEF Unwarned
  <2>2. /\ Len(wire[c]) <= 1 /\ Carries(c, wire[c][1])
        /\ call[c].op # "recv" => taken[c] = read[c]
    BY <1>2, <2>1 DEF NoneLost
  <2>3. wire'[c] = <<>>
    <3>1. wire'[c] = Tail(wire[c]) /\ Tail(wire[c]) \in Seq(Datagram) /\ Len(wire[c]) - 1 = Len(Tail(wire[c]))
      BY <1>2, Shifted DEF IInv, Shape
    <3>2. Len(wire[c]) = 1
      BY <1>2, <2>2, Oldest1, OnlyOne DEF IInv
    <3>3. Len(Tail(wire[c])) = 0
      BY <3>1, <3>2
    <3>4. Tail(wire[c]) = <<>>
      BY <3>1, <3>3, EmptySeq
    <3> QED BY <3>1, <3>4
  <2>4. ~Waiting(c)'
    BY <1>2 DEF Waiting, IInv, Shape
  <2>5. taken'[c] = read'[c]
    <3>1. CASE call[c].op = "recv" /\ a.load # None
      <4>1. taken[c] = read[c] \cup {a.load}
        BY <1>2, <2>2, <3>1 DEF Carries
      <4> QED BY <1>2, <1>3, <3>1, <4>1 DEF OwnTypes
    <3>2. CASE call[c].op = "recv" /\ a.load = None
      <4>1. a.text = "no-data"
        BY <1>3, <1>4, <3>2 DEF Unwarned, OwnTypes
      <4>2. taken[c] = read[c] \cup ({a.load} \ {None})
        BY <1>2, <2>2, <4>1 DEF Carries
      <4> QED BY <1>2, <1>3, <3>2, <4>2
    <3>3. CASE call[c].op # "recv"
      BY <1>2, <1>3, <2>2, <3>3
    <3> QED BY <3>1, <3>2, <3>3
  <2> QED BY <2>3, <2>4, <2>5 DEF NoneLost
<1>5. NoneLost(c)'
  BY <1>4 DEF NoneLost
<1> QED BY <1>1, <1>5

\* Only a recv is handed a message.
LEMMA LoadIsForRecv ==
    ASSUME NEW c \in Client, NEW req, NEW ans, Handled(c, req, ans), ans.load # None
    PROVE  req.op = "recv"
BY DEF Handled

\* What the mirror takes out for a recv is in the answer.
LEMMA LossExecute ==
    ASSUME IInv, OwnTypes, NEW c \in Client, Execute(c), NoLoss
    PROVE  NoLoss'
<1> USE DEF NoLoss
<1>1. PICK i \in DOMAIN wire[c] : \E ans \in Replies(wire[c][i].req.tun) :
        /\ wire[c][i].ans = None
        /\ Handled(c, wire[c][i].req, ans)
        /\ wire' = [wire EXCEPT ![c][i].ans = ans]
        /\ taken' = [taken EXCEPT ![c] = IF ans.load = None THEN @ ELSE @ \cup {ans.load}]
        /\ UNCHANGED <<call, repeats, read, warned>>
  BY DEF Execute, faultVars
<1>2. PICK ans \in Replies(wire[c][i].req.tun) :
        /\ wire[c][i].ans = None
        /\ Handled(c, wire[c][i].req, ans)
        /\ wire' = [wire EXCEPT ![c][i].ans = ans]
        /\ taken' = [taken EXCEPT ![c] = IF ans.load = None THEN @ ELSE @ \cup {ans.load}]
        /\ UNCHANGED <<call, repeats, read, warned>>
  BY <1>1
<1>3. ans.text # "garbage"
  BY DEF Replies
<1>4. ASSUME NEW d \in Client, d # c
      PROVE  NoneLost(d)'
  BY <1>2, <1>4, LossUntouched DEF IInv, Shape, OwnTypes
<1>5. wire[c] \in Seq(Datagram) /\ i \in 1..Len(wire[c]) /\ wire[c][i] \in Datagram
  BY QueueOfDatagrams DEF IInv
<1>6. ans \in Answer
  <2>1. wire[c][i].req.tun \in Tun
    BY <1>5 DEF Datagram, Request
  <2> QED BY <2>1, RepliesAreAnswers DEF IInv
<1>7. ASSUME Unwarned(c)'
      PROVE  NoneLost(c)'
  <2>1. Unwarned(c) /\ Waiting(c) /\ Len(wire[c]) <= 1 /\ wire[c] # <<>>
    BY <1>2, <1>5, <1>7, EmptySeq DEF Unwarned, NoneLost
  <2>2. i = 1 /\ Carries(c, wire[c][1]) /\ (call[c].op # "recv" => taken[c] = read[c])
    BY <2>1, OnlyOne DEF NoneLost, IInv
  <2>3. wire'[c] = [wire[c] EXCEPT ![1] = [wire[c][1] EXCEPT !.ans = ans]]
    BY <1>2, <2>2 DEF IInv, Shape
  <2>4. [wire[c][1] EXCEPT !.ans = ans] \in Datagram
    BY <1>5, <1>6, <2>2 DEF Datagram
  <2>5. /\ Len(wire'[c]) <= 1
        /\ wire'[c][1] = [wire[c][1] EXCEPT !.ans = ans]
    BY <1>5, <2>1, <2>2, <2>3, <2>4, ExceptSeq
  <2>6. taken[c] = read[c] /\ wire[c][1].req = call[c]
    BY <1>2, <2>2 DEF Carries
  <2>7. taken'[c] = read'[c] \cup ({ans.load} \ {None})
    BY <1>2, <2>6 DEF OwnTypes
  <2>8. ans.load # None => wire[c][1].req.op = "recv"
    BY <1>2, <2>2, LoadIsForRecv
  <2>9. wire'[c][1].req = call'[c] /\ wire'[c][1].ans = ans /\ wire'[c][1].req = wire[c][1].req
    BY <1>2, <1>5, <2>2, <2>5, <2>6 DEF Datagram
  <2>10. ans # None
    BY <1>6, RequestAssumption
  <2>11. Carries(c, wire[c][1])'
    BY <1>3, <2>7, <2>8, <2>9, <2>10 DEF Carries
  <2>12. (call[c].op # "recv" => taken[c] = read[c])'
    BY <1>2, <2>6, <2>7, <2>8
  <2> QED BY <1>2, <2>1, <2>5, <2>11, <2>12 DEF NoneLost, Waiting
<1>8. NoneLost(c)'
  BY <1>7 DEF NoneLost
<1> QED BY <1>4, <1>8

\* What the network does either leaves nothing for a client that sends once to
\* mistake for its answer, or shows.
LEMMA LossNetwork ==
    ASSUME IInv, OwnTypes, NEW c \in Client, Network(c), NoLoss
    PROVE  NoLoss'
<1> USE DEF NoLoss
<1>1. /\ UNCHANGED <<call, warned, taken, read>>
      /\ \A d \in Client : d # c => wire'[d] = wire[d] /\ repeats'[d] = repeats[d]
  BY DEF Network, Repeat, Overtake, Damage, Lose, Fault, dataVars, IInv, Shape
<1>2. ASSUME NEW d \in Client, d # c
      PROVE  NoneLost(d)'
  BY <1>1, <1>2, LossUntouched
<1>3. CASE Repeat(c)
  <2>1. repeats'[c] = repeats[c] + 1 /\ repeats[c] \in Nat
    BY <1>3 DEF Repeat, IInv, Shape
  <2>2. repeats'[c] # 0
    BY <2>1
  <2>3. NoneLost(c)'
    BY <2>2 DEF NoneLost, Unwarned
  <2> QED BY <1>2, <2>3
<1>4. ASSUME Unwarned(c)', NEW i \in DOMAIN wire[c], repeats' = repeats
      PROVE  /\ i = 1 /\ Len(wire[c]) = 1 /\ Waiting(c)
             /\ wire[c] \in Seq(Datagram) /\ wire[c][1] \in Datagram
             /\ Carries(c, wire[c][1])
             /\ call[c].op # "recv" => taken[c] = read[c]
  <2>1. Unwarned(c)
    BY <1>1, <1>4 DEF Unwarned
  <2>2. wire[c] # <<>> /\ wire[c] \in Seq(Datagram)
    BY <1>4, QueueOfDatagrams, EmptySeq DEF IInv
  <2>3. Waiting(c) /\ Len(wire[c]) <= 1 /\ Carries(c, wire[c][1])
        /\ (call[c].op # "recv" => taken[c] = read[c])
    BY <2>1, <2>2 DEF NoneLost
  <2>4. i = 1 /\ Len(wire[c]) = 1
    BY <2>3, OnlyOne DEF IInv
  <2> QED BY <2>2, <2>3, <2>4, QueueOfDatagrams DEF IInv
<1>5. CASE Overtake(c)
  <2>1. PICK i \in 1..(Len(wire[c]) - 1) : repeats' = repeats
    BY <1>5 DEF Overtake
  <2>2. i \in DOMAIN wire[c] /\ Len(wire[c]) # 1
    BY <2>1, QueueOfDatagrams DEF IInv
  <2>3. ~Unwarned(c)'
    BY <1>4, <2>1, <2>2
  <2> QED BY <1>2, <2>3 DEF NoneLost
<1>6. CASE Damage(c)
  <2> DEFINE garbage == [text |-> "garbage", load |-> None]
  <2>1. PICK i \in DOMAIN wire[c] : wire' = [wire EXCEPT ![c][i].ans = garbage] /\ repeats' = repeats
    BY <1>6 DEF Damage
  <2>2. garbage \in Answer /\ garbage # None /\ garbage.text = "garbage" /\ garbage.load = None
    <3>1. garbage \in Answer
      BY DEF Answer, Word
    <3>2. garbage # None
      BY <3>1, RequestAssumption
    <3> QED BY <3>1, <3>2
  <2> HIDE DEF garbage
  <2>3. ASSUME Unwarned(c)'
        PROVE  NoneLost(c)'
    <3>1. /\ i = 1 /\ Len(wire[c]) = 1 /\ Waiting(c) /\ wire[c] \in Seq(Datagram)
          /\ wire[c][1] \in Datagram /\ Carries(c, wire[c][1])
          /\ call[c].op # "recv" => taken[c] = read[c]
      BY <1>4, <2>1, <2>3
    <3>2. [wire[c][1] EXCEPT !.ans = garbage] \in Datagram
      BY <2>2, <3>1 DEF Datagram
    <3>3. wire'[c] = [wire[c] EXCEPT ![1] = [wire[c][1] EXCEPT !.ans = garbage]]
      BY <2>1, <3>1 DEF IInv, Shape
    <3>4. Len(wire'[c]) <= 1 /\ wire'[c][1] = [wire[c][1] EXCEPT !.ans = garbage]
      BY <3>1, <3>2, <3>3, ExceptSeq
    <3>5. wire'[c][1].req = call[c] /\ wire'[c][1].ans = garbage
      BY <3>1, <3>4 DEF Datagram, Carries
    <3>6. Carries(c, wire[c][1])'
      BY <1>1, <2>2, <3>5 DEF Carries
    <3> QED BY <1>1, <3>1, <3>4, <3>6 DEF NoneLost, Waiting
  <2> QED BY <1>2, <2>3 DEF NoneLost
<1>7. CASE Lose(c)
  <2>1. PICK i \in DOMAIN wire[c] : wire' = [wire EXCEPT ![c] = RemoveAt(@, i)] /\ repeats' = repeats
    BY <1>7 DEF Lose
  <2>2. ASSUME Unwarned(c)'
        PROVE  NoneLost(c)'
    <3>1. /\ i = 1 /\ Len(wire[c]) = 1 /\ Waiting(c) /\ wire[c] \in Seq(Datagram)
          /\ call[c].op # "recv" => taken[c] = read[c]
      BY <1>4, <2>1, <2>2
    <3>2. wire'[c] = RemoveAt(wire[c], i) /\ i \in 1..Len(wire[c])
      BY <2>1, <3>1 DEF IInv, Shape
    <3> DEFINE q == wire[c]
    <3> HIDE DEF q
    <3>3. q \in Seq(Datagram) /\ i \in 1..Len(q) /\ Len(q) = 1 /\ wire'[c] = RemoveAt(q, i)
      BY <3>1, <3>2 DEF q
    <3>a. RemoveAt(q, i) \in Seq(Datagram) /\ Len(RemoveAt(q, i)) = Len(q) - 1
      BY <3>3, Removed
    <3>4. wire'[c] \in Seq(Datagram) /\ Len(wire'[c]) = 0
      BY <3>3, <3>a
    <3>5. wire'[c] = <<>>
      BY <3>4, EmptySeq
    <3> QED BY <1>1, <3>1, <3>4, <3>5 DEF NoneLost, Waiting
  <2> QED BY <1>2, <2>2 DEF NoneLost
<1> QED BY <1>3, <1>5, <1>6, <1>7 DEF Network

\* What a client has taken from the mirror and never read is on its way to the call
\* that waits, or the client has been told: with any number of clients, tunnels and
\* faults, fail_safe_sr loses nothing in silence where it sends every request once.
THEOREM LossIsSeen == Spec => []LossIsNoticed
<1>1. Init => OwnTypes /\ NoLoss
  BY CallsAssumption, EmptySeq DEF Init, OwnTypes, NoLoss, NoneLost, Waiting
<1>2. IInv /\ OwnTypes /\ NoLoss /\ [Next]_vars => NoLoss'
  <2> SUFFICES ASSUME IInv, OwnTypes, NoLoss, [Next]_vars
               PROVE  NoLoss'
    OBVIOUS
  <2>1. CASE UNCHANGED vars
    BY <2>1, LossUntouched DEF NoLoss, vars, callVars, faultVars, dataVars
  <2>2. ASSUME NEW c \in Client, ClientStep(c) \/ Execute(c) \/ Network(c)
        PROVE  NoLoss'
    BY <2>2, LossCall, LossNoAnswer, LossTake, LossExecute, LossNetwork
       DEF ClientStep, TimeOut, TakeNothing
  <2> QED BY <2>1, <2>2 DEF Next
<1>3. NoLoss => LossIsNoticed
  BY DEF NoLoss, NoneLost, Unwarned, LossIsNoticed
<1>4. IInv /\ OwnTypes /\ [Next]_vars => OwnTypes'
  BY OwnTypesStep
<1> QED BY <1>1, <1>2, <1>3, <1>4, IInvHolds, PTL DEF Spec

----------------------------------------------------------------------------
(* The order in which messages are read.                                   *)

\* No datagram has overtaken another.
Calm == \A e \in Client : swaps[e] = 0

\* The queue of a side, empty without a tunnel.
QueueOf(t, s) == IF Exists(t) THEN tunnels[t].queue[s] ELSE <<>>

\* The i-th datagram of c is an answer with a message of d from the tunnel t.
Holds(c, i, d, t) ==
    /\ wire[c][i].ans # None /\ wire[c][i].ans.load # None
    /\ wire[c][i].ans.load.from = d /\ wire[c][i].ans.load.tun = t

\* The i-th datagram of d is a request to send in t that is not yet run.
Wants(d, i, t) == wire[d][i].ans = None /\ wire[d][i].req.op = "send" /\ wire[d][i].req.tun = t

\* The calls of d whose messages, in the tunnel t, are on their way to the mirror, in
\* a queue of it, and on their way to c.
Asked(d, t) == {n \in Nat : \E i \in DOMAIN wire[d] : Wants(d, i, t) /\ wire[d][i].of = n}
Queued(d, t) == {n \in Nat : \E s \in Side : \E i \in DOMAIN QueueOf(t, s) :
                    QueueOf(t, s)[i].from = d /\ QueueOf(t, s)[i].n = n}
Given(c, d, t) == {n \in Nat : \E i \in DOMAIN wire[c] :
                    Holds(c, i, d, t) /\ wire[c][i].ans.load.n = n}

UpTo(A, B) == \A x \in A, y \in B : x <= y

\* What is further on its way was sent earlier.
Chain(last, given, queued, asked, now) ==
    /\ \A x \in given \cup queued \cup asked \cup {now} : last <= x
    /\ UpTo(given, queued \cup asked \cup {now})
    /\ UpTo(queued, asked \cup {now})
    /\ UpTo(asked, {now})

Stream(c, d, t) == Chain(latest[c][d][t], Given(c, d, t), Queued(d, t), Asked(d, t), made[d])

\* A message is its author's and of the call that sends it, and waits on the side its
\* author writes to.
MessageOf(c, n, t) == [from |-> c, n |-> n, tun |-> t]
Signed(c) ==
    /\ Waiting(c) /\ call[c].op = "send" => call[c].load = MessageOf(c, made[c], call[c].tun)
    /\ \A i \in DOMAIN wire[c] : wire[c][i].req.op = "send" =>
         wire[c][i].req.load = MessageOf(c, wire[c][i].of, wire[c][i].req.tun)
Sorted(t, s) == \A i \in DOMAIN QueueOf(t, s) :
    /\ QueueOf(t, s)[i].tun = t
    /\ s = Outbox(QueueOf(t, s)[i].from, t)

\* Requests are run in the order of their calls, and messages stay in theirs.
CallsInOrder(c) == \A i, j \in DOMAIN wire[c] : i < j => wire[c][i].of <= wire[c][j].of
AnswersFirst(c) == \A i, j \in DOMAIN wire[c] :
    j < i /\ wire[c][i].ans # None /\ wire[c][i].ans.load # None => wire[c][j].ans # None
GivenInOrder(c) == \A i, j \in DOMAIN wire[c], d \in Client, t \in Tun :
    i < j /\ Holds(c, i, d, t) /\ Holds(c, j, d, t) => wire[c][i].ans.load.n <= wire[c][j].ans.load.n
QueuedInOrder(t, s) == \A i, j \in DOMAIN QueueOf(t, s) :
    i < j /\ QueueOf(t, s)[i].from = QueueOf(t, s)[j].from => QueueOf(t, s)[i].n <= QueueOf(t, s)[j].n

OnTheWire(c) == Signed(c) /\ CallsInOrder(c) /\ AnswersFirst(c) /\ GivenInOrder(c)
InTheQueue(t, s) == Sorted(t, s) /\ QueuedInOrder(t, s)
Ordered ==
    /\ \A c \in Client : OnTheWire(c)
    /\ \A t \in Tun, s \in Side : InTheQueue(t, s)
    /\ \A c, d \in Client, t \in Tun : Stream(c, d, t)

\* The sets of a stream are numbers.
LEMMA StreamNumbers ==
    ASSUME IInv, OwnTypes, NEW c \in Client, NEW d \in Client, NEW t \in Tun
    PROVE  /\ latest[c][d][t] \in Nat /\ made[d] \in Nat
           /\ Given(c, d, t) \subseteq Nat /\ Queued(d, t) \subseteq Nat /\ Asked(d, t) \subseteq Nat
<1>1. latest[c][d][t] \in 0..MaxCalls
  BY DEF OwnTypes
<1>2. made[d] \in Nat
  BY Counts DEF IInv
<1> QED BY <1>1, <1>2, CallsAssumption DEF Given, Queued, Asked

\* A chain loses messages, some of them because they are read, and gains new ones at
\* its end.
LEMMA ChainFewer ==
    ASSUME NEW last \in Nat, NEW first \in Nat, NEW g \in SUBSET Nat, NEW q \in SUBSET Nat, NEW a \in SUBSET Nat,
           NEW now \in Nat, NEW h, NEW r, NEW b, NEW then \in Nat,
           Chain(last, g, q, a, now),
           h \subseteq g, r \subseteq q, b \subseteq a \cup {then}, now <= then,
           first = last \/ (first \in g /\ \A x \in h : first <= x)
    PROVE  Chain(first, h, r, b, then)
<1>1. /\ \A x \in g \cup q \cup a \cup {now} : last <= x
      /\ \A x \in g, y \in q \cup a \cup {now} : x <= y
      /\ \A x \in q, y \in a \cup {now} : x <= y
      /\ \A x \in a : x <= now
  BY DEF Chain, UpTo
<1>2. \A x \in g \cup q \cup a \cup {last} : x <= then
  <2>1. \A x \in g \cup q \cup a \cup {last} : x <= now /\ x \in Nat
    BY <1>1
  <2> QED BY <2>1
<1>3. \A x \in h \cup r \cup b \cup {then} : first <= x
  BY <1>1, <1>2
<1>4. UpTo(h, r \cup b \cup {then})
  BY <1>1, <1>2 DEF UpTo
<1>5. UpTo(r, b \cup {then})
  BY <1>1, <1>2 DEF UpTo
<1>6. UpTo(b, {then})
  BY <1>2 DEF UpTo
<1> QED BY <1>3, <1>4, <1>5, <1>6 DEF Chain

\* A datagram passed on: its call and request are the same, and its answer is, or says
\* nothing.
Copied(e, d) ==
    /\ e.of = d.of /\ e.req = d.req
    /\ e.ans = d.ans \/ (e.ans # None /\ e.ans.load = None)

\* A request sent now.
SentNow(c, e) ==
    /\ e.ans = None /\ e.of = made'[c]
    /\ e.req.op = "send" => e.req.load = MessageOf(c, made'[c], e.req.tun)

\* The queue of c holds what it held, in the same order, some of it left out or doubled,
\* and one more request at most; f says where each datagram was.
Passed(c, k, f) ==
    /\ f \in [1..k -> DOMAIN wire[c]]
    /\ \A i, j \in 1..k : i < j => f[i] <= f[j]
    /\ \A i \in 1..k : Copied(wire'[c][i], wire[c][f[i]])
    /\ \/ DOMAIN wire'[c] = 1..k
       \/ DOMAIN wire'[c] = 1..(k + 1) /\ SentNow(c, wire'[c][k + 1])

\* Nothing but the conversation of c has changed.
OnlyTalk(c) ==
    /\ \A d \in Client : d # c => wire'[d] = wire[d] /\ made'[d] = made[d] /\ call'[d] = call[d]
    /\ made[c] <= made'[c]
    /\ Waiting(c)' /\ call'[c].op = "send" =>
         call'[c].load = MessageOf(c, made'[c], call'[c].tun)
    /\ tunnels' = tunnels
    /\ \A e, d \in Client, t \in Tun :
         \/ latest'[e][d][t] = latest[e][d][t]
         \/ /\ e = c /\ latest'[c][d][t] \in Given(c, d, t)
            /\ \A x \in Given(c, d, t)' : latest'[c][d][t] <= x

\* Such a step keeps the order.
LEMMA PassedInOrder ==
    ASSUME IInv, IInv', OwnTypes, OwnTypes', Ordered, NEW c \in Client,
           NEW k \in Nat, NEW f, Passed(c, k, f), OnlyTalk(c)
    PROVE  Ordered'
<1>1. /\ made[c] \in Nat /\ made'[c] \in Nat /\ made[c] <= made'[c]
      /\ \A i \in DOMAIN wire[c] : wire[c][i].of \in Nat /\ wire[c][i].of <= made[c]
      /\ \A d \in Client : made[d] \in Nat /\ made'[d] \in Nat
  <2>1. \A d \in Client : made[d] \in Nat /\ made'[d] \in Nat
    BY CallsAssumption DEF IInv, Shape
  <2> QED BY <2>1, QueueOfDatagrams DEF IInv, InLine, OnlyTalk
<1>2. DOMAIN wire'[c] \subseteq 1..(k + 1)
  BY DEF Passed
<1>3. ASSUME NEW i \in DOMAIN wire'[c], i > k
      PROVE  i = k + 1 /\ SentNow(c, wire'[c][i])
  BY <1>3 DEF Passed
<1>4. ASSUME NEW i \in DOMAIN wire'[c], ~(i > k)
      PROVE  i \in 1..k /\ f[i] \in DOMAIN wire[c] /\ Copied(wire'[c][i], wire[c][f[i]])
  <2>1. i \in 1..k
    BY <1>2, <1>4
  <2> QED BY <2>1 DEF Passed
<1>5. ASSUME NEW d \in Client, NEW t \in Tun, NEW i \in DOMAIN wire'[c], Holds(c, i, d, t)'
      PROVE  /\ i \in 1..k /\ f[i] \in DOMAIN wire[c] /\ Holds(c, f[i], d, t)
             /\ wire'[c][i].ans = wire[c][f[i]].ans
  <2>1. ~(i > k)
    BY <1>3, <1>5 DEF SentNow, Holds
  <2> QED BY <1>4, <1>5, <2>1 DEF Copied, Holds
<1>6. ASSUME NEW t \in Tun, NEW i \in DOMAIN wire'[c], Wants(c, i, t)'
      PROVE  \/ wire'[c][i].of = made'[c]
             \/ /\ f[i] \in DOMAIN wire[c] /\ Wants(c, f[i], t)
                /\ wire'[c][i].of = wire[c][f[i]].of
  <2>1. CASE i > k
    BY <1>3, <2>1 DEF SentNow
  <2>2. CASE ~(i > k)
    BY <1>4, <1>6, <2>2 DEF Copied, Wants
  <2> QED BY <2>1, <2>2
<1>7. Signed(c)'
  <2>1. ASSUME NEW i \in DOMAIN wire'[c], wire'[c][i].req.op = "send"
        PROVE  wire'[c][i].req.load = MessageOf(c, wire'[c][i].of, wire'[c][i].req.tun)
    <3>1. CASE i > k
      BY <1>3, <2>1, <3>1 DEF SentNow
    <3>2. CASE ~(i > k)
      BY <1>4, <2>1, <3>2 DEF Copied, Ordered, OnTheWire, Signed
    <3> QED BY <3>1, <3>2
  <2> QED BY <2>1 DEF Signed, OnlyTalk, MessageOf
<1>8. CallsInOrder(c)'
  <2> SUFFICES ASSUME NEW i \in DOMAIN wire'[c], NEW j \in DOMAIN wire'[c], i < j
               PROVE  wire'[c][i].of <= wire'[c][j].of
    BY DEF CallsInOrder
  <2>1. i \in 1..k /\ f[i] \in DOMAIN wire[c] /\ wire'[c][i].of = wire[c][f[i]].of
    <3>1. ~(i > k)
      BY <1>2
    <3> QED BY <1>4, <3>1 DEF Copied
  <2>2. CASE j > k
    BY <1>1, <1>3, <2>1, <2>2 DEF SentNow
  <2>3. CASE ~(j > k)
    <3>1. j \in 1..k /\ f[j] \in DOMAIN wire[c] /\ wire'[c][j].of = wire[c][f[j]].of
      BY <1>4, <2>3 DEF Copied
    <3>2. f[i] <= f[j]
      BY <2>1, <3>1 DEF Passed
    <3>3. CASE f[i] < f[j]
      BY <2>1, <3>1, <3>3 DEF Ordered, OnTheWire, CallsInOrder
    <3>4. CASE f[i] = f[j]
      BY <1>1, <2>1, <3>1, <3>4
    <3> QED BY <2>1, <3>1, <3>2, <3>3, <3>4, QueueOfDatagrams DEF IInv
  <2> QED BY <2>2, <2>3
<1>9. AnswersFirst(c)'
  <2> SUFFICES ASSUME NEW i \in DOMAIN wire'[c], NEW j \in DOMAIN wire'[c], j < i,
                      wire'[c][i].ans # None, wire'[c][i].ans.load # None
               PROVE  wire'[c][j].ans # None
    BY DEF AnswersFirst
  <2>1. ~(i > k)
    BY <1>3 DEF SentNow
  <2>2. /\ i \in 1..k /\ f[i] \in DOMAIN wire[c] /\ wire'[c][i].ans = wire[c][f[i]].ans
    BY <1>4, <2>1 DEF Copied
  <2>3. /\ j \in 1..k /\ f[j] \in DOMAIN wire[c] /\ Copied(wire'[c][j], wire[c][f[j]])
    <3>1. ~(j > k)
      BY <1>2, <2>2
    <3> QED BY <1>4, <3>1
  <2>4. f[j] <= f[i]
    BY <2>2, <2>3 DEF Passed
  <2>5. wire[c][f[j]].ans # None
    <3>1. CASE f[j] < f[i]
      BY <2>2, <2>3, <3>1 DEF Ordered, OnTheWire, AnswersFirst
    <3>2. CASE f[j] = f[i]
      BY <2>2, <3>2
    <3> QED BY <2>2, <2>3, <2>4, <3>1, <3>2, QueueOfDatagrams DEF IInv
  <2> QED BY <2>3, <2>5 DEF Copied
<1>10. GivenInOrder(c)'
  <2> SUFFICES ASSUME NEW i \in DOMAIN wire'[c], NEW j \in DOMAIN wire'[c],
                      NEW d \in Client, NEW t \in Tun,
                      i < j, Holds(c, i, d, t)', Holds(c, j, d, t)'
               PROVE  wire'[c][i].ans.load.n <= wire'[c][j].ans.load.n
    BY DEF GivenInOrder
  <2>1. /\ i \in 1..k /\ f[i] \in DOMAIN wire[c] /\ Holds(c, f[i], d, t)
        /\ wire'[c][i].ans = wire[c][f[i]].ans
    BY <1>5
  <2>2. /\ j \in 1..k /\ f[j] \in DOMAIN wire[c] /\ Holds(c, f[j], d, t)
        /\ wire'[c][j].ans = wire[c][f[j]].ans
    BY <1>5
  <2>3. f[i] <= f[j]
    BY <2>1, <2>2 DEF Passed
  <2>4. CASE f[i] < f[j]
    BY <2>1, <2>2, <2>4 DEF Ordered, OnTheWire, GivenInOrder
  <2>5. CASE f[i] = f[j]
    <3>1. wire[c][f[i]].ans.load.n \in Nat
      <4>1. wire[c][f[i]].ans.load \in Payload
        BY <2>1, AnswerLoad DEF Holds, IInv
      <4> QED BY <4>1, CallsAssumption DEF Payload
    <3> QED BY <2>1, <2>2, <2>5, <3>1
  <2> QED BY <2>1, <2>2, <2>3, <2>4, <2>5, QueueOfDatagrams DEF IInv
<1>11. ASSUME NEW d \in Client
       PROVE  OnTheWire(d)'
  <2>1. CASE d = c
    BY <1>7, <1>8, <1>9, <1>10, <2>1 DEF OnTheWire
  <2>2. CASE d # c
    <3>1. wire'[d] = wire[d] /\ made'[d] = made[d] /\ call'[d] = call[d] /\ OnTheWire(d)
      BY <2>2 DEF OnlyTalk, Ordered
    <3> QED BY <3>1 DEF OnTheWire, Signed, CallsInOrder, AnswersFirst, GivenInOrder, Holds, Waiting
  <2> QED BY <2>1, <2>2
<1>12. ASSUME NEW t \in Tun, NEW s \in Side
       PROVE  InTheQueue(t, s)'
  BY DEF OnlyTalk, Ordered, InTheQueue, Sorted, QueuedInOrder, QueueOf, Outbox, Exists
<1>13. ASSUME NEW e \in Client, NEW d \in Client, NEW t \in Tun
       PROVE  Stream(e, d, t)'
  <2>1. Queued(d, t)' = Queued(d, t)
    BY DEF OnlyTalk, Queued, QueueOf, Exists
  <2>2. Given(e, d, t)' \subseteq Given(e, d, t)
    <3>1. CASE e = c
      BY <1>5, <3>1 DEF Given
    <3>2. CASE e # c
      <4>1. wire'[e] = wire[e]
        BY <3>2 DEF OnlyTalk
      <4> QED BY <4>1 DEF Given, Holds
    <3> QED BY <3>1, <3>2
  <2>3. Asked(d, t)' \subseteq Asked(d, t) \cup {made'[d]}
    <3>1. CASE d = c
      BY <1>6, <3>1 DEF Asked
    <3>2. CASE d # c
      BY <3>2 DEF Asked, Wants, OnlyTalk
    <3> QED BY <3>1, <3>2
  <2>4. made[d] <= made'[d]
    BY <1>1 DEF OnlyTalk
  <2>5. Chain(latest[e][d][t], Given(e, d, t), Queued(d, t), Asked(d, t), made[d])
    BY DEF Ordered, Stream
  <2>6. Chain(latest'[e][d][t], Given(e, d, t)', Queued(d, t)', Asked(d, t)', made'[d])
    <3> DEFINE g == Given(e, d, t)
               q == Queued(d, t)
               a == Asked(d, t)
    <3>1. /\ latest[e][d][t] \in Nat /\ latest'[e][d][t] \in Nat /\ made[d] \in Nat /\ made'[d] \in Nat
          /\ g \in SUBSET Nat /\ q \in SUBSET Nat /\ a \in SUBSET Nat
      <4>1. latest'[e][d][t] \in 0..MaxCalls
        BY DEF OwnTypes
      <4>2. latest'[e][d][t] \in Nat
        BY <4>1, CallsAssumption
      <4> QED BY <1>1, <4>2, StreamNumbers
    <3>4. \/ latest'[e][d][t] = latest[e][d][t]
          \/ latest'[e][d][t] \in g /\ \A x \in Given(e, d, t)' : latest'[e][d][t] <= x
      BY DEF OnlyTalk
    <3>2. Given(e, d, t)' \subseteq g /\ Queued(d, t)' \subseteq q /\ Asked(d, t)' \subseteq a \cup {made'[d]}
      BY <2>1, <2>2, <2>3
    <3>3. Chain(latest[e][d][t], g, q, a, made[d])
      BY <2>5
    <3> HIDE DEF g, q, a
    <3> QED BY <2>4, <3>1, <3>2, <3>3, <3>4, ChainFewer
  <2> QED BY <2>6 DEF Stream
<1> QED BY <1>11, <1>12, <1>13 DEF Ordered

\* Nothing changes places when nothing moves.
LEMMA Unmoved ==
    ASSUME NEW n \in Nat
    PROVE  /\ [i \in 1..n |-> i] \in [1..n -> 1..n]
           /\ \A i, j \in 1..n : i < j => [m \in 1..n |-> m][i] <= [m \in 1..n |-> m][j]
OBVIOUS

\* A new call.
LEMMA CallInOrder ==
    ASSUME IInv, IInv', OwnTypes, OwnTypes', Ordered, NEW c \in Client, Call(c)
    PROVE  Ordered'
<1>1. PICK req \in Request : Asks(c, req)
  BY CallAsks DEF IInv
<1> DEFINE k == Len(wire[c])
           f == [i \in 1..k |-> i]
<1>2. k \in Nat /\ DOMAIN wire[c] = 1..k /\ wire[c] \in Seq(Datagram)
  BY QueueOfDatagrams DEF IInv
<1>3. made'[c] = made[c] + 1 /\ made[c] \in Nat
  BY <1>1, Counts DEF IInv, Shape, Asks
<1>4. Fresh(c, req) \in Datagram
  BY <1>3, <1>1, Counts DEF IInv, Fresh, Datagram, Asks
<1>5. /\ DOMAIN wire'[c] = 1..(k + 1) /\ wire'[c][k + 1] = Fresh(c, req)
      /\ \A i \in 1..k : wire'[c][i] = wire[c][i]
  <2>1. wire'[c] = Append(wire[c], Fresh(c, req))
    BY <1>1 DEF IInv, Shape, Asks
  <2> HIDE DEF k
  <2>2. k = Len(wire[c])
    BY DEF k
  <2> QED BY <1>2, <1>4, <2>1, <2>2, AppendProperties, LenProperties
<1>6. SentNow(c, wire'[c][k + 1])
  BY <1>1, <1>3, <1>5 DEF SentNow, Fresh, Asks, MessageOf
<1>7. Passed(c, k, f)
  BY <1>2, <1>5, <1>6, Unmoved DEF Passed, Copied
<1>8. OnlyTalk(c)
  BY <1>1, <1>3 DEF OnlyTalk, Asks, MessageOf, IInv, Shape, tunnelVars, dataVars
<1> HIDE DEF k, f
<1> QED BY <1>2, <1>7, <1>8, PassedInOrder

\* A call without an answer: what is left of the queue is there, and the request
\* once more, or not.
LEMMA NoAnswerInOrder ==
    ASSUME IInv, IInv', OwnTypes, OwnTypes', Ordered, NEW c \in Client,
           NEW rest \in Seq(Datagram), NoAnswer(c, rest),
           NEW f \in [1..Len(rest) -> DOMAIN wire[c]],
           \A i, j \in 1..Len(rest) : i < j => f[i] <= f[j],
           \A i \in 1..Len(rest) : rest[i] = wire[c][f[i]]
    PROVE  Ordered'
<1> DEFINE k == Len(rest)
           again == [of |-> made[c], req |-> call[c], ans |-> None]
<1>1. k \in Nat /\ DOMAIN rest = 1..k
  BY LenProperties
<1>2. Waiting(c) /\ made' = made /\ tunnels' = tunnels /\ latest' = latest /\ made[c] \in Nat
  BY Counts DEF NoAnswer, tunnelVars, IInv
<1>3. CASE Resend(c, rest)
  <2>1. again \in Datagram
    BY <1>2, Counts DEF IInv, Shape, Datagram, Waiting
  <2>2. wire'[c] = Append(rest, again) /\ call' = call
    BY <1>3 DEF Resend, IInv, Shape
  <2>3. /\ DOMAIN wire'[c] = 1..(k + 1) /\ wire'[c][k + 1] = again
        /\ \A i \in 1..k : wire'[c][i] = rest[i]
    <3> HIDE DEF k, again
    <3>1. k = Len(rest)
      BY DEF k
    <3> QED BY <2>1, <2>2, <3>1, AppendProperties, LenProperties
  <2>4. call[c].op = "send" => call[c].load = MessageOf(c, made[c], call[c].tun)
    BY <1>2 DEF Ordered, OnTheWire, Signed
  <2>a. SentNow(c, wire'[c][k + 1])
    <3>1. again.ans = None /\ again.of = made'[c] /\ again.req = call[c]
      BY <1>2
    <3> HIDE DEF again, k
    <3> QED BY <1>2, <2>3, <2>4, <3>1 DEF SentNow
  <2>5. Passed(c, k, f)
    <3> HIDE DEF again
    <3> QED BY <1>1, <2>3, <2>a DEF Passed, Copied
  <2>6. OnlyTalk(c)
    BY <1>2, <1>3, <2>2, <2>4 DEF OnlyTalk, Resend, IInv, Shape
  <2> HIDE DEF k
  <2> QED BY <1>1, <2>5, <2>6, PassedInOrder
<1>4. CASE Fail(c, rest)
  <2>1. wire'[c] = rest /\ ~Waiting(c)'
    BY <1>4 DEF Fail, IInv, Shape, Waiting
  <2>2. Passed(c, k, f)
    BY <1>1, <2>1 DEF Passed, Copied
  <2>3. OnlyTalk(c)
    BY <1>2, <1>4, <2>1 DEF OnlyTalk, Fail, IInv, Shape
  <2> HIDE DEF k
  <2> QED BY <1>1, <2>2, <2>3, PassedInOrder
<1> QED BY <1>3, <1>4 DEF NoAnswer

\* The queue without its oldest is the old one, each place one further on.
LEMMA TailMoves ==
    ASSUME Shape, NEW c \in Client, wire[c] # <<>>
    PROVE  LET k == Len(wire[c]) - 1
               f == [i \in 1..k |-> i + 1] IN
           /\ k \in Nat /\ f \in [1..k -> DOMAIN wire[c]]
           /\ \A i, j \in 1..k : i < j => f[i] <= f[j]
           /\ Tail(wire[c]) \in Seq(Datagram) /\ Len(Tail(wire[c])) = k /\ DOMAIN Tail(wire[c]) = 1..k
           /\ \A i \in 1..k : Tail(wire[c])[i] = wire[c][f[i]]
<1> DEFINE k == Len(wire[c]) - 1
           f == [i \in 1..k |-> i + 1]
<1>1. wire[c] \in Seq(Datagram) /\ DOMAIN wire[c] = 1..Len(wire[c]) /\ Len(wire[c]) \in Nat
      /\ Len(wire[c]) # 0
  BY QueueOfDatagrams, EmptySeq
<1>2. k \in Nat /\ f \in [1..k -> DOMAIN wire[c]] /\ \A i, j \in 1..k : i < j => f[i] <= f[j]
  BY <1>1
<1>3. /\ Tail(wire[c]) \in Seq(Datagram) /\ Len(Tail(wire[c])) = k
      /\ \A i \in 1..Len(Tail(wire[c])) : Tail(wire[c])[i] = wire[c][i + 1]
  BY <1>1, HeadTailProperties
<1>4. DOMAIN Tail(wire[c]) = 1..k
  BY <1>3, LenProperties
<1> QED BY <1>2, <1>3, <1>4

\* A call that hears nothing, or an answer of no bytes.
LEMMA SilenceInOrder ==
    ASSUME IInv, IInv', OwnTypes, OwnTypes', Ordered, NEW c \in Client,
           TimeOut(c) \/ TakeNothing(c)
    PROVE  Ordered'
<1>1. CASE TimeOut(c)
  <2> DEFINE k == Len(wire[c])
             f == [i \in 1..k |-> i]
  <2>1. wire[c] \in Seq(Datagram) /\ k \in Nat /\ DOMAIN wire[c] = 1..k
    BY QueueOfDatagrams DEF IInv
  <2>2. /\ f \in [1..k -> DOMAIN wire[c]] /\ \A i, j \in 1..k : i < j => f[i] <= f[j]
        /\ \A i \in 1..k : wire[c][i] = wire[c][f[i]]
    BY <2>1
  <2>3. NoAnswer(c, wire[c])
    BY <1>1 DEF TimeOut
  <2> HIDE DEF f
  <2> QED BY <2>1, <2>2, <2>3, NoAnswerInOrder
<1>2. CASE TakeNothing(c)
  <2> DEFINE k == Len(wire[c]) - 1
             f == [i \in 1..k |-> i + 1]
  <2>1. NoAnswer(c, Tail(wire[c])) /\ wire[c] # <<>>
    BY <1>2 DEF TakeNothing, Unread, Readable
  <2>2. /\ f \in [1..k -> DOMAIN wire[c]]
        /\ \A i, j \in 1..k : i < j => f[i] <= f[j]
        /\ Tail(wire[c]) \in Seq(Datagram) /\ Len(Tail(wire[c])) = k
        /\ \A i \in 1..k : Tail(wire[c])[i] = wire[c][f[i]]
    BY <2>1, TailMoves DEF IInv
  <2> HIDE DEF f, k
  <2> QED BY <2>1, <2>2, NoAnswerInOrder
<1> QED BY <1>1, <1>2

\* A message read is the oldest of those on their way.
LEMMA TakeReads ==
    ASSUME IInv, OwnTypes, Ordered, NEW c \in Client, Take(c),
           NEW e \in Client, NEW d \in Client, NEW t \in Tun
    PROVE  \/ latest'[e][d][t] = latest[e][d][t]
           \/ /\ e = c /\ latest'[c][d][t] \in Given(c, d, t)
              /\ \A x \in Given(c, d, t)' : latest'[c][d][t] <= x
<1> DEFINE k == Len(wire[c]) - 1
           f == [i \in 1..k |-> i + 1]
           a == Head(wire[c]).ans
<1>1. /\ wire[c] # <<>> /\ wire'[c] = Tail(wire[c])
      /\ 1 \in DOMAIN wire[c] /\ a = wire[c][1].ans /\ a # None
  BY Oldest1 DEF Take, Readable, Unread, Waiting, IInv, Shape, tunnelVars
<1>2. /\ k \in Nat /\ f \in [1..k -> DOMAIN wire[c]]
      /\ \A i, j \in 1..k : i < j => f[i] <= f[j]
      /\ DOMAIN wire'[c] = 1..k
      /\ \A i \in 1..k : wire'[c][i] = wire[c][f[i]]
  BY <1>1, TailMoves DEF IInv
<1> HIDE DEF a
<1> QED
  <2>1. CASE latest' = latest
    BY <2>1
  <2>2. CASE a.load # None /\ latest' = [latest EXCEPT ![c][a.load.from][a.load.tun] = a.load.n]
    <3>1. a.load \in Payload
      BY <1>1, <2>2, AnswerLoad DEF IInv
    <3>2. a.load.from \in Client /\ a.load.tun \in Tun /\ a.load.n \in Nat
      BY <3>1, CallsAssumption DEF Payload
    <3>3. CASE ~(e = c /\ d = a.load.from /\ t = a.load.tun)
      <4>1. latest' = [latest EXCEPT ![c] =
                        [latest[c] EXCEPT ![a.load.from] = [latest[c][a.load.from] EXCEPT ![a.load.tun] = a.load.n]]]
        BY <2>2, <3>2 DEF OwnTypes
      <4>2. CASE e # c
        BY <4>1, <4>2 DEF OwnTypes
      <4>3. CASE e = c /\ d # a.load.from
        BY <3>2, <4>1, <4>3 DEF OwnTypes
      <4>4. CASE e = c /\ d = a.load.from /\ t # a.load.tun
        BY <3>2, <4>1, <4>4 DEF OwnTypes
      <4> QED BY <3>3, <4>2, <4>3, <4>4
    <3>4. CASE e = c /\ d = a.load.from /\ t = a.load.tun
      <4>1. latest'[c][d][t] = a.load.n
        BY <2>2, <3>2, <3>4 DEF OwnTypes
      <4>2. Holds(c, 1, d, t)
        BY <1>1, <2>2, <3>4 DEF Holds
      <4>3. a.load.n \in Given(c, d, t)
        BY <1>1, <3>2, <4>2 DEF Given
      <4>4. ASSUME NEW x \in Given(c, d, t)'
            PROVE  a.load.n <= x
        <5>1. PICK i \in 1..k : Holds(c, i, d, t)' /\ wire'[c][i].ans.load.n = x
          BY <1>2 DEF Given
        <5>a. f[i] = i + 1 /\ 1 < f[i]
          BY <1>2
        <5>b. f[i] \in DOMAIN wire[c] /\ wire'[c][i] = wire[c][f[i]]
          <6> HIDE DEF f
          <6> QED BY <1>2
        <5>2. /\ f[i] \in DOMAIN wire[c] /\ 1 < f[i]
              /\ Holds(c, f[i], d, t) /\ wire[c][f[i]].ans.load.n = x
          <6> HIDE DEF f
          <6> QED BY <5>1, <5>a, <5>b DEF Holds
        <5> HIDE DEF f
        <5> QED BY <1>1, <4>2, <5>2 DEF Ordered, OnTheWire, GivenInOrder
      <4> QED BY <3>4, <4>1, <4>3, <4>4
    <3> QED BY <3>3, <3>4
  <2> QED BY <2>1, <2>2 DEF Take, a

\* An answer that ends its call.
LEMMA TakeInOrder ==
    ASSUME IInv, IInv', OwnTypes, OwnTypes', Ordered, NEW c \in Client, Take(c)
    PROVE  Ordered'
<1> DEFINE k == Len(wire[c]) - 1
           f == [i \in 1..k |-> i + 1]
<1>1. /\ wire[c] # <<>> /\ wire'[c] = Tail(wire[c]) /\ ~Waiting(c)'
      /\ made' = made /\ tunnels' = tunnels
      /\ \A d \in Client : d # c => wire'[d] = wire[d] /\ call'[d] = call[d]
  BY DEF Take, Readable, Unread, Waiting, IInv, Shape, tunnelVars
<1>2. /\ k \in Nat /\ f \in [1..k -> DOMAIN wire[c]]
      /\ \A i, j \in 1..k : i < j => f[i] <= f[j]
      /\ DOMAIN wire'[c] = 1..k
      /\ \A i \in 1..k : wire'[c][i] = wire[c][f[i]]
  BY <1>1, TailMoves DEF IInv
<1>3. Passed(c, k, f)
  BY <1>2 DEF Passed, Copied
<1>4. OnlyTalk(c)
  BY <1>1, Counts, TakeReads DEF OnlyTalk, IInv
<1> HIDE DEF k, f
<1> QED BY <1>2, <1>3, <1>4, PassedInOrder

\* What the network does in a calm.
LEMMA NetworkInOrder ==
    ASSUME IInv, IInv', OwnTypes, OwnTypes', Ordered, NEW c \in Client, Network(c), Calm'
    PROVE  Ordered'
<1>1. OnlyTalk(c)
  <2>1. /\ UNCHANGED <<call, made, latest>> /\ tunnels' = tunnels
        /\ \A d \in Client : d # c => wire'[d] = wire[d]
    BY ZenonT(60) DEF Network, Repeat, Overtake, Damage, Lose, Fault, tunnelVars, dataVars, IInv, Shape
  <2> QED BY <2>1, Counts DEF OnlyTalk, Ordered, OnTheWire, Signed, Waiting, IInv
<1> DEFINE q == wire[c]
           n == Len(wire[c])
<1>2. q \in Seq(Datagram) /\ n \in Nat /\ n = Len(q) /\ DOMAIN wire[c] = 1..n /\ DOMAIN q = 1..n
      /\ \A i \in 1..n : q[i] \in Datagram /\ q[i] = wire[c][i]
  BY QueueOfDatagrams DEF IInv
<1>3. CASE Repeat(c)
  <2>1. PICK i \in 1..n : wire'[c] = InsertAt(q, i, q[i])
    BY <1>2, <1>3 DEF Repeat, IInv, Shape
  <2> DEFINE f == [j \in 1..(n + 1) |-> IF j <= i THEN j ELSE j - 1]
  <2> HIDE DEF q, n
  <2>2. Doubled(wire'[c], q, i)
    BY <1>2, <2>1, Inserted
  <2>3. /\ DOMAIN wire'[c] = 1..(n + 1)
        /\ \A j \in 1..(n + 1) : wire'[c][j] = IF j < i THEN q[j] ELSE IF j = i THEN q[i] ELSE q[j - 1]
    BY <1>2, <2>2, LenProperties DEF Doubled
  <2>4. /\ f \in [1..(n + 1) -> 1..n] /\ n + 1 \in Nat
        /\ \A j, l \in 1..(n + 1) : j < l => f[j] <= f[l]
    BY <1>2
  <2>5. ASSUME NEW j \in 1..(n + 1)
        PROVE  f[j] \in 1..n /\ wire'[c][j] = q[f[j]]
    BY <1>2, <2>3
  <2>6. \A j \in 1..(n + 1) : Copied(wire'[c][j], wire[c][f[j]])
    <3> HIDE DEF f
    <3> QED BY <1>2, <2>5 DEF Copied
  <2>7. Passed(c, n + 1, f)
    BY <1>2, <2>3, <2>4, <2>6 DEF Passed
  <2> HIDE DEF f
  <2> QED BY <1>1, <1>2, <2>4, <2>7, PassedInOrder
<1>4. CASE Overtake(c)
  <2>1. swaps'[c] = swaps[c] + 1 /\ swaps[c] \in Nat
    BY <1>4 DEF Overtake, IInv, Shape
  <2> QED BY <2>1 DEF Calm
<1>5. CASE Damage(c)
  <2> DEFINE garbage == [text |-> "garbage", load |-> None]
             f == [j \in 1..n |-> j]
  <2>1. PICK i \in 1..n : wire' = [wire EXCEPT ![c][i].ans = garbage]
    BY <1>2, <1>5 DEF Damage
  <2>2. garbage \in Answer /\ garbage # None /\ garbage.load = None
    <3>1. garbage \in Answer
      BY DEF Answer, Word
    <3> QED BY <3>1, RequestAssumption
  <2> HIDE DEF garbage
  <2>3. wire'[c] = [q EXCEPT ![i] = [q[i] EXCEPT !.ans = garbage]]
    BY <1>2, <2>1 DEF IInv, Shape
  <2>4. [q[i] EXCEPT !.ans = garbage] \in Datagram
    BY <1>2, <2>2 DEF Datagram
  <2>5. /\ DOMAIN wire'[c] = 1..n
        /\ \A j \in 1..n : wire'[c][j] = IF j = i THEN [q[i] EXCEPT !.ans = garbage] ELSE q[j]
    BY <1>2, <2>3, <2>4, ExceptSeq, LenProperties
  <2>6. \A j \in 1..n : Copied(wire'[c][j], q[j])
    BY <1>2, <2>2, <2>5 DEF Copied, Datagram
  <2>7. Passed(c, n, f)
    BY <1>2, <2>5, <2>6, Unmoved DEF Passed
  <2> HIDE DEF f, n
  <2> QED BY <1>1, <1>2, <2>7, PassedInOrder
<1>6. CASE Lose(c)
  <2>1. PICK i \in 1..n : wire'[c] = RemoveAt(q, i)
    BY <1>2, <1>6 DEF Lose, IInv, Shape
  <2> DEFINE f == [j \in 1..(n - 1) |-> IF j < i THEN j ELSE j + 1]
  <2> HIDE DEF q, n
  <2>2. /\ wire'[c] \in Seq(Datagram) /\ Len(wire'[c]) = n - 1
        /\ \A j \in 1..(n - 1) : wire'[c][j] = IF j < i THEN q[j] ELSE q[j + 1]
    <3>1. /\ RemoveAt(q, i) \in Seq(Datagram) /\ Len(RemoveAt(q, i)) = Len(q) - 1
          /\ \A j \in 1..(Len(q) - 1) : RemoveAt(q, i)[j] = IF j < i THEN q[j] ELSE q[j + 1]
      BY <1>2, Removed
    <3> QED BY <1>2, <2>1, <3>1
  <2>3. DOMAIN wire'[c] = 1..(n - 1)
    BY <2>2, LenProperties
  <2>4. /\ f \in [1..(n - 1) -> 1..n] /\ n - 1 \in Nat
        /\ \A j, l \in 1..(n - 1) : j < l => f[j] <= f[l]
    BY <1>2
  <2>5. ASSUME NEW j \in 1..(n - 1)
        PROVE  f[j] \in 1..n /\ wire'[c][j] = q[f[j]]
    BY <1>2, <2>2
  <2>6. \A j \in 1..(n - 1) : Copied(wire'[c][j], wire[c][f[j]])
    <3> HIDE DEF f
    <3> QED BY <1>2, <2>5 DEF Copied
  <2>7. Passed(c, n - 1, f)
    BY <1>2, <2>3, <2>4, <2>6 DEF Passed
  <2> HIDE DEF f
  <2> QED BY <1>1, <2>4, <2>7, PassedInOrder
<1> QED BY <1>3, <1>4, <1>5, <1>6 DEF Network

\* A queue is a queue of payloads.
LEMMA QueueType ==
    ASSUME TunnelsTypeOK, NEW t \in Tun, NEW s \in Side
    PROVE  /\ QueueOf(t, s) \in Seq(Payload)
           /\ Len(QueueOf(t, s)) \in Nat /\ DOMAIN QueueOf(t, s) = 1..Len(QueueOf(t, s))
           /\ \A i \in DOMAIN QueueOf(t, s) :
                QueueOf(t, s)[i] \in Payload /\ QueueOf(t, s)[i].from \in Client /\ QueueOf(t, s)[i].n \in Nat
<1>1. QueueOf(t, s) \in Seq(Payload)
  BY EmptySeq, RequestAssumption DEF TunnelsTypeOK, QueueOf, Exists, Tunnel
<1>2. Len(QueueOf(t, s)) \in Nat /\ DOMAIN QueueOf(t, s) = 1..Len(QueueOf(t, s))
  BY <1>1, LenProperties
<1>3. \A i \in DOMAIN QueueOf(t, s) : QueueOf(t, s)[i] \in Payload
  BY <1>1, <1>2, ElementOfSeq
<1> QED BY <1>1, <1>2, <1>3, CallsAssumption DEF Payload

\* What a handler does to the queues: at most it empties some.
Quiet == \A u \in Tun :
    \/ \A s \in Side : QueueOf(u, s)' = <<>>
    \/ tunnels'[u].author = tunnels[u].author /\ \A s \in Side : QueueOf(u, s)' = QueueOf(u, s)

\* It makes the queue s of t another.
Requeued(t, s, q) == \A u \in Tun :
    /\ tunnels'[u].author = tunnels[u].author
    /\ \A r \in Side : QueueOf(u, r)' = IF u = t /\ r = s THEN q ELSE QueueOf(u, r)

\* Assigning one queue of one tunnel does just that.
LEMMA Requeue ==
    ASSUME TunnelsTypeOK, NEW t \in Tun, NEW s \in Side, NEW q \in Seq(Message), Exists(t),
           tunnels' = [tunnels EXCEPT ![t].queue[s] = q]
    PROVE  Requeued(t, s, q)
<1>1. tunnels[t] \in Tunnel
  BY DEF TunnelsTypeOK, Exists
<1>2. tunnels'[t] = [tunnels[t] EXCEPT !.queue[s] = q]
  BY DEF TunnelsTypeOK
<1>3. /\ tunnels'[t].author = tunnels[t].author
      /\ tunnels'[t].queue[s] = q
      /\ \A r \in Side : r # s => tunnels'[t].queue[r] = tunnels[t].queue[r]
  BY <1>1, <1>2 DEF Tunnel
<1>4. tunnels'[t] # None
  BY <1>1, <1>2, QueueChange, RequestAssumption
<1>5. \A u \in Tun : u # t => tunnels'[u] = tunnels[u]
  BY DEF TunnelsTypeOK
<1> QED BY <1>3, <1>4, <1>5 DEF Requeued, QueueOf, Exists

\* The handlers that are not handed and do not hand out a message.
LEMMA QuietHandlers ==
    ASSUME TunnelsTypeOK, NEW c \in Client, NEW t \in Tun, NEW ans,
           \/ OpenTunnel(c, t, ans) \/ CloseTunnel(c, t, ans)
           \/ ConnTunnel(c, t, ans) \/ CheckExist(c, t, ans) \/ UNCHANGED tunnels
    PROVE  Quiet
<1>1. CASE tunnels' = tunnels
  BY <1>1 DEF Quiet, QueueOf, Exists
<1>2. CASE tunnels' = [tunnels EXCEPT ![t] = NewTunnel(c)]
  BY <1>2, TunnelsAssumption DEF Quiet, QueueOf, Exists, NewTunnel, TunnelsTypeOK
<1>3. CASE tunnels' = [tunnels EXCEPT ![t] = None]
  BY <1>3 DEF Quiet, QueueOf, Exists, TunnelsTypeOK
<1>4. CASE Exists(t) /\ tunnels' = [tunnels EXCEPT ![t].connected = TRUE, ![t].peer = c]
  <2>1. tunnels[t] \in Tunnel
    BY <1>4 DEF TunnelsTypeOK, Exists
  <2>2. tunnels'[t] = [tunnels[t] EXCEPT !.connected = TRUE, !.peer = c]
    BY <1>4 DEF TunnelsTypeOK
  <2>3. tunnels'[t].author = tunnels[t].author /\ tunnels'[t].queue = tunnels[t].queue
    BY <2>1, <2>2 DEF Tunnel
  <2>4. \A u \in Tun : u # t => tunnels'[u] = tunnels[u]
    BY <1>4 DEF TunnelsTypeOK
  <2>5. tunnels'[t] # None
    BY <2>1, <2>2, RequestAssumption DEF Tunnel, AnyUid
  <2>6. ASSUME NEW u \in Tun
        PROVE  tunnels'[u].author = tunnels[u].author /\ \A s \in Side : QueueOf(u, s)' = QueueOf(u, s)
    <3>1. CASE u = t
      <4>1. Exists(t) /\ Exists(t)'
        BY <1>4, <2>5 DEF Exists
      <4>2. \A s \in Side : QueueOf(t, s)' = tunnels'[t].queue[s] /\ QueueOf(t, s) = tunnels[t].queue[s]
        BY <4>1 DEF QueueOf
      <4> QED BY <2>3, <3>1, <4>2
    <3>2. CASE u # t
      BY <2>4, <3>2 DEF QueueOf, Exists
    <3> QED BY <3>1, <3>2
  <2> QED BY <2>6 DEF Quiet
<1> QED BY <1>1, <1>2, <1>3, <1>4 DEF OpenTunnel, CloseTunnel, ConnTunnel, CheckExist, Missing, tunnelVars

\* What a request does to the queues, by its answer.
LEMMA HandledQueues ==
    ASSUME TunnelsTypeOK, NEW c \in Client, NEW req \in Request, NEW ans, Handled(c, req, ans)
    PROVE  \/ ans.load = None /\ Quiet
           \/ /\ ans.load = None /\ req.op = "send"
              /\ Requeued(req.tun, Outbox(c, req.tun),
                          Append(QueueOf(req.tun, Outbox(c, req.tun)), req.load))
           \/ /\ ans.load # None
              /\ QueueOf(req.tun, Inbox(c, req.tun)) # <<>>
              /\ ans.load = Head(QueueOf(req.tun, Inbox(c, req.tun)))
              /\ Requeued(req.tun, Inbox(c, req.tun), Tail(QueueOf(req.tun, Inbox(c, req.tun))))
<1> DEFINE t == req.tun
<1>1. t \in Tun /\ (req.op = "send" => req.load \in Message) /\ Outbox(c, t) \in Side /\ Inbox(c, t) \in Side
  BY RequestAssumption DEF Request, Outbox, Inbox, Side
<1>2. CASE req.op \notin {"send", "recv"}
  BY <1>1, <1>2, QuietHandlers DEF Handled
<1>3. CASE req.op = "send"
  <2>1. ans.load = None /\ SendBytes(c, t, req.load, ans.text)
    BY <1>3 DEF Handled
  <2>2. CASE ~Exists(t)
    BY <1>1, <2>1, <2>2, QuietHandlers DEF SendBytes, Missing, tunnelVars
  <2>3. CASE Exists(t)
    <3> DEFINE s == Outbox(c, t)
               q == Append(QueueOf(t, s), req.load)
    <3>1. tunnels[t] \in Tunnel /\ QueueOf(t, s) = tunnels[t].queue[s]
      BY <1>1, <2>3 DEF TunnelsTypeOK, Exists, QueueOf
    <3>2. q \in Seq(Message)
      BY <1>1, <1>3, QueueType, AppendProperties, RequestAssumption
    <3>3. tunnels' = [tunnels EXCEPT ![t].queue[s] = q]
      BY <2>1, <2>3, <3>1 DEF SendBytes, Missing
    <3> HIDE DEF q, s, t
    <3>4. s \in Side
      BY <1>1 DEF s
    <3>5. Requeued(t, s, q)
      BY <1>1, <2>3, <3>2, <3>3, <3>4, Requeue
    <3> QED BY <1>3, <2>1, <3>5 DEF q, s, t
  <2> QED BY <2>2, <2>3
<1>4. CASE req.op = "recv"
  <2>1. PICK text : RecvBytes(c, t, ans.load, text)
    BY <1>4 DEF Handled
  <2> DEFINE s == Inbox(c, t)
             old == QueueOf(t, s)
  <2>2. CASE ~Exists(t)
    BY <1>1, <2>1, <2>2, QuietHandlers DEF RecvBytes, Missing, tunnelVars
  <2>3. CASE Exists(t) /\ old = <<>>
    <3>1. ans.load = None /\ UNCHANGED tunnels
      BY <2>1, <2>3 DEF RecvBytes, Missing, QueueOf
    <3> QED BY <1>1, <3>1, QuietHandlers
  <2>4. CASE Exists(t) /\ old # <<>>
    <3> DEFINE q == Tail(old)
    <3>1. tunnels[t] \in Tunnel /\ old = tunnels[t].queue[s] /\ old \in Seq(Payload)
      BY <1>1, <2>4, QueueType DEF TunnelsTypeOK, Exists, QueueOf
    <3>2. ans.load = Head(old)
      BY <2>1, <2>4, <3>1 DEF RecvBytes, Missing
    <3>3. tunnels' = [tunnels EXCEPT ![t].queue[s] = q]
      BY <2>1, <2>4, <3>1 DEF RecvBytes, Missing
    <3> HIDE DEF old
    <3>4. Head(old) \in Payload /\ q \in Seq(Message)
      BY <2>4, <3>1, HeadTailProperties, RequestAssumption
    <3> HIDE DEF q, s, t
    <3>5. s \in Side
      BY <1>1 DEF s
    <3>6. Requeued(t, s, q)
      BY <1>1, <2>4, <3>3, <3>4, <3>5, Requeue
    <3>7. ans.load # None
      BY <3>2, <3>4, RequestAssumption
    <3> QED BY <2>4, <3>2, <3>6, <3>7 DEF q, s, t, old
  <2> QED BY <2>2, <2>3, <2>4
<1> QED BY <1>2, <1>3, <1>4

\* Messages move on: x out of the queues, y into them.
MoveOn(g, q, a, h, r, b, x, y) ==
    /\ x \subseteq q /\ y \subseteq a
    /\ h \subseteq g \cup x /\ r \subseteq q \cup y /\ b \subseteq a
    /\ UpTo(x, r) /\ UpTo(y, b)

\* A chain stays one when the first of each kind move on.
LEMMA ChainMoves ==
    ASSUME NEW last \in Nat, NEW g \in SUBSET Nat, NEW q \in SUBSET Nat, NEW a \in SUBSET Nat,
           NEW now \in Nat, NEW h, NEW r, NEW b, NEW x, NEW y,
           Chain(last, g, q, a, now), MoveOn(g, q, a, h, r, b, x, y)
    PROVE  Chain(last, h, r, b, now)
<1> USE DEF MoveOn
<1>1. /\ \A m \in g \cup q \cup a \cup {now} : last <= m
      /\ \A m \in g, l \in q \cup a \cup {now} : m <= l
      /\ \A m \in q, l \in a \cup {now} : m <= l
      /\ \A m \in a : m <= now
  BY DEF Chain, UpTo
<1>2. \A m \in h \cup r \cup b \cup {now} : last <= m
  BY <1>1
<1>3. UpTo(h, r \cup b \cup {now})
  BY <1>1 DEF UpTo
<1>4. UpTo(r, b \cup {now})
  BY <1>1 DEF UpTo
<1>5. UpTo(b, {now})
  BY <1>1 DEF UpTo
<1> QED BY <1>2, <1>3, <1>4, <1>5 DEF Chain

\* The call of a message m, if it is one of d in the tunnel t.
CallOf(m, d, t) == IF m # None /\ m.from = d /\ m.tun = t THEN {m.n} ELSE {}

\* The queues empty or are left alone.
LEMMA QuietInOrder ==
    ASSUME Ordered, Quiet
    PROVE  /\ \A t \in Tun, s \in Side : InTheQueue(t, s)'
           /\ \A d \in Client, t \in Tun : Queued(d, t)' \subseteq Queued(d, t)
<1>1. ASSUME NEW t \in Tun, NEW s \in Side
      PROVE  InTheQueue(t, s)'
  <2>1. InTheQueue(t, s)
    BY DEF Ordered
  <2>2. CASE QueueOf(t, s)' = <<>>
    BY <2>2 DEF InTheQueue, Sorted, QueuedInOrder
  <2>3. CASE tunnels'[t].author = tunnels[t].author /\ QueueOf(t, s)' = QueueOf(t, s)
    <3>1. \A x : Outbox(x, t)' = Outbox(x, t)
      BY <2>3 DEF Outbox
    <3> QED BY <2>1, <2>3, <3>1 DEF InTheQueue, Sorted, QueuedInOrder
  <2> QED BY <2>2, <2>3 DEF Quiet
<1>2. ASSUME NEW d \in Client, NEW t \in Tun
      PROVE  Queued(d, t)' \subseteq Queued(d, t)
  <2>1. \A s \in Side : QueueOf(t, s)' = <<>> \/ QueueOf(t, s)' = QueueOf(t, s)
    BY DEF Quiet
  <2> QED BY <2>1 DEF Queued
<1> QED BY <1>1, <1>2

\* A message is appended to the queue its author writes to, later than his others.
LEMMA SentInOrder ==
    ASSUME IInv, Ordered, NEW c \in Client, NEW t \in Tun, NEW m \in Payload,
           m.from = c, m.tun = t, \A x \in Queued(c, t) : x <= m.n,
           Requeued(t, Outbox(c, t), Append(QueueOf(t, Outbox(c, t)), m))
    PROVE  /\ \A u \in Tun, s \in Side : InTheQueue(u, s)'
           /\ \A d \in Client, u \in Tun : Queued(d, u)' \subseteq Queued(d, u) \cup CallOf(m, d, u)
<1>1. PICK s0 \in Side : s0 = Outbox(c, t)
  BY DEF Outbox, Side
<1> DEFINE q == QueueOf(t, s0)
           k == Len(q)
<1>2. /\ q \in Seq(Payload) /\ k \in Nat /\ DOMAIN q = 1..k
      /\ \A i \in 1..k : q[i].n \in Nat
  BY <1>1, QueueType DEF IInv
<1>3. /\ \A u \in Tun, r \in Side : QueueOf(u, r)' = IF u = t /\ r = s0 THEN Append(q, m) ELSE QueueOf(u, r)
      /\ \A u \in Tun : \A x : Outbox(x, u)' = Outbox(x, u)
  BY <1>1 DEF Requeued, Outbox
<1>4. /\ DOMAIN Append(q, m) = 1..(k + 1) /\ Append(q, m)[k + 1] = m
      /\ \A i \in 1..k : Append(q, m)[i] = q[i]
  <2> HIDE DEF q
  <2> QED BY <1>2, AppendProperties, LenProperties
<1>5. InTheQueue(t, s0)
  BY DEF Ordered
<1>6. \A i \in 1..k : q[i].from = c => q[i].n <= m.n
  BY <1>2 DEF Queued
<1>7. InTheQueue(t, s0)'
  <2>1. QueueOf(t, s0)' = Append(q, m)
    BY <1>3
  <2>2. \A i \in 1..k : q[i].tun = t /\ s0 = Outbox(q[i].from, t)
    BY <1>2, <1>5 DEF InTheQueue, Sorted
  <2>3. \A i, j \in 1..k : i < j /\ q[i].from = q[j].from => q[i].n <= q[j].n
    BY <1>2, <1>5 DEF InTheQueue, QueuedInOrder
  <2> DEFINE p == Append(q, m)
  <2> HIDE DEF q, k
  <2>4. \A i \in 1..(k + 1) : p[i].tun = t /\ s0 = Outbox(p[i].from, t)
    BY <1>1, <1>2, <1>4, <2>2
  <2>5. \A i, j \in 1..(k + 1) : i < j /\ p[i].from = p[j].from => p[i].n <= p[j].n
    BY <1>2, <1>4, <1>6, <2>3
  <2> HIDE DEF p
  <2>6. QueueOf(t, s0)' = p /\ DOMAIN p = 1..(k + 1)
    BY <1>4, <2>1 DEF p
  <2> QED BY <1>3, <2>4, <2>5, <2>6 DEF InTheQueue, Sorted, QueuedInOrder
<1>8. ASSUME NEW u \in Tun, NEW s \in Side, u # t \/ s # s0
      PROVE  InTheQueue(u, s)'
  <2>1. InTheQueue(u, s) /\ QueueOf(u, s)' = QueueOf(u, s)
    BY <1>3, <1>8 DEF Ordered
  <2> QED BY <1>3, <2>1 DEF InTheQueue, Sorted, QueuedInOrder
<1>9. ASSUME NEW d \in Client, NEW u \in Tun, NEW x \in Queued(d, u)'
      PROVE  x \in Queued(d, u) \cup CallOf(m, d, u)
  <2>0. PICK s \in Side : \E i \in DOMAIN QueueOf(u, s)' :
          QueueOf(u, s)'[i].from = d /\ QueueOf(u, s)'[i].n = x /\ x \in Nat
    BY DEF Queued
  <2>1. PICK i \in DOMAIN QueueOf(u, s)' :
          QueueOf(u, s)'[i].from = d /\ QueueOf(u, s)'[i].n = x /\ x \in Nat
    BY <2>0
  <2>2. CASE u # t \/ s # s0
    BY <1>3, <2>1, <2>2 DEF Queued
  <2>3. CASE u = t /\ s = s0 /\ i = k + 1
    <3>1. m.from = d /\ m.n = x
      BY <1>3, <1>4, <2>1, <2>3
    <3> QED BY <2>3, <3>1, RequestAssumption DEF CallOf
  <2>4. CASE u = t /\ s = s0 /\ i # k + 1
    <3>1. i \in 1..k /\ q[i].from = d /\ q[i].n = x
      BY <1>2, <1>3, <1>4, <2>1, <2>4
    <3> QED BY <1>2, <2>1, <2>4, <3>1 DEF Queued
  <2> QED BY <2>2, <2>3, <2>4
<1> QED BY <1>7, <1>8, <1>9

\* The first message of a queue is taken out of it, the first of its author's.
LEMMA ReceivedInOrder ==
    ASSUME IInv, Ordered, NEW c \in Client, NEW t \in Tun, NEW m,
           QueueOf(t, Inbox(c, t)) # <<>>, m = Head(QueueOf(t, Inbox(c, t))),
           Requeued(t, Inbox(c, t), Tail(QueueOf(t, Inbox(c, t))))
    PROVE  /\ \A u \in Tun, s \in Side : InTheQueue(u, s)'
           /\ \A d \in Client, u \in Tun :
                /\ Queued(d, u)' \subseteq Queued(d, u)
                /\ CallOf(m, d, u) \subseteq Queued(d, u)
                /\ UpTo(CallOf(m, d, u), Queued(d, u)')
<1>1. PICK s0 \in Side : s0 = Inbox(c, t)
  BY DEF Inbox, Side
<1> DEFINE q == QueueOf(t, s0)
           k == Len(q)
<1>2. /\ q \in Seq(Payload) /\ k \in Nat /\ DOMAIN q = 1..k /\ k # 0
      /\ \A i \in 1..k : q[i].n \in Nat
  BY <1>1, QueueType, EmptySeq DEF IInv
<1>3. /\ \A u \in Tun, r \in Side : QueueOf(u, r)' = IF u = t /\ r = s0 THEN Tail(q) ELSE QueueOf(u, r)
      /\ \A u \in Tun : \A x : Outbox(x, u)' = Outbox(x, u)
  BY <1>1 DEF Requeued, Outbox
<1>4. /\ DOMAIN Tail(q) = 1..(k - 1) /\ m = q[1]
      /\ \A i \in 1..(k - 1) : Tail(q)[i] = q[i + 1]
  <2>1. m = Head(q) /\ q # <<>>
    BY <1>1
  <2> HIDE DEF q
  <2> QED BY <1>2, <2>1, HeadTailProperties, LenProperties
<1>5. /\ \A i \in 1..k : q[i].tun = t /\ s0 = Outbox(q[i].from, t)
      /\ \A i, j \in 1..k : i < j /\ q[i].from = q[j].from => q[i].n <= q[j].n
  BY <1>2 DEF Ordered, InTheQueue, Sorted, QueuedInOrder
<1>6. InTheQueue(t, s0)'
  <2> DEFINE p == Tail(q)
  <2>1. QueueOf(t, s0)' = p /\ DOMAIN p = 1..(k - 1)
    BY <1>3, <1>4
  <2> HIDE DEF q, k
  <2>2. \A i \in 1..(k - 1) : p[i].tun = t /\ s0 = Outbox(p[i].from, t)
    BY <1>2, <1>4, <1>5
  <2>3. \A i, j \in 1..(k - 1) : i < j /\ p[i].from = p[j].from => p[i].n <= p[j].n
    BY <1>2, <1>4, <1>5
  <2> HIDE DEF p
  <2> QED BY <1>3, <2>1, <2>2, <2>3 DEF InTheQueue, Sorted, QueuedInOrder
<1>7. ASSUME NEW u \in Tun, NEW s \in Side, u # t \/ s # s0
      PROVE  InTheQueue(u, s)'
  <2>1. InTheQueue(u, s) /\ QueueOf(u, s)' = QueueOf(u, s)
    BY <1>3, <1>7 DEF Ordered
  <2> QED BY <1>3, <2>1 DEF InTheQueue, Sorted, QueuedInOrder
<1>8. ASSUME NEW d \in Client, NEW u \in Tun, NEW x \in Queued(d, u)'
      PROVE  x \in Queued(d, u) /\ \A y \in CallOf(m, d, u) : y <= x
  <2>0. PICK s \in Side : \E i \in DOMAIN QueueOf(u, s)' :
          QueueOf(u, s)'[i].from = d /\ QueueOf(u, s)'[i].n = x /\ x \in Nat
    BY DEF Queued
  <2>1. PICK i \in DOMAIN QueueOf(u, s)' :
          QueueOf(u, s)'[i].from = d /\ QueueOf(u, s)'[i].n = x /\ x \in Nat
    BY <2>0
  <2>2. CASE u # t \/ s # s0
    <3>1. i \in DOMAIN QueueOf(u, s) /\ QueueOf(u, s)[i].from = d /\ QueueOf(u, s)[i].n = x
      BY <1>3, <2>1, <2>2
    <3>2. x \in Queued(d, u)
      BY <2>1, <3>1 DEF Queued
    <3>3. s = Outbox(d, u)
      BY <3>1 DEF Ordered, InTheQueue, Sorted
    <3>4. ASSUME m.from = d, m.tun = u
          PROVE  FALSE
      <4>1. u = t /\ s0 = Outbox(d, t)
        BY <1>2, <1>4, <1>5, <3>4
      <4> QED BY <2>2, <3>3, <4>1
    <3> QED BY <3>2, <3>4 DEF CallOf
  <2>3. CASE u = t /\ s = s0
    <3>1. i \in 1..(k - 1) /\ Tail(q)[i].from = d /\ Tail(q)[i].n = x
      BY <1>3, <1>4, <2>1, <2>3
    <3>2. i + 1 \in 1..k /\ 1 \in 1..k /\ 1 < i + 1 /\ q[i + 1].from = d /\ q[i + 1].n = x
      BY <1>2, <1>4, <3>1
    <3>3. x \in Queued(d, u)
      BY <1>2, <2>1, <2>3, <3>2 DEF Queued
    <3>4. m.from = d => m.n <= x
      BY <1>4, <1>5, <3>2
    <3> QED BY <3>3, <3>4 DEF CallOf
  <2> QED BY <2>2, <2>3
<1>9. ASSUME NEW d \in Client, NEW u \in Tun
      PROVE  CallOf(m, d, u) \subseteq Queued(d, u)
  <2>1. 1 \in DOMAIN q /\ m = q[1] /\ m.tun = t /\ m.n \in Nat
    BY <1>2, <1>4, <1>5
  <2>2. m.from = d /\ m.tun = u => m.n \in Queued(d, u)
    BY <2>1 DEF Queued
  <2> QED BY <2>2 DEF CallOf
<1> QED BY <1>6, <1>7, <1>8, <1>9 DEF UpTo

\* The mirror runs the oldest request: a message in its answer is the oldest that
\* waits, and a message it is sent the newest.
LEMMA ExecuteInOrder ==
    ASSUME IInv, IInv', OwnTypes, OwnTypes', Ordered, NEW c \in Client, Execute(c)
    PROVE  Ordered'
<1>1. PICK i \in DOMAIN wire[c] : \E x \in Replies(wire[c][i].req.tun) :
        /\ wire[c][i].ans = None
        /\ \A j \in 1..(i - 1) : wire[c][j].ans # None
        /\ Handled(c, wire[c][i].req, x)
        /\ wire' = [wire EXCEPT ![c][i].ans = x]
        /\ UNCHANGED <<call, made, latest>>
  BY DEF Execute
<1>2. PICK ans \in Replies(wire[c][i].req.tun) :
        /\ wire[c][i].ans = None
        /\ \A j \in 1..(i - 1) : wire[c][j].ans # None
        /\ Handled(c, wire[c][i].req, ans)
        /\ wire' = [wire EXCEPT ![c][i].ans = ans]
        /\ UNCHANGED <<call, made, latest>>
  BY <1>1
<1> DEFINE n == Len(wire[c])
<1>3. wire[c] \in Seq(Datagram) /\ n \in Nat /\ DOMAIN wire[c] = 1..n /\ i \in 1..n /\ wire[c][i] \in Datagram
      /\ \A j \in 1..n : wire[c][j].of \in Nat
  BY QueueOfDatagrams DEF IInv
<1>4. PICK req \in Request : req = wire[c][i].req
  BY <1>3 DEF Datagram
<1>5. req.tun \in Tun /\ ans \in Answer /\ ans # None /\ ans.load \in Payload \cup {None}
  <2>1. req.tun \in Tun
    BY DEF Request
  <2>2. ans \in Answer
    BY <1>2, <1>4, <2>1, RepliesAreAnswers DEF IInv
  <2> QED BY <2>1, <2>2, RequestAssumption DEF Answer
<1>6. /\ DOMAIN wire'[c] = 1..n
      /\ \A j \in 1..n : /\ wire'[c][j].of = wire[c][j].of
                         /\ wire'[c][j].req = wire[c][j].req
                         /\ wire'[c][j].ans = IF j = i THEN ans ELSE wire[c][j].ans
      /\ \A d \in Client : d # c => wire'[d] = wire[d]
  <2> DEFINE e == [wire[c][i] EXCEPT !.ans = ans]
  <2>1. e \in Datagram /\ e.of = wire[c][i].of /\ e.req = wire[c][i].req /\ e.ans = ans
    BY <1>3, <1>5 DEF Datagram
  <2>2. wire'[c] = [wire[c] EXCEPT ![i] = e] /\ \A d \in Client : d # c => wire'[d] = wire[d]
    BY <1>2 DEF IInv, Shape
  <2> HIDE DEF e, n
  <2>3. n = Len(wire[c])
    BY DEF n
  <2>4. /\ wire'[c] \in Seq(Datagram) /\ Len(wire'[c]) = n
        /\ \A j \in 1..n : wire'[c][j] = IF j = i THEN e ELSE wire[c][j]
    BY <1>3, <2>1, <2>2, <2>3, ExceptSeq
  <2>5. DOMAIN wire'[c] = 1..n
    BY <2>4, LenProperties
  <2> QED BY <2>1, <2>2, <2>4, <2>5
<1> HIDE DEF n
<1>7. /\ \A e \in Client : OnTheWire(e)
      /\ \A t \in Tun, s \in Side : InTheQueue(t, s)
      /\ \A e, d \in Client, t \in Tun : Stream(e, d, t)
  BY DEF Ordered
\* the request, in the order of the author's calls
<1> DEFINE In(d, t) == IF d = c /\ req.op = "send" THEN CallOf(req.load, d, t) ELSE {}
<1>8. req.op = "send" => /\ req.load \in Payload /\ req.load = MessageOf(c, wire[c][i].of, req.tun)
                         /\ req.load.from = c /\ req.load.tun = req.tun /\ req.load.n = wire[c][i].of
                         /\ wire[c][i].of \in Asked(c, req.tun)
  <2>1. ASSUME req.op = "send"
        PROVE  req.load = MessageOf(c, wire[c][i].of, req.tun)
    BY <1>3, <1>4, <1>7, <2>1 DEF OnTheWire, Signed
  <2>2. req.op = "send" => req.load \in Payload
    BY DEF Request
  <2>3. req.op = "send" => wire[c][i].of \in Asked(c, req.tun)
    BY <1>2, <1>3, <1>4 DEF Asked, Wants
  <2> QED BY <2>1, <2>2, <2>3 DEF MessageOf
<1>9. ASSUME NEW d \in Client, NEW t \in Tun
      PROVE  /\ Asked(d, t)' \subseteq Asked(d, t)
             /\ In(d, t) \subseteq Asked(d, t)
             /\ UpTo(In(d, t), Asked(d, t)')
  <2>1. CASE d # c
    BY <1>6, <2>1 DEF Asked, Wants, UpTo
  <2>2. CASE d = c
    <3>1. In(d, t) \subseteq Asked(d, t)
      BY <1>8, <2>2 DEF CallOf
    <3>2. ASSUME NEW x \in Asked(c, t)'
          PROVE  x \in Asked(c, t) /\ wire[c][i].of <= x
      <4>1. PICK j \in 1..n : Wants(c, j, t)' /\ wire'[c][j].of = x /\ x \in Nat
        BY <1>6 DEF Asked
      <4>2. j # i /\ Wants(c, j, t) /\ wire[c][j].of = x
        BY <1>5, <1>6, <4>1 DEF Wants
      <4>3. i < j
        BY <1>2, <1>3, <4>2 DEF Wants
      <4>4. wire[c][i].of <= wire[c][j].of
        BY <1>3, <1>7, <4>3 DEF OnTheWire, CallsInOrder
      <4> QED BY <1>3, <4>1, <4>2, <4>4 DEF Asked
    <3>3. \A y \in In(d, t) : y = wire[c][i].of
      BY <1>8 DEF CallOf
    <3> QED BY <2>2, <3>1, <3>2, <3>3 DEF UpTo
  <2> QED BY <2>1, <2>2
\* the queues
<1> DEFINE Out(e, d, t) == IF e = c THEN CallOf(ans.load, d, t) ELSE {}
<1> HIDE DEF In
<1>10. /\ \A t \in Tun, s \in Side : InTheQueue(t, s)'
       /\ \A d \in Client, t \in Tun : Queued(d, t)' \subseteq Queued(d, t) \cup In(d, t)
       /\ \A e, d \in Client, t \in Tun : /\ Out(e, d, t) \subseteq Queued(d, t)
                                          /\ UpTo(Out(e, d, t), Queued(d, t)')
  <2>1. CASE ans.load = None /\ Quiet
    BY <2>1, QuietInOrder DEF CallOf, UpTo
  <2>2. CASE /\ ans.load = None /\ req.op = "send"
             /\ Requeued(req.tun, Outbox(c, req.tun),
                         Append(QueueOf(req.tun, Outbox(c, req.tun)), req.load))
    <3>1. \A x \in Queued(c, req.tun) : x <= req.load.n
      BY <1>5, <1>7, <1>8, <2>2 DEF Stream, Chain, UpTo
    <3>2. /\ \A u \in Tun, s \in Side : InTheQueue(u, s)'
          /\ \A d \in Client, u \in Tun : Queued(d, u)' \subseteq Queued(d, u) \cup CallOf(req.load, d, u)
      BY <1>5, <1>8, <2>2, <3>1, SentInOrder
    <3>3. \A d \in Client, u \in Tun : CallOf(req.load, d, u) \subseteq In(d, u)
      BY <1>8, <2>2 DEF In, CallOf
    <3>4. \A e, d \in Client, t \in Tun : Out(e, d, t) = {}
      BY <2>2 DEF CallOf
    <3> HIDE DEF Out
    <3> QED BY <3>2, <3>3, <3>4 DEF UpTo
  <2>3. CASE /\ ans.load # None
             /\ QueueOf(req.tun, Inbox(c, req.tun)) # <<>>
             /\ ans.load = Head(QueueOf(req.tun, Inbox(c, req.tun)))
             /\ Requeued(req.tun, Inbox(c, req.tun), Tail(QueueOf(req.tun, Inbox(c, req.tun))))
    <3>1. /\ \A u \in Tun, s \in Side : InTheQueue(u, s)'
          /\ \A d \in Client, u \in Tun :
               /\ Queued(d, u)' \subseteq Queued(d, u)
               /\ CallOf(ans.load, d, u) \subseteq Queued(d, u)
               /\ UpTo(CallOf(ans.load, d, u), Queued(d, u)')
      BY <1>5, <2>3, ReceivedInOrder
    <3>2. \A e, d \in Client, t \in Tun : Out(e, d, t) = {} \/ Out(e, d, t) = CallOf(ans.load, d, t)
      OBVIOUS
    <3> HIDE DEF Out
    <3> QED BY <3>1, <3>2 DEF UpTo
  <2> QED BY <1>2, <1>4, <2>1, <2>2, <2>3, HandledQueues DEF IInv
<1>11. ASSUME NEW e \in Client, NEW d \in Client, NEW t \in Tun
       PROVE  Given(e, d, t)' \subseteq Given(e, d, t) \cup Out(e, d, t)
  <2>1. CASE e # c
    BY <1>6, <2>1 DEF Given, Holds
  <2>2. CASE e = c
    <3>1. SUFFICES ASSUME NEW x \in Given(c, d, t)'
                   PROVE  x \in Given(c, d, t) \cup CallOf(ans.load, d, t)
      BY <2>2
    <3>2. PICK j \in 1..n : Holds(c, j, d, t)' /\ wire'[c][j].ans.load.n = x /\ x \in Nat
      BY <1>6 DEF Given
    <3>3. CASE j = i
      BY <1>6, <3>2, <3>3 DEF Holds, CallOf
    <3>4. CASE j # i
      BY <1>3, <1>6, <3>2, <3>4 DEF Holds, Given
    <3> QED BY <3>3, <3>4
  <2> QED BY <2>1, <2>2
\* what c is given
<1>12. ASSUME NEW e \in Client
       PROVE  OnTheWire(e)'
  <2>1. CASE e # c
    <3>1. wire'[e] = wire[e] /\ made'[e] = made[e] /\ call'[e] = call[e] /\ OnTheWire(e)
      BY <1>2, <1>6, <1>7, <2>1
    <3> QED BY <3>1 DEF OnTheWire, Signed, CallsInOrder, AnswersFirst, GivenInOrder, Holds, Waiting
  <2>2. CASE e = c
    <3>1. OnTheWire(c)
      BY <1>7
    <3>2. Signed(c)'
      BY <1>2, <1>3, <1>6, <3>1 DEF OnTheWire, Signed, Waiting
    <3>3. CallsInOrder(c)'
      BY <1>3, <1>6, <3>1 DEF OnTheWire, CallsInOrder
    <3>4. AnswersFirst(c)'
      <4>1. SUFFICES ASSUME NEW a \in 1..n, NEW b \in 1..n, b < a,
                            wire'[c][a].ans # None, wire'[c][a].ans.load # None
                     PROVE  wire'[c][b].ans # None
        BY <1>6 DEF AnswersFirst
      <4>2. CASE a = i
        BY <1>2, <1>3, <1>5, <1>6, <4>1, <4>2
      <4>3. CASE a # i
        BY <1>3, <1>5, <1>6, <3>1, <4>1, <4>3 DEF OnTheWire, AnswersFirst
      <4> QED BY <4>2, <4>3
    <3>5. GivenInOrder(c)'
      <4>1. SUFFICES ASSUME NEW a \in 1..n, NEW b \in 1..n, NEW d \in Client, NEW t \in Tun, a < b,
                            Holds(c, a, d, t)', Holds(c, b, d, t)'
                     PROVE  wire'[c][a].ans.load.n <= wire'[c][b].ans.load.n
        BY <1>6 DEF GivenInOrder
      <4>2. CASE a # i /\ b # i
        <5>1. Holds(c, a, d, t) /\ Holds(c, b, d, t)
          BY <1>6, <4>1, <4>2 DEF Holds
        <5> QED BY <1>3, <1>6, <3>1, <4>1, <4>2, <5>1 DEF OnTheWire, GivenInOrder
      <4>3. CASE a = i
        <5>1. Holds(c, b, d, t)
          BY <1>6, <4>1, <4>3 DEF Holds
        <5>2. wire[c][i].ans # None
          BY <1>3, <3>1, <4>1, <4>3, <5>1 DEF OnTheWire, AnswersFirst, Holds
        <5> QED BY <1>2, <5>2
      <4>4. CASE b = i /\ a # i
        <5>1. Holds(c, a, d, t) /\ wire'[c][a].ans = wire[c][a].ans
          BY <1>6, <4>1, <4>4 DEF Holds
        <5>2. wire[c][a].ans.load \in Payload
          <6>1. wire[c][a].ans # None /\ wire[c][a].ans.load # None
            BY <5>1 DEF Holds
          <6>2. Shape /\ a \in DOMAIN wire[c]
            BY <1>3 DEF IInv
          <6>3. wire[c][a].ans.load \in Payload \cup {None}
            BY <6>1, <6>2, AnswerLoad
          <6> QED BY <6>1, <6>3
        <5>3. wire[c][a].ans.load.n \in Given(c, d, t)
          <6>1. wire[c][a].ans.load.n \in 1..MaxCalls
            BY <5>2 DEF Payload
          <6>2. wire[c][a].ans.load.n \in Nat
            BY <6>1, CallsAssumption
          <6>3. a \in DOMAIN wire[c]
            BY <1>3
          <6> QED BY <5>1, <6>2, <6>3 DEF Given
        <5>4. ans.load.n \in CallOf(ans.load, d, t) /\ wire'[c][b].ans = ans
          BY <1>6, <4>1, <4>4 DEF Holds, CallOf
        <5>5. ans.load.n \in Queued(d, t)
          BY <1>10, <5>4
        <5>6. wire[c][a].ans.load.n <= ans.load.n
          BY <1>7, <5>3, <5>5 DEF Stream, Chain, UpTo
        <5> QED BY <5>1, <5>4, <5>6
      <4> QED BY <4>2, <4>3, <4>4
    <3> QED BY <2>2, <3>2, <3>3, <3>4, <3>5 DEF OnTheWire
  <2> QED BY <2>1, <2>2
<1> HIDE DEF Out
<1>13. ASSUME NEW e \in Client, NEW d \in Client, NEW t \in Tun
       PROVE  Stream(e, d, t)'
  <2> DEFINE g == Given(e, d, t)
             q == Queued(d, t)
             a == Asked(d, t)
             h == Given(e, d, t)'
             r == Queued(d, t)'
             b == Asked(d, t)'
             x == Out(e, d, t)
             y == In(d, t)
             last == latest[e][d][t]
             now == made[d]
  <2>1. last \in Nat /\ now \in Nat /\ g \in SUBSET Nat /\ q \in SUBSET Nat /\ a \in SUBSET Nat
    BY StreamNumbers
  <2>2. MoveOn(g, q, a, h, r, b, x, y)
    BY <1>9, <1>10, <1>11 DEF MoveOn
  <2>3. Chain(last, g, q, a, now)
    BY <1>7 DEF Stream
  <2>4. latest'[e][d][t] = last /\ made'[d] = now
    BY <1>2
  <2>5. Stream(e, d, t)' <=> Chain(last, h, r, b, now)
    BY <2>4 DEF Stream
  <2> HIDE DEF g, q, a, h, r, b, x, y, last, now
  <2>6. Chain(last, h, r, b, now)
    BY <2>1, <2>2, <2>3, ChainMoves
  <2> QED BY <2>5, <2>6
<1> QED BY <1>10, <1>12, <1>13 DEF Ordered

\* A step in a calm keeps the order.
LEMMA OrderedStep ==
    ASSUME IInv, IInv', OwnTypes, OwnTypes', Calm => Ordered, [Next]_vars, Calm'
    PROVE  Ordered'
<1>1. Calm
  <2>1. \A e \in Client : swaps[e] \in Nat /\ swaps'[e] \in Nat
    BY DEF IInv, Shape
  <2>2. ASSUME NEW e \in Client
        PROVE  swaps[e] <= swaps'[e]
    <3>1. CASE UNCHANGED swaps
      BY <2>1, <3>1
    <3>2. ASSUME NEW c \in Client, Overtake(c)
          PROVE  swaps[e] <= swaps'[e]
      <4>1. swaps' = [swaps EXCEPT ![c] = swaps[c] + 1]
        BY <3>2 DEF Overtake
      <4>2. swaps'[e] = swaps[e] \/ swaps'[e] = swaps[e] + 1
        BY <4>1 DEF IInv, Shape
      <4> QED BY <2>1, <4>2
    <3>3. ASSUME NEW c \in Client, ClientStep(c) \/ Execute(c)
          PROVE  UNCHANGED swaps
      BY <3>3 DEF ClientStep, Call, TimeOut, TakeNothing, NoAnswer, Take, Execute, faultVars
    <3>4. ASSUME NEW c \in Client, Repeat(c) \/ Damage(c) \/ Lose(c)
          PROVE  UNCHANGED swaps
      BY <3>4 DEF Repeat, Damage, Lose
    <3>5. CASE UNCHANGED vars
      BY <3>1, <3>5 DEF vars, faultVars
    <3> QED BY <3>1, <3>2, <3>3, <3>4, <3>5 DEF Next, Network
  <2> QED BY <2>1, <2>2 DEF Calm
<1>2. CASE UNCHANGED vars
  <2>1. UNCHANGED <<tunnels, call, made, wire, latest>>
    BY <1>2 DEF vars, tunnelVars, callVars, dataVars
  <2>2. \A t \in Tun, s \in Side : InTheQueue(t, s)' <=> InTheQueue(t, s)
    BY <2>1 DEF InTheQueue, Sorted, QueuedInOrder, QueueOf, Exists, Outbox
  <2>3. \A c \in Client : OnTheWire(c)' <=> OnTheWire(c)
    BY <2>1 DEF OnTheWire, Signed, CallsInOrder, AnswersFirst, GivenInOrder, Holds, Waiting
  <2>4. \A c, d \in Client, t \in Tun : Stream(c, d, t)' <=> Stream(c, d, t)
    BY <2>1 DEF Stream, Given, Queued, Asked, Holds, Wants, QueueOf, Exists
  <2> QED BY <1>1, <2>2, <2>3, <2>4 DEF Ordered
<1>3. CASE Next
  BY <1>1, <1>3, CallInOrder, SilenceInOrder, TakeInOrder, ExecuteInOrder, NetworkInOrder DEF Next, ClientStep
<1> QED BY <1>2, <1>3

\* Whatever the network loses, doubles, damages or delays, however often fail_safe_sr
\* sends a request again and takes the answer of another call, and whoever else reads
\* and writes: until a datagram overtakes another a client reads what another wrote
\* into a tunnel in the order it was written.
THEOREM ReadsInOrder == Spec => ReadInOrder
<1> DEFINE CalmOrdered == Calm => Ordered
           Forward == \A c, d \in Client, t \in Tun : Calm => latest'[c][d][t] >= latest[c][d][t]
<1>1. Init => OwnTypes /\ CalmOrdered
  <2> SUFFICES ASSUME Init
               PROVE  OwnTypes /\ Ordered
    BY DEF CalmOrdered
  <2>1. OwnTypes
    BY CallsAssumption, EmptySeq DEF Init, OwnTypes
  <2>2. \A t \in Tun, s \in Side : QueueOf(t, s) = <<>>
    BY DEF Init, InitTunnels, QueueOf, Exists
  <2>3. \A c \in Client : OnTheWire(c)
    <3>1. \A c \in Client : DOMAIN wire[c] = {} /\ ~Waiting(c)
      <4>1. \A c \in Client : wire[c] = <<>> /\ call[c] = None
        BY DEF Init
      <4>2. DOMAIN <<>> = {}
        OBVIOUS
      <4> QED BY <4>1, <4>2 DEF Waiting
    <3> SUFFICES ASSUME NEW c \in Client
                 PROVE  OnTheWire(c)
      OBVIOUS
    <3>2. Signed(c)
      BY <3>1 DEF Signed
    <3> QED BY <3>1, <3>2 DEF OnTheWire, CallsInOrder, AnswersFirst, GivenInOrder
  <2>4. \A c, d \in Client, t \in Tun :
          /\ latest[c][d][t] = 0 /\ made[d] = 0
          /\ Given(c, d, t) = {} /\ Queued(d, t) = {} /\ Asked(d, t) = {}
    BY <2>2 DEF Init, Given, Queued, Asked
  <2> QED BY <2>1, <2>2, <2>3, <2>4 DEF Ordered, InTheQueue, Sorted, QueuedInOrder, Stream, Chain, UpTo
<1>2. IInv /\ OwnTypes /\ [Next]_vars => OwnTypes'
  BY OwnTypesStep
<1>3. IInv /\ IInv' /\ OwnTypes /\ OwnTypes' /\ CalmOrdered /\ [Next]_vars => CalmOrdered'
  BY OrderedStep DEF CalmOrdered
<1>4. IInv /\ OwnTypes /\ CalmOrdered /\ [Next]_vars => Forward
  <2> SUFFICES ASSUME IInv, OwnTypes, Ordered, [Next]_vars, NEW e \in Client, NEW d \in Client, NEW t \in Tun
               PROVE  latest'[e][d][t] >= latest[e][d][t]
    BY DEF CalmOrdered, Forward
  <2>1. latest[e][d][t] \in Nat /\ Given(e, d, t) \subseteq Nat
    BY StreamNumbers
  <2>2. CASE latest' = latest
    BY <2>1, <2>2
  <2>3. ASSUME NEW c \in Client, Take(c)
        PROVE  latest'[e][d][t] >= latest[e][d][t]
    <3>1. latest'[e][d][t] = latest[e][d][t] \/ latest'[e][d][t] \in Given(e, d, t)
      BY <2>3, TakeReads
    <3>2. \A x \in Given(e, d, t) : latest[e][d][t] <= x
      BY DEF Ordered, Stream, Chain
    <3> QED BY <2>1, <3>1, <3>2
  <2>4. ASSUME NEW c \in Client, Call(c) \/ TimeOut(c) \/ TakeNothing(c) \/ Execute(c)
        PROVE  latest' = latest
    BY <2>4 DEF Call, TimeOut, TakeNothing, NoAnswer, Execute, dataVars
  <2>5. ASSUME NEW c \in Client, Network(c)
        PROVE  latest' = latest
    BY <2>5 DEF Network, Repeat, Overtake, Damage, Lose, Fault, dataVars
  <2>6. CASE UNCHANGED vars
    BY <2>2, <2>6 DEF vars, dataVars
  <2> QED BY <2>2, <2>3, <2>4, <2>5, <2>6 DEF Next, ClientStep
<1>5. IInv /\ OwnTypes /\ CalmOrdered /\ [Next]_vars =>
        [\A c, d \in Client, t \in Tun :
           (\A e \in Client : swaps[e] = 0) => latest'[c][d][t] >= latest[c][d][t]]_vars
  BY <1>4 DEF Calm
<1> HIDE DEF CalmOrdered, Forward
<1> QED BY <1>1, <1>2, <1>3, <1>5, IInvHolds, PTL DEF Spec, ReadInOrder

=============================================================================
