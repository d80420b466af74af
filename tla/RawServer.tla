----------------------------- MODULE RawServer -----------------------------
(***************************************************************************)
(* The datagram server under every server of the repository: server_udp    *)
(* (rawnet/serv_udp.hpp).  A receiver thread moves datagrams from the      *)
(* socket to a queue, a pool of workers takes them from there and answers, *)
(* and stop() ends them all.  run is detached, as in every program here    *)
(* that passes it a choice.                                                *)
(*                                                                         *)
(* queue_mutex guards the queue and not stop_event, and the notifications  *)
(* are sent without it: a worker that has found nothing to do and has not  *)
(* fallen asleep yet misses them.                                          *)
(***************************************************************************)
EXTENDS Naturals, Sequences

CONSTANTS
    Worker,         \* the worker threads
    Datagram,       \* the datagrams that reach the server (bound)
    None            \* no datagram

ASSUME RawServerAssumption == None \notin Datagram

VARIABLES
    net,            \* datagrams on their way
    socket,         \* datagrams the kernel keeps for the socket
    rpc,            \* where the receiver thread is
    held,           \* the datagram it has received and not queued yet
    queue,          \* msg_queue
    wpc,            \* where each worker is
    msg,            \* the datagram each worker handles
    served,         \* datagrams whose handler has returned
    stop_event,
    spc             \* how far stop() is: the socket is closed at "returned"

queueVars == <<held, queue>>
workVars == <<wpc, msg, served>>
stopVars == <<stop_event, spc>>
vars == <<net, socket, rpc, queueVars, workVars, stopVars>>

Init ==
    /\ net = Datagram /\ socket = {}
    /\ rpc = "loop" /\ held = None
    /\ queue = <<>>
    /\ wpc = [w \in Worker |-> "loop"]
    /\ msg = [w \in Worker |-> None]
    /\ served = {}
    /\ stop_event = FALSE /\ spc = "running"

Open == spc # "returned"

\* A worker holds queue_mutex from its test until it sleeps or has its message.
Free == \A w \in Worker : wpc[w] \notin {"drowsy", "check", "pop"}

Step(w, p) == wpc' = [wpc EXCEPT ![w] = p]

----------------------------------------------------------------------------
(* The receiver thread.                                                    *)

\* A datagram arrives; a recvfrom under way keeps a closed socket alive.
Arrive == \E d \in net :
    /\ Open \/ rpc = "recv"
    /\ net' = net \ {d}
    /\ socket' = socket \cup {d}
    /\ UNCHANGED <<rpc, queueVars, workVars, stopVars>>

\* The loop's test.
ReceiverLoop ==
    /\ rpc = "loop"
    /\ rpc' = IF stop_event THEN "ended" ELSE "call"
    /\ UNCHANGED <<net, socket, queueVars, workVars, stopVars>>

\* recvfrom fails on a closed socket, and stop_event was set before.
CallRecv ==
    /\ rpc = "call"
    /\ rpc' = IF Open THEN "recv" ELSE "ended"
    /\ UNCHANGED <<net, socket, queueVars, workVars, stopVars>>

Receive == \E d \in socket :
    /\ rpc = "recv" /\ rpc' = "push"
    /\ socket' = socket \ {d} /\ held' = d
    /\ UNCHANGED <<net, queue, workVars, stopVars>>

Push ==
    /\ rpc = "push" /\ rpc' = "notify"
    /\ Free
    /\ queue' = Append(queue, held) /\ held' = None
    /\ UNCHANGED <<net, socket, workVars, stopVars>>

\* notify_one wakes a sleeping worker, if there is one.
NotifyOne ==
    /\ rpc = "notify" /\ rpc' = "loop"
    /\ \/ \E w \in Worker : wpc[w] = "asleep" /\ Step(w, "lock")
       \/ (\A w \in Worker : wpc[w] # "asleep") /\ UNCHANGED wpc
    /\ UNCHANGED <<net, socket, queueVars, msg, served, stopVars>>

Receiver == ReceiverLoop \/ CallRecv \/ Receive \/ Push \/ NotifyOne

----------------------------------------------------------------------------
(* A worker thread.                                                        *)

WorkerLoop(w) ==
    /\ wpc[w] = "loop"
    /\ Step(w, IF stop_event THEN "ended" ELSE "lock")
    /\ UNCHANGED <<net, socket, rpc, queueVars, msg, served, stopVars>>

\* Mutant: the predicate forgets the queue.
ReadyToStop == stop_event

\* The predicate of wait_for.
Ready == queue # <<>> \/ stop_event

\* Take the mutex and test: go on, or fall asleep.
Test(w) ==
    /\ wpc[w] = "lock" /\ Free
    /\ Step(w, IF Ready THEN "check" ELSE "drowsy")
    /\ UNCHANGED <<net, socket, rpc, queueVars, msg, served, stopVars>>

FallAsleep(w) ==
    /\ wpc[w] = "drowsy"
    /\ Step(w, "asleep")
    /\ UNCHANGED <<net, socket, rpc, queueVars, msg, served, stopVars>>

\* Mutant: wait, without a time limit.
WaitForEver(w) == FALSE /\ UNCHANGED vars

\* 100 ms have passed.
TimedOut(w) ==
    /\ wpc[w] = "asleep"
    /\ Step(w, "late")
    /\ UNCHANGED <<net, socket, rpc, queueVars, msg, served, stopVars>>

\* Mutant: what wait_for returns is not looked at.
LastTestIgnored(w) ==
    /\ wpc[w] = "late" /\ Free
    /\ Step(w, "check")
    /\ UNCHANGED <<net, socket, rpc, queueVars, msg, served, stopVars>>

\* Take the mutex, test a last time, and give up.
LastTest(w) ==
    /\ wpc[w] = "late" /\ Free
    /\ Step(w, IF Ready THEN "check" ELSE "loop")
    /\ UNCHANGED <<net, socket, rpc, queueVars, msg, served, stopVars>>

CheckStop(w) ==
    /\ wpc[w] = "check"
    /\ Step(w, IF stop_event THEN "ended" ELSE "pop")
    /\ UNCHANGED <<net, socket, rpc, queueVars, msg, served, stopVars>>

\* Mutant: the message is read and left in the queue.
PopNothing(w) ==
    /\ wpc[w] = "pop" /\ queue # <<>>
    /\ msg' = [msg EXCEPT ![w] = Head(queue)]
    /\ Step(w, "handle")
    /\ UNCHANGED <<net, socket, rpc, queueVars, served, stopVars>>

\* stop_event was not set at the check, so the queue made the predicate true.
Pop(w) ==
    /\ wpc[w] = "pop" /\ queue # <<>>
    /\ msg' = [msg EXCEPT ![w] = Head(queue)]
    /\ queue' = Tail(queue)
    /\ Step(w, "handle")
    /\ UNCHANGED <<net, socket, rpc, held, served, stopVars>>

\* v_on_msg_cli returns, and sendto sends its answer if the socket is open.
Handle(w) ==
    /\ wpc[w] = "handle"
    /\ served' = served \cup {msg[w]}
    /\ msg' = [msg EXCEPT ![w] = None]
    /\ Step(w, "loop")
    /\ UNCHANGED <<net, socket, rpc, queueVars, stopVars>>

Lock(w) == Test(w) \/ LastTest(w)
Go(w) ==
    WorkerLoop(w) \/ FallAsleep(w) \/ TimedOut(w) \/ CheckStop(w) \/ Pop(w) \/ Handle(w)

----------------------------------------------------------------------------
(* stop: detached threads are not joinable, so nobody waits for them.      *)

SetStop ==
    /\ spc = "running" /\ spc' = "flagged"
    /\ stop_event' = TRUE
    /\ UNCHANGED <<net, socket, rpc, queueVars, workVars>>

NotifyAll ==
    /\ spc = "flagged" /\ spc' = "notified"
    /\ wpc' = [w \in Worker |-> IF wpc[w] = "asleep" THEN "lock" ELSE wpc[w]]
    /\ UNCHANGED <<net, socket, rpc, queueVars, msg, served, stop_event>>

\* What the socket still kept is gone, unless a recvfrom is under way.
Close ==
    /\ spc = "notified" /\ spc' = "returned"
    /\ UNCHANGED <<net, socket, rpc, queueVars, workVars, stop_event>>

Stop == SetStop \/ NotifyAll \/ Close

----------------------------------------------------------------------------
Next ==
    \/ Arrive
    \/ Receiver
    \/ \E w \in Worker : Lock(w) \/ Go(w)
    \/ Stop

Spec == Init /\ [][Next]_vars

\* Threads run, 100 ms pass, and who finds the mutex free again and again gets
\* it.  Nobody has to call stop.
Fairness ==
    /\ WF_vars(Receiver) /\ SF_vars(Push)
    /\ \A w \in Worker : WF_vars(Go(w)) /\ SF_vars(Lock(w))

FairSpec == Spec /\ Fairness

----------------------------------------------------------------------------
\* Who holds which datagram, and that a worker that pops finds one.
TypeOK ==
    /\ net \subseteq Datagram /\ socket \subseteq Datagram /\ served \subseteq Datagram
    /\ rpc \in {"loop", "call", "recv", "push", "notify", "ended"}
    /\ held \in Datagram \cup {None}
    /\ queue \in Seq(Datagram)
    /\ wpc \in [Worker ->
          {"loop", "lock", "drowsy", "asleep", "late", "check", "pop", "handle", "ended"}]
    /\ msg \in [Worker -> Datagram \cup {None}]
    /\ stop_event \in BOOLEAN
    /\ spc \in {"running", "flagged", "notified", "returned"}
    /\ held # None <=> rpc = "push"
    /\ \A w \in Worker : /\ msg[w] # None <=> wpc[w] = "handle"
                         /\ wpc[w] = "pop" => queue # <<>>

\* Where a datagram may be.
Place == {"net", "socket", "held", "queue", "worker", "served"}
IsIn(d, p) ==
    \/ p = "net" /\ d \in net
    \/ p = "socket" /\ d \in socket
    \/ p = "held" /\ d = held
    \/ p = "queue" /\ \E i \in DOMAIN queue : queue[i] = d
    \/ p = "worker" /\ \E w \in Worker : msg[w] = d
    \/ p = "served" /\ d \in served

\* Between socket, receiver, queue and workers no datagram is lost and none is
\* handled twice: each is in one place, once in the queue or with one worker.
\* And one worker at a time has the queue.
OneCopy ==
    /\ \A d \in Datagram : \E p \in Place : \A q \in Place : IsIn(d, q) <=> q = p
    /\ \A i, j \in DOMAIN queue : queue[i] = queue[j] => i = j
    /\ \A v, w \in Worker : msg[v] = msg[w] /\ msg[v] # None => v = w
    /\ \A v, w \in Worker : {wpc[v], wpc[w]} \subseteq {"drowsy", "check", "pop"} => v = w

\* Whatever has reached the socket is handled, unless the server is stopped.
Served == \A d \in Datagram : d \in socket ~> d \in served \/ stop_event

\* stop_event ends every worker, though its notification may come too early for
\* one that is about to fall asleep.
WorkersStop == stop_event ~> \A w \in Worker : wpc[w] = "ended"
=============================================================================
