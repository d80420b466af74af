-------------------------- MODULE RawServerProofs --------------------------
(***************************************************************************)
(* Proofs about RawServer, for any number of workers and datagrams.        *)
(*                                                                         *)
(* That a worker finds a message when it pops is the part that needs help: *)
(* between the wait's return and the pop lies the test of stop_event, and  *)
(* the queue must not become empty meanwhile.  It does not, because what   *)
(* made the wait return still holds (CheckFinds) and nobody else is        *)
(* between its own test and its own pop (OneCopy's last part).             *)
(***************************************************************************)
EXTENDS RawServer, TLAPS

\* A worker that was not woken by stop has found a message.
CheckFinds == \A w \in Worker : wpc[w] = "check" /\ ~stop_event => queue # <<>>

IInv == TypeOK /\ OneCopy /\ CheckFinds

Critical == {"drowsy", "check", "pop"}

Settled(d) == \E p \in Place : \A q \in Place : IsIn(d, q) <=> q = p
QueuedOnce == \A i, j \in DOMAIN queue : queue[i] = queue[j] => i = j
TakenOnce == \A v, w \in Worker : msg[v] = msg[w] /\ msg[v] # None => v = w
MutexHeldOnce == \A v, w \in Worker : {wpc[v], wpc[w]} \subseteq Critical => v = w

\* What OneCopy says of two places, one by one.
LEMMA OneCopyParts ==
    /\ OneCopy <=> (\A d \in Datagram : Settled(d)) /\ QueuedOnce /\ TakenOnce /\ MutexHeldOnce
    /\ OneCopy' <=> (\A d \in Datagram : Settled(d)') /\ QueuedOnce' /\ TakenOnce' /\ MutexHeldOnce'
BY DEF OneCopy, Settled, QueuedOnce, TakenOnce, MutexHeldOnce, Critical

----------------------------------------------------------------------------
(* Where a datagram is.                                                    *)

\* A datagram that is in one place is in no other.
LEMMA Elsewhere ==
    ASSUME NEW d \in Datagram, Settled(d), NEW p \in Place, NEW q \in Place,
           IsIn(d, p), IsIn(d, q)
    PROVE  p = q
BY DEF Settled

\* If a step takes x to p and leaves all others, each is still in one place.
LEMMA MoveSettles ==
    ASSUME \A d \in Datagram : Settled(d), NEW x \in Datagram, NEW p \in Place,
           \A d \in Datagram, q \in Place :
             IsIn(d, q)' <=> IF d = x THEN q = p ELSE IsIn(d, q)
    PROVE  \A d \in Datagram : Settled(d)'
BY DEF Settled, Place

\* If it leaves all of them, too.
LEMMA StaySettles ==
    ASSUME \A d \in Datagram : Settled(d),
           \A d \in Datagram, q \in Place : IsIn(d, q)' <=> IsIn(d, q)
    PROVE  \A d \in Datagram : Settled(d)'
BY DEF Settled, Place

----------------------------------------------------------------------------
(* What a sequence without repetitions looks like after Append and Tail.   *)

\* A datagram new to the queue is there once.
LEMMA AppendOnce ==
    ASSUME NEW s \in Seq(Datagram), NEW x \in Datagram,
           \A i, j \in DOMAIN s : s[i] = s[j] => i = j,
           ~\E i \in DOMAIN s : s[i] = x
    PROVE  /\ \A i, j \in DOMAIN Append(s, x) : Append(s, x)[i] = Append(s, x)[j] => i = j
           /\ \A d : (\E i \in DOMAIN Append(s, x) : Append(s, x)[i] = d)
                       <=> (\E i \in DOMAIN s : s[i] = d) \/ d = x
           /\ Append(s, x) # <<>>
  <1>1. /\ DOMAIN s = 1..Len(s) /\ Len(s) \in Nat
        /\ DOMAIN Append(s, x) = 1..Len(s) + 1
        /\ \A i \in 1..Len(s) : Append(s, x)[i] = s[i]
        /\ Append(s, x)[Len(s) + 1] = x
    OBVIOUS
  <1>2. \A i \in 1..Len(s) + 1 : i \in 1..Len(s) \/ i = Len(s) + 1
    BY <1>1
  <1>3. \A i, j \in DOMAIN Append(s, x) : Append(s, x)[i] = Append(s, x)[j] => i = j
    BY <1>1, <1>2
  <1>4. 1..Len(s) \subseteq 1..Len(s) + 1 /\ Len(s) + 1 \in 1..Len(s) + 1
    BY <1>1
  <1>5. \A d : (\E i \in DOMAIN Append(s, x) : Append(s, x)[i] = d)
                 <=> (\E i \in DOMAIN s : s[i] = d) \/ d = x
    BY <1>1, <1>2, <1>4
  <1>6. Append(s, x) # <<>>
    BY <1>1, <1>4
  <1> QED BY <1>3, <1>5, <1>6

\* Popping leaves the others where they were, one further on.
LEMMA TailOnce ==
    ASSUME NEW s \in Seq(Datagram), s # <<>>,
           \A i, j \in DOMAIN s : s[i] = s[j] => i = j
    PROVE  /\ Tail(s) \in Seq(Datagram) /\ Head(s) \in Datagram
           /\ \E i \in DOMAIN s : s[i] = Head(s)
           /\ \A i, j \in DOMAIN Tail(s) : Tail(s)[i] = Tail(s)[j] => i = j
           /\ \A d : (\E i \in DOMAIN Tail(s) : Tail(s)[i] = d)
                       <=> (\E i \in DOMAIN s : s[i] = d) /\ d # Head(s)
  <1>1. /\ DOMAIN s = 1..Len(s) /\ Len(s) \in Nat /\ Len(s) >= 1
        /\ Tail(s) \in Seq(Datagram) /\ Len(Tail(s)) = Len(s) - 1
        /\ DOMAIN Tail(s) = 1..Len(s) - 1
        /\ \A i \in 1..Len(s) - 1 : Tail(s)[i] = s[i + 1]
        /\ Head(s) = s[1] /\ s[1] \in Datagram
    OBVIOUS
  <1>2. 1 \in DOMAIN s /\ \A i \in 1..Len(s) - 1 : i \in Nat /\ i + 1 \in DOMAIN s /\ i + 1 # 1
    BY <1>1
  <1>3. \A i, j \in DOMAIN Tail(s) : Tail(s)[i] = Tail(s)[j] => i = j
    <2> SUFFICES ASSUME NEW i \in DOMAIN Tail(s), NEW j \in DOMAIN Tail(s), Tail(s)[i] = Tail(s)[j]
                 PROVE  i = j
      OBVIOUS
    <2>1. i + 1 = j + 1
      BY <1>1, <1>2
    <2> QED BY <1>1, <1>2, <2>1
  <1>4. ASSUME NEW d, NEW i \in DOMAIN Tail(s), Tail(s)[i] = d
        PROVE  (\E j \in DOMAIN s : s[j] = d) /\ d # Head(s)
    BY <1>1, <1>2, <1>4
  <1>5. ASSUME NEW d, NEW j \in DOMAIN s, s[j] = d, d # Head(s)
        PROVE  \E i \in DOMAIN Tail(s) : Tail(s)[i] = d
    <2>1. j - 1 \in 1..Len(s) - 1 /\ (j - 1) + 1 = j
      BY <1>1, <1>5
    <2> QED BY <1>1, <1>5, <2>1
  <1> QED BY <1>1, <1>2, <1>3, <1>4, <1>5

----------------------------------------------------------------------------
(* The steps, one by one.                                                  *)

\* A step that moves no datagram and changes workers' counters only.
LEMMA StillThere ==
    ASSUME OneCopy, UNCHANGED <<net, socket, held, queue, msg, served>>
    PROVE  (\A d \in Datagram : Settled(d)') /\ QueuedOnce' /\ TakenOnce'
  <1>1. \A d \in Datagram, q \in Place : IsIn(d, q)' <=> IsIn(d, q)
    BY DEF IsIn
  <1> QED BY <1>1, OneCopyParts, StaySettles DEF QueuedOnce, TakenOnce

\* The invariant holds at the start.
LEMMA InitInv == Init => IInv
  <1> SUFFICES ASSUME Init PROVE IInv
    OBVIOUS
  <1>1. TypeOK /\ CheckFinds
    <2>1. stop_event \in BOOLEAN
      BY DEF Init
    <2>2. queue \in Seq(Datagram)
      BY DEF Init
    <2>3. \A w \in Worker : wpc[w] = "loop" /\ msg[w] = None
      BY DEF Init
    <2> QED BY <2>1, <2>2, <2>3 DEF Init, TypeOK, CheckFinds
  <1>2. ASSUME NEW d \in Datagram
        PROVE  Settled(d)
    <2>1. "net" \in Place /\ \A q \in Place : IsIn(d, q) <=> q = "net"
      BY RawServerAssumption DEF Init, IsIn, Place
    <2> QED BY <2>1 DEF Settled
  <1>3. QueuedOnce /\ TakenOnce /\ MutexHeldOnce
    BY DEF Init, QueuedOnce, TakenOnce, MutexHeldOnce, Critical
  <1> QED BY <1>1, <1>2, <1>3, OneCopyParts DEF IInv

\* The receiver thread and the network.
LEMMA ReceiverInv ==
    ASSUME IInv, Arrive \/ Receiver
    PROVE  IInv'
  <1> USE DEF IInv
  <1>0. (\A d \in Datagram : Settled(d)) /\ QueuedOnce /\ TakenOnce /\ MutexHeldOnce
    BY OneCopyParts
  <1>1. CASE Arrive
    <2>1. TypeOK' /\ CheckFinds'
      BY <1>1 DEF Arrive, TypeOK, CheckFinds, queueVars, workVars, stopVars
    <2>2. PICK d \in net : net' = net \ {d} /\ socket' = socket \cup {d}
                           /\ UNCHANGED <<rpc, queueVars, workVars, stopVars>>
      BY <1>1 DEF Arrive
    <2>3. d \in Datagram /\ IsIn(d, "net") /\ "net" \in Place /\ "socket" \in Place
      BY <2>2 DEF TypeOK, IsIn, Place
    <2>4. \A q \in Place : IsIn(d, q) => q = "net"
      BY <1>0, <2>3, Elsewhere
    <2>5. \A e \in Datagram, q \in Place :
            IsIn(e, q)' <=> IF e = d THEN q = "socket" ELSE IsIn(e, q)
      BY <2>2, <2>4 DEF IsIn, Place, queueVars, workVars
    <2>6. \A e \in Datagram : Settled(e)'
      BY <1>0, <2>3, <2>5, MoveSettles
    <2>7. QueuedOnce' /\ TakenOnce' /\ MutexHeldOnce'
      BY <1>0, <2>2 DEF QueuedOnce, TakenOnce, MutexHeldOnce, queueVars, workVars
    <2> QED BY <2>1, <2>6, <2>7, OneCopyParts
  <1>2. CASE ReceiverLoop \/ CallRecv
    <2>1. TypeOK' /\ CheckFinds' /\ MutexHeldOnce'
      BY <1>0, <1>2 DEF ReceiverLoop, CallRecv, TypeOK, CheckFinds, MutexHeldOnce, queueVars,
                        workVars, stopVars
    <2>2. UNCHANGED <<net, socket, held, queue, msg, served>>
      BY <1>2 DEF ReceiverLoop, CallRecv, queueVars, workVars
    <2> QED BY <2>1, <2>2, StillThere, OneCopyParts
  <1>3. CASE Receive
    <2>1. PICK d \in socket : rpc = "recv" /\ rpc' = "push" /\ socket' = socket \ {d} /\ held' = d
                              /\ UNCHANGED <<net, queue, workVars, stopVars>>
      BY <1>3 DEF Receive
    <2>2. d \in Datagram /\ IsIn(d, "socket") /\ "socket" \in Place /\ "held" \in Place
      BY <2>1 DEF TypeOK, IsIn, Place
    <2>3. TypeOK' /\ CheckFinds'
      BY <2>1, <2>2, RawServerAssumption DEF TypeOK, CheckFinds, workVars, stopVars
    <2>4. \A q \in Place : IsIn(d, q) => q = "socket"
      BY <1>0, <2>2, Elsewhere
    <2>5. held = None
      BY <2>1 DEF TypeOK
    <2>6. \A e \in Datagram, q \in Place :
            IsIn(e, q)' <=> IF e = d THEN q = "held" ELSE IsIn(e, q)
      BY <2>1, <2>4, <2>5, RawServerAssumption DEF IsIn, Place, workVars
    <2>7. \A e \in Datagram : Settled(e)'
      BY <1>0, <2>2, <2>6, MoveSettles
    <2>8. QueuedOnce' /\ TakenOnce' /\ MutexHeldOnce'
      BY <1>0, <2>1 DEF QueuedOnce, TakenOnce, MutexHeldOnce, workVars
    <2> QED BY <2>3, <2>7, <2>8, OneCopyParts
  <1>4. CASE Push
    <2>1. /\ rpc = "push" /\ rpc' = "notify" /\ Free
          /\ queue' = Append(queue, held) /\ held' = None
          /\ UNCHANGED <<net, socket, workVars, stopVars>>
      BY <1>4 DEF Push
    <2>2. held \in Datagram /\ IsIn(held, "held") /\ {"held", "queue"} \subseteq Place
          /\ queue \in Seq(Datagram)
      BY <2>1 DEF TypeOK, IsIn, Place
    <2>3. \A q \in Place : IsIn(held, q) => q = "held"
      BY <1>0, <2>2, Elsewhere
    <2>4. ~\E i \in DOMAIN queue : queue[i] = held
      BY <2>2, <2>3 DEF IsIn
    <2>5. /\ QueuedOnce' /\ queue' # <<>>
          /\ \A e : (\E i \in DOMAIN queue' : queue'[i] = e)
                      <=> (\E i \in DOMAIN queue : queue[i] = e) \/ e = held
      BY <1>0, <2>1, <2>2, <2>4, AppendOnce DEF QueuedOnce
    <2>6. TypeOK' /\ CheckFinds'
      BY <2>1, <2>2, <2>5, RawServerAssumption DEF TypeOK, CheckFinds, workVars, stopVars
    <2>7. \A e \in Datagram, q \in Place :
            IsIn(e, q)' <=> IF e = held THEN q = "queue" ELSE IsIn(e, q)
      BY <2>1, <2>3, <2>5, RawServerAssumption DEF IsIn, Place, workVars
    <2>8. \A e \in Datagram : Settled(e)'
      BY <1>0, <2>2, <2>7, MoveSettles
    <2>9. TakenOnce' /\ MutexHeldOnce'
      BY <1>0, <2>1 DEF TakenOnce, MutexHeldOnce, workVars
    <2> QED BY <2>5, <2>6, <2>8, <2>9, OneCopyParts
  <1>5. CASE NotifyOne
    <2>1. TypeOK' /\ CheckFinds' /\ MutexHeldOnce'
      BY <1>0, <1>5 DEF NotifyOne, Step, TypeOK, CheckFinds, MutexHeldOnce, Critical, queueVars,
                        stopVars
    <2>2. UNCHANGED <<net, socket, held, queue, msg, served>>
      BY <1>5 DEF NotifyOne, queueVars
    <2> QED BY <2>1, <2>2, StillThere, OneCopyParts
  <1> QED BY <1>1, <1>2, <1>3, <1>4, <1>5 DEF Receiver

\* A worker.
LEMMA WorkerInv ==
    ASSUME IInv, NEW w \in Worker, Lock(w) \/ Go(w)
    PROVE  IInv'
  <1> USE DEF IInv
  <1>0. (\A d \in Datagram : Settled(d)) /\ QueuedOnce /\ TakenOnce /\ MutexHeldOnce
    BY OneCopyParts
  <1>1. CASE Test(w) \/ LastTest(w)
    <2>1. TypeOK' /\ CheckFinds' /\ MutexHeldOnce'
      BY <1>0, <1>1 DEF Test, LastTest, Ready, Free, Step, TypeOK, CheckFinds, MutexHeldOnce,
                        Critical, queueVars, stopVars
    <2>2. UNCHANGED <<net, socket, held, queue, msg, served>>
      BY <1>1 DEF Test, LastTest, queueVars
    <2> QED BY <2>1, <2>2, StillThere, OneCopyParts
  <1>2. CASE WorkerLoop(w) \/ FallAsleep(w) \/ TimedOut(w) \/ CheckStop(w)
    <2>1. TypeOK' /\ CheckFinds' /\ MutexHeldOnce'
      BY <1>0, <1>2 DEF WorkerLoop, FallAsleep, TimedOut, CheckStop, Step, TypeOK, CheckFinds,
                        MutexHeldOnce, Critical, queueVars, stopVars
    <2>2. UNCHANGED <<net, socket, held, queue, msg, served>>
      BY <1>2 DEF WorkerLoop, FallAsleep, TimedOut, CheckStop, queueVars
    <2> QED BY <2>1, <2>2, StillThere, OneCopyParts
  <1>3. CASE Pop(w)
    <2> DEFINE d == Head(queue)
    <2>1. /\ wpc[w] = "pop" /\ queue # <<>> /\ queue \in Seq(Datagram)
          /\ msg' = [msg EXCEPT ![w] = d] /\ queue' = Tail(queue)
          /\ wpc' = [wpc EXCEPT ![w] = "handle"]
          /\ UNCHANGED <<net, socket, rpc, held, served, stopVars>>
      BY <1>3 DEF Pop, Step, TypeOK
    <2>2. /\ queue' \in Seq(Datagram) /\ d \in Datagram /\ QueuedOnce'
          /\ IsIn(d, "queue") /\ {"queue", "worker"} \subseteq Place
          /\ \A e : (\E i \in DOMAIN queue' : queue'[i] = e)
                      <=> (\E i \in DOMAIN queue : queue[i] = e) /\ e # d
      BY <1>0, <2>1, TailOnce DEF QueuedOnce, IsIn, Place
    <2> HIDE DEF d
    <2>3. \A q \in Place : IsIn(d, q) => q = "queue"
      BY <1>0, <2>2, Elsewhere
    <2>4. \A v \in Worker : v # w => wpc[v] \notin Critical
      BY <1>0, <2>1 DEF MutexHeldOnce, Critical
    <2>5. TypeOK' /\ CheckFinds' /\ MutexHeldOnce'
      BY <1>0, <2>1, <2>2, <2>4, RawServerAssumption
         DEF TypeOK, CheckFinds, MutexHeldOnce, Critical, stopVars
    <2>6. msg[w] = None /\ \A v \in Worker : msg[v] # d
      <3>1. msg[w] = None
        BY <2>1 DEF TypeOK
      <3>2. ~IsIn(d, "worker")
        BY <2>2, <2>3
      <3> QED BY <3>1, <3>2 DEF IsIn
    <2>7. \A e \in Datagram : (\E v \in Worker : msg'[v] = e) <=> (\E v \in Worker : msg[v] = e) \/ e = d
      BY <2>1, <2>6, RawServerAssumption DEF TypeOK
    <2>8. \A e \in Datagram, q \in Place :
            IsIn(e, q)' <=> IF e = d THEN q = "worker" ELSE IsIn(e, q)
      BY <2>1, <2>2, <2>3, <2>7 DEF IsIn, Place
    <2>9. \A e \in Datagram : Settled(e)'
      BY <1>0, <2>2, <2>8, MoveSettles
    <2>10. TakenOnce'
      BY <1>0, <2>1, <2>6 DEF TakenOnce, TypeOK
    <2> QED BY <2>2, <2>5, <2>9, <2>10, OneCopyParts
  <1>4. CASE Handle(w)
    <2> DEFINE d == msg[w]
    <2>1. /\ wpc[w] = "handle" /\ served' = served \cup {d}
          /\ msg' = [msg EXCEPT ![w] = None]
          /\ wpc' = [wpc EXCEPT ![w] = "loop"]
          /\ UNCHANGED <<net, socket, rpc, queueVars, stopVars>>
      BY <1>4 DEF Handle, Step
    <2>2. d \in Datagram /\ IsIn(d, "worker") /\ {"worker", "served"} \subseteq Place
      BY <2>1, RawServerAssumption DEF TypeOK, IsIn, Place
    <2>3. \A q \in Place : IsIn(d, q) => q = "worker"
      BY <1>0, <2>2, Elsewhere
    <2>4. TypeOK' /\ CheckFinds' /\ MutexHeldOnce'
      BY <1>0, <2>1, <2>2 DEF TypeOK, CheckFinds, MutexHeldOnce, Critical, queueVars, stopVars
    <2>5. \A v \in Worker : v # w => msg[v] # d
      BY <1>0, <2>2, RawServerAssumption DEF TakenOnce
    <2>6. \A e \in Datagram : (\E v \in Worker : msg'[v] = e) <=> (\E v \in Worker : msg[v] = e) /\ e # d
      BY <2>1, <2>5, RawServerAssumption DEF TypeOK
    <2> HIDE DEF d
    <2>7. \A e \in Datagram, q \in Place :
            IsIn(e, q)' <=> IF e = d THEN q = "served" ELSE IsIn(e, q)
      BY <2>1, <2>3, <2>6 DEF IsIn, Place, queueVars
    <2>8. \A e \in Datagram : Settled(e)'
      BY <1>0, <2>2, <2>7, MoveSettles
    <2>9. QueuedOnce' /\ TakenOnce'
      BY <1>0, <2>1 DEF QueuedOnce, TakenOnce, TypeOK, queueVars
    <2> QED BY <2>4, <2>8, <2>9, OneCopyParts
  <1> QED BY <1>1, <1>2, <1>3, <1>4 DEF Lock, Go

\* stop.
LEMMA StopInv ==
    ASSUME IInv, Stop \/ UNCHANGED vars
    PROVE  IInv'
  <1> USE DEF IInv
  <1>1. MutexHeldOnce
    BY OneCopyParts
  <1>2. TypeOK' /\ CheckFinds' /\ MutexHeldOnce'
    <2>1. CASE SetStop
      BY <1>1, <2>1 DEF SetStop, TypeOK, CheckFinds, MutexHeldOnce, queueVars, workVars
    <2>2. CASE NotifyAll
      BY <1>1, <2>2 DEF NotifyAll, TypeOK, CheckFinds, MutexHeldOnce, Critical, queueVars
    <2>3. CASE Close
      BY <1>1, <2>3 DEF Close, TypeOK, CheckFinds, MutexHeldOnce, queueVars, workVars
    <2>4. CASE UNCHANGED vars
      BY <1>1, <2>4 DEF vars, TypeOK, CheckFinds, MutexHeldOnce, queueVars, workVars, stopVars
    <2> QED BY <2>1, <2>2, <2>3, <2>4 DEF Stop
  <1>3. UNCHANGED <<net, socket, held, queue, msg, served>>
    BY DEF Stop, SetStop, NotifyAll, Close, vars, queueVars, workVars
  <1> QED BY <1>2, <1>3, StillThere, OneCopyParts

----------------------------------------------------------------------------
\* The strengthened invariant: types, one copy of each datagram, and that a
\* worker the stop did not wake has found a message.
THEOREM PoolInvariant == Spec => []IInv
  <1>1. IInv /\ [Next]_vars => IInv'
    BY ReceiverInv, WorkerInv, StopInv DEF Next
  <1> QED BY <1>1, InitInv, PTL DEF Spec

\* Type correctness, and that no worker reads the front of an empty queue.
THEOREM PoolTypeCorrect == Spec => []TypeOK
  <1>1. IInv => TypeOK
    BY DEF IInv
  <1> QED BY <1>1, PoolInvariant, PTL

\* With any number of workers, and stopped at any time, the pool loses no
\* datagram it was given and hands none to two workers or to one twice.
THEOREM NoDatagramTwice == Spec => []OneCopy
  <1>1. IInv => OneCopy
    BY DEF IInv
  <1> QED BY <1>1, PoolInvariant, PTL
=============================================================================
