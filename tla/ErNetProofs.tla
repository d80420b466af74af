---------------------------- MODULE ErNetProofs ----------------------------
(* Proofs about ErNet, for any number of clients, workers and attempts.    *)
EXTENDS ErNet, TLAPS

\* A busy worker holds a request; past decryption it holds a real key and text.
WorkerOK == \A w \in Worker :
    /\ pc[w] # "idle" => job[w] \in Request
    /\ pc[w] \in {"addEcho", "callback"} =>
         wkey[w] \in Session \cup {None} /\ plain[w] \in {"hello", "app", "noise"}

\* The cleaner erases one of the uids it collected.
CleanerOK == todel \subseteq reaped /\ (cpc # "sleep" => cur \in todel)

Shape == TypeOK /\ WorkerOK /\ CleanerOK

\* The session a client is at is one.
LEMMA SidIsSession ==
    ASSUME TypeOK, NEW c \in Client
    PROVE  Sid(c) \in Session
BY DEF TypeOK, Sid, Session

\* The initial state is well formed.
LEMMA InitShape == Init => Shape
BY ErNetAssumption DEF Init, Shape, TypeOK, WorkerOK, CleanerOK, Key, Answer, Request

\* Entering a phase keeps the client's variables well formed.
LEMMA EnterShape ==
    ASSUME TypeOK, NEW c \in Client, NEW p \in Handshake, NEW a \in 1..MaxAttempt, Enter(c, p, a)
    PROVE  /\ phase' \in [Client -> {"start", "rsa", "aes", "hello", "ready", "down", "crashed"}]
           /\ attempt' \in [Client -> 1..MaxAttempt]
           /\ tries' \in [Client -> 0..Retries]
           /\ reqs' \subseteq Request
<1>1. PhaseRequest(p, <<c, a>>) \in Request
  BY DEF PhaseRequest, Request, Handshake, Session
<1>2. QED BY <1>1, ErNetAssumption DEF TypeOK, Enter, Handshake

\* So does giving an attempt up: the loop never counts past MaxAttempt.
LEMMA AttemptFailsShape ==
    ASSUME TypeOK, NEW c \in Client, AttemptFails(c)
    PROVE  /\ phase' \in [Client -> {"start", "rsa", "aes", "hello", "ready", "down", "crashed"}]
           /\ attempt' \in [Client -> 1..MaxAttempt]
           /\ tries' \in [Client -> 0..Retries]
           /\ reqs' \subseteq Request
<1>1. CASE attempt[c] < MaxAttempt /\ Enter(c, "rsa", attempt[c] + 1)
  <2>1. attempt[c] + 1 \in 1..MaxAttempt
    BY <1>1, ErNetAssumption DEF TypeOK
  <2>2. QED BY <1>1, <2>1, EnterShape DEF Handshake
<1>2. CASE attempt[c] = MaxAttempt /\ phase' = [phase EXCEPT ![c] = "down"]
           /\ UNCHANGED <<attempt, tries, reqs>>
  BY <1>2 DEF TypeOK
<1>3. QED BY <1>1, <1>2 DEF AttemptFails

\* And so does a try without an answer.
LEMMA UnansweredShape ==
    ASSUME TypeOK, NEW c \in Client, phase[c] \in Handshake, Unanswered(c)
    PROVE  /\ phase' \in [Client -> {"start", "rsa", "aes", "hello", "ready", "down", "crashed"}]
           /\ attempt' \in [Client -> 1..MaxAttempt]
           /\ tries' \in [Client -> 0..Retries]
           /\ reqs' \subseteq Request
<1>1. CASE AttemptFails(c)
  BY <1>1, AttemptFailsShape
<1>2. CASE /\ tries[c] < Retries
           /\ tries' = [tries EXCEPT ![c] = @ + 1]
           /\ reqs' = reqs \cup {PhaseRequest(phase[c], Sid(c))}
           /\ UNCHANGED <<phase, attempt>>
  <2>1. PhaseRequest(phase[c], Sid(c)) \in Request
    BY SidIsSession DEF PhaseRequest, Request, Handshake
  <2>2. tries' \in [Client -> 0..Retries]
    BY <1>2, ErNetAssumption DEF TypeOK
  <2>3. QED BY <1>2, <2>1, <2>2 DEF TypeOK
<1>3. QED BY <1>1, <1>2 DEF Unanswered

\* Every step of a client keeps the state well formed.
LEMMA ClientShape ==
    ASSUME Shape, NEW c \in Client, ClientStep(c)
    PROVE  Shape'
<1>1. CASE Begin(c)
  BY <1>1, EnterShape, ErNetAssumption DEF Begin, Shape, TypeOK, WorkerOK, CleanerOK, Handshake,
     workerVars, tableVars, cleanVars, Key
<1>2. CASE Accept(c)
  <2>1. PICK r \in resps : /\ resps' = Consume(resps, r)
                           /\ \/ Advance(c)
                              \/ AttemptFails(c) /\ UNCHANGED ckey
    BY <1>2 DEF Accept
  <2>2. /\ phase' \in [Client -> {"start", "rsa", "aes", "hello", "ready", "down", "crashed"}]
        /\ attempt' \in [Client -> 1..MaxAttempt]
        /\ tries' \in [Client -> 0..Retries]
        /\ reqs' \subseteq Request
        /\ ckey' \in [Client -> Session \cup {None}]
    <3>1. CASE Advance(c)
      BY <3>1, EnterShape, SidIsSession DEF Advance, Shape, TypeOK, Handshake
    <3>2. CASE AttemptFails(c) /\ UNCHANGED ckey
      BY <3>2, AttemptFailsShape DEF Shape, TypeOK
    <3>3. QED BY <2>1, <3>1, <3>2
  <2>3. resps' \subseteq Answer
    BY <2>1 DEF Consume, Shape, TypeOK
  <2>4. QED
    BY <1>2, <2>2, <2>3 DEF Accept, Shape, TypeOK, WorkerOK, CleanerOK, workerVars, tableVars, cleanVars, Key
<1>3. CASE Repeat(c)
  <2>1. resps' \subseteq Answer /\ tries' \in [Client -> 0..Retries]
    BY <1>3, ErNetAssumption DEF Repeat, Consume, Shape, TypeOK
  <2>2. QED
    BY <1>3, <2>1 DEF Repeat, Shape, TypeOK, WorkerOK, CleanerOK, workerVars, tableVars, cleanVars, Key
<1>4. CASE SendAgain(c)
  <2>1. phase[c] \in Handshake /\ attempt[c] \in 1..MaxAttempt
    BY <1>4 DEF SendAgain, Repeating, Shape, TypeOK
  <2>2. QED
    BY <1>4, <2>1, EnterShape DEF SendAgain, Shape, TypeOK, WorkerOK, CleanerOK, workerVars,
       tableVars, cleanVars, Key
<1>5. CASE Damaged(c) \/ Timeout(c)
  <2>1. phase[c] \in Handshake /\ (Unanswered(c) \/ AttemptFails(c))
    BY <1>5 DEF Damaged, Timeout, Listening
  <2>2. /\ phase' \in [Client -> {"start", "rsa", "aes", "hello", "ready", "down", "crashed"}]
        /\ attempt' \in [Client -> 1..MaxAttempt]
        /\ tries' \in [Client -> 0..Retries]
        /\ reqs' \subseteq Request
    BY <2>1, UnansweredShape, AttemptFailsShape DEF Shape
  <2>3. resps' \subseteq Answer
    BY <1>5 DEF Damaged, Timeout, Consume, Shape, TypeOK
  <2>4. QED
    BY <1>5, <2>2, <2>3 DEF Damaged, Timeout, Shape, TypeOK, WorkerOK, CleanerOK, workerVars,
       tableVars, cleanVars, Key
<1>6. CASE Send(c)
  <2>1. ckey[c] # None => [kind |-> "app", uid |-> Sid(c), key |-> ckey[c]] \in Request
    BY SidIsSession DEF Shape, TypeOK, Request
  <2>2. QED
    BY <1>6, <2>1 DEF Send, Shape, TypeOK, WorkerOK, CleanerOK, workerVars, tableVars, cleanVars, Key
<1>7. QED BY <1>1, <1>2, <1>3, <1>4, <1>5, <1>6 DEF ClientStep, Recv

\* The answer a handler sends is a well-formed one, to a real client.
LEMMA ReplyShape ==
    ASSUME Shape, NEW w \in Worker, pc[w] # "idle",
           NEW text \in {"rsa-reg-ok", "error", "aes-reg-ok", "echo hello", "rejected", "reply"},
           NEW key \in Session \cup {None}, Reply(w, text, key)
    PROVE  /\ resps' \subseteq Answer
           /\ pc' = [pc EXCEPT ![w] = "idle"] /\ job' = [job EXCEPT ![w] = NoJob]
           /\ wkey' = [wkey EXCEPT ![w] = None] /\ plain' = [plain EXCEPT ![w] = "fail"]
<1>1. job[w].uid[1] \in Client
  BY DEF Shape, WorkerOK, Request, Session
<1>2. [to |-> job[w].uid[1], text |-> text, key |-> key] \in Answer
  BY <1>1 DEF Answer
<1>3. QED
  BY <1>2 DEF Reply, Goto, Shape, TypeOK

\* A worker that goes idle leaves the workers' variables well formed.
LEMMA IdleShape ==
    ASSUME Shape, NEW w \in Worker,
           pc' = [pc EXCEPT ![w] = "idle"], job' = [job EXCEPT ![w] = NoJob],
           wkey' = [wkey EXCEPT ![w] = None], plain' = [plain EXCEPT ![w] = "fail"]
    PROVE  /\ pc' \in [Worker -> {"idle", "publics", "addPublic", "aes", "addAes", "getKey",
                                 "decrypt", "addEcho", "callback"}]
           /\ job' \in [Worker -> Request \cup {NoJob}]
           /\ wkey' \in [Worker -> Key]
           /\ plain' \in [Worker -> {"fail", "hello", "app", "noise"}]
           /\ WorkerOK'
<1>1. /\ job' \in [Worker -> Request \cup {NoJob}]
      /\ wkey' \in [Worker -> Key]
      /\ plain' \in [Worker -> {"fail", "hello", "app", "noise"}]
      /\ pc' \in [Worker -> {"idle", "publics", "addPublic", "aes", "addAes", "getKey",
                            "decrypt", "addEcho", "callback"}]
  BY DEF Shape, TypeOK, Key
<1>2. ASSUME NEW v \in Worker
      PROVE  /\ pc'[v] # "idle" => job'[v] \in Request
             /\ pc'[v] \in {"addEcho", "callback"} =>
                  wkey'[v] \in Session \cup {None} /\ plain'[v] \in {"hello", "app", "noise"}
  <2>1. CASE v = w
    BY <2>1 DEF Shape, TypeOK
  <2>2. CASE v # w
    BY <2>2 DEF Shape, TypeOK, WorkerOK
  <2>3. QED BY <2>1, <2>2
<1>3. QED BY <1>1, <1>2 DEF WorkerOK

AnswerText == {"rsa-reg-ok", "error", "aes-reg-ok", "echo hello", "rejected", "reply"}

\* What a handler that has answered leaves behind.
Replied ==
    /\ resps' \subseteq Answer
    /\ pc' \in [Worker -> {"idle", "publics", "addPublic", "aes", "addAes", "getKey",
                          "decrypt", "addEcho", "callback"}]
    /\ job' \in [Worker -> Request \cup {NoJob}]
    /\ wkey' \in [Worker -> Key]
    /\ plain' \in [Worker -> {"fail", "hello", "app", "noise"}]
    /\ WorkerOK'

\* Both facts together.
LEMMA RepliedShape ==
    ASSUME Shape, NEW w \in Worker, pc[w] # "idle",
           NEW text \in AnswerText, NEW key \in Session \cup {None}, Reply(w, text, key)
    PROVE  Replied
<1>1. /\ resps' \subseteq Answer
      /\ pc' = [pc EXCEPT ![w] = "idle"] /\ job' = [job EXCEPT ![w] = NoJob]
      /\ wkey' = [wkey EXCEPT ![w] = None] /\ plain' = [plain EXCEPT ![w] = "fail"]
  BY ReplyShape DEF AnswerText
<1>2. QED BY <1>1, IdleShape DEF Replied

\* Every step of a worker keeps the state well formed.
LEMMA WorkerShape ==
    ASSUME Shape, NEW w \in Worker, WorkerStep(w)
    PROVE  Shape'
<1> USE DEF Shape, TypeOK, WorkerOK, CleanerOK
<1> DEFINE u == job[w].uid
<1>0. pc[w] # "idle" => u \in Session /\ job[w].key \in Session
  BY DEF Request
<1>1. CASE Receive(w)
  <2>1. PICK c \in Client, m \in reqs :
          /\ pc[w] = "idle"
          /\ reqs' = Consume(reqs, m)
          /\ job' = [job EXCEPT ![w] = m]
          /\ active' = Stamp(m.uid)
          /\ Goto(w, "publics")
          /\ UNCHANGED <<clientVars, resps, publics, aesKey, echo, wkey, plain, cleanVars, heard, alive>>
    BY <1>1 DEF Receive, ReceiveFrom
  <2>2. m \in Request /\ m.uid \in Session
    BY DEF Request
  <2>3. reqs' \subseteq Request /\ active' \subseteq Session
    BY <2>1, <2>2 DEF Consume, Stamp
  <2>4. QED BY <2>1, <2>2, <2>3 DEF Goto, clientVars, cleanVars
<1>2. CASE ReceiveCorrupted(w)
  <2>1. \A m \in reqs : [to |-> m.uid[1], text |-> "error", key |-> None] \in Answer
    BY ZenonT(60) DEF Answer, Request, Session
  <2>2. QED BY <1>2, <2>1 DEF ReceiveCorrupted, clientVars, tableVars, workerVars, cleanVars
<1>3. CASE CheckPublics(w)
  BY <1>3 DEF CheckPublics, Goto, clientVars, tableVars, cleanVars
<1>4. CASE AddPublic(w)
  <2>1. publics' \in [Session -> {"none", "key", "junk"}]
    BY <1>4, <1>0 DEF AddPublic
  <2>2. Reply(w, "rsa-reg-ok", None) /\ pc[w] # "idle"
    BY <1>4 DEF AddPublic
  <2>3. Replied
    BY <2>2, RepliedShape DEF AnswerText
  <2>4. QED BY <1>4, <2>1, <2>3 DEF Replied, AddPublic, clientVars, cleanVars
<1>5. CASE CheckAes(w)
  BY <1>5 DEF CheckAes, Goto, clientVars, tableVars, cleanVars
<1>6. CASE AddAes(w)
  <2>1. publics' \in [Session -> {"none", "key", "junk"}]
    BY <1>6, <1>0 DEF AddAes
  <2>2. /\ aesKey' \in [Session -> Key]
        /\ \E text \in AnswerText, key \in Session \cup {None} : Reply(w, text, key)
    BY <1>6, <1>0 DEF AddAes, Key, AnswerText
  <2>3. pc[w] # "idle"
    BY <1>6 DEF AddAes
  <2>4. Replied
    <3> HIDE DEF Shape
    <3>1. QED BY <2>2, <2>3, RepliedShape
  <2>5. QED BY <1>6, <2>1, <2>2, <2>4 DEF Replied, AddAes, clientVars, cleanVars
<1>7. CASE GetKey(w)
  <2>1. aesKey' \in [Session -> Key]
    BY <1>7, <1>0 DEF GetKey, Key
  <2>2. wkey' \in [Worker -> Key]
    BY <1>7, <1>0, <2>1 DEF GetKey
  <2>3. QED BY <1>7, <2>1, <2>2 DEF GetKey, Goto, clientVars, cleanVars
<1>8. CASE Crash(w)
  BY <1>8 DEF Crash, clientVars, tableVars, workerVars, cleanVars
<1>9. CASE Decrypt(w)
  <2>1. PICK d \in Decrypted(job[w], wkey[w]) :
          \/ d = "fail" /\ Reply(w, "error", None)
          \/ d # "fail" /\ echo[u] = "no" /\ Reply(w, "rejected", wkey[w])
          \/ /\ d # "fail" /\ echo[u] # "no"
             /\ Goto(w, IF echo[u] = "none" THEN "addEcho" ELSE "callback")
             /\ plain' = [plain EXCEPT ![w] = d]
             /\ UNCHANGED <<job, wkey, resps>>
    BY <1>9 DEF Decrypt
  <2>2. d \in {"fail", "hello", "app", "noise"}
    BY DEF Decrypted
  <2>3. d # "fail" => wkey[w] \in Session \cup {None}
    BY <1>9 DEF Decrypt, Decrypted, Key
  <2>4. CASE \E text \in {"error", "rejected"}, key \in Session \cup {None} : Reply(w, text, key)
    <3>1. Replied
      <4> HIDE DEF Shape
      <4>1. pc[w] # "idle"
        BY <1>9 DEF Decrypt
      <4>2. QED BY <2>4, <4>1, RepliedShape DEF AnswerText
    <3>2. QED BY <1>9, <3>1 DEF Replied, Decrypt, clientVars, tableVars, cleanVars
  <2>5. CASE /\ d # "fail" /\ echo[u] # "no"
             /\ Goto(w, IF echo[u] = "none" THEN "addEcho" ELSE "callback")
             /\ plain' = [plain EXCEPT ![w] = d]
             /\ UNCHANGED <<job, wkey, resps>>
    BY <1>9, <2>2, <2>3, <2>5 DEF Decrypt, Goto, clientVars, tableVars, cleanVars
  <2>6. QED BY <2>1, <2>3, <2>4, <2>5
<1>10. CASE AddEcho(w)
  <2>1. echo' \in [Session -> {"none", "yes", "no"}]
    BY <1>10, <1>0 DEF AddEcho
  <2>2. \E text \in {"echo hello", "rejected"} : Reply(w, text, wkey[w])
    BY <1>10 DEF AddEcho
  <2>3. Replied
    BY <1>10, <2>2, RepliedShape DEF AddEcho, AnswerText
  <2>4. heard' \in [Session -> SUBSET {"hello", "app", "noise"}]
    BY <1>10, <1>0 DEF AddEcho
  <2>5. QED BY <1>10, <2>1, <2>3, <2>4 DEF Replied, AddEcho, clientVars, cleanVars
<1>11. CASE Callback(w)
  <2>1. /\ \E text \in AnswerText, key \in Session \cup {None} : Reply(w, text, key)
        /\ pc[w] # "idle"
    BY <1>11 DEF Callback, AnswerText
  <2>2. Replied
    <3> HIDE DEF Shape
    <3>1. QED BY <2>1, RepliedShape
  <2>3. QED BY <1>11, <2>2 DEF Replied, Callback, clientVars, tableVars, cleanVars
<1>12. QED
  BY <1>1, <1>2, <1>3, <1>4, <1>5, <1>6, <1>7, <1>8, <1>9, <1>10, <1>11 DEF WorkerStep, Serve

\* Every step of the cleaner keeps the state well formed.
LEMMA CleanShape ==
    ASSUME Shape, Clean
    PROVE  Shape'
<1> USE DEF Shape, TypeOK, WorkerOK, CleanerOK
<1>1. CASE Collect
  <2>1. PICK S \in SUBSET active : /\ ticks < MaxTicks /\ ticks' = ticks + 1
                                  /\ todel' = S /\ reaped' = reaped \cup S
                                  /\ cur' \in S /\ cpc' = "publics"
    BY <1>1 DEF Collect
  <2>2. ticks' \in 0..MaxTicks
    BY <2>1, ErNetAssumption
  <2>3. QED BY <1>1, <2>1, <2>2 DEF Collect, clientVars, tableVars, workerVars
<1>2. CASE ErasePublic
  BY <1>2 DEF ErasePublic, clientVars, workerVars
<1>3. CASE EraseAes
  BY <1>3 DEF EraseAes, clientVars, workerVars, Key
<1>4. CASE EraseEcho
  BY <1>4 DEF EraseEcho, clientVars, workerVars
<1>5. CASE EraseActive
  BY <1>5 DEF EraseActive, clientVars, workerVars
<1>6. QED BY <1>1, <1>2, <1>3, <1>4, <1>5 DEF Clean

\* The state has the shape the handlers rely on: records, keys and lists are
\* well formed, a busy worker holds a request, the cleaner a collected uid.
THEOREM ShapeInvariant == Spec => []Shape
<1>1. Shape /\ [Next]_vars => Shape'
  <2> SUFFICES ASSUME Shape, [Next]_vars PROVE Shape'
    OBVIOUS
  <2>1. CASE \E c \in Client : ClientStep(c)
    BY <2>1, ClientShape
  <2>2. CASE \E w \in Worker : WorkerStep(w)
    BY <2>2, WorkerShape
  <2>3. CASE Clean
    BY <2>3, CleanShape
  <2>4. CASE UNCHANGED vars
    BY <2>4 DEF vars, clientVars, tableVars, workerVars, cleanVars, Shape, TypeOK, WorkerOK, CleanerOK
  <2>5. QED BY <2>1, <2>2, <2>3, <2>4 DEF Next
<1>2. QED BY InitShape, <1>1, PTL DEF Spec

\* The type invariant of the encrypted layer.
THEOREM TypeCorrect == Spec => []TypeOK
<1>1. Shape => TypeOK
  BY DEF Shape
<1>2. QED BY ShapeInvariant, <1>1, PTL
----------------------------------------------------------------------------
(* Key agreement.  What a handshake request carries as key is its own uid's,*)
(* so the tables never mix sessions; an acknowledged key is in the table, and*)
(* stays there until the cleaner comes; so does a key some worker has seen. *)

Held(u) == u \in reaped \/ aesKey[u] = u

Authentic ==
    /\ \A m \in reqs : m.kind \in Handshake => m.key = m.uid
    /\ \A w \in Worker : job[w].kind \in Handshake => job[w].key = job[w].uid
OwnKey == \A u \in Session :
    aesKey[u] \in {None, Empty, u} /\ (aesKey[u] = Empty => u \in reaped)
Acknowledged == \A r \in resps : r.text = "aes-reg-ok" => r.key \in Session /\ Held(r.key)
Agreed == \A c \in Client :
    /\ phase[c] \in {"aes", "hello", "ready"} => ckey[c] = Sid(c)
    /\ phase[c] \in {"hello", "ready"} => Held(Sid(c))
SeenKey == \A w \in Worker :
    /\ pc[w] = "getKey" => aesKey[job[w].uid] # None \/ job[w].uid \in reaped
    /\ wkey[w] = Empty => reaped # {}
TrackedJob == \A w \in Worker : pc[w] # "idle" => job[w].uid \in active \cup reaped

SessionInv ==
    /\ Shape
    /\ Authentic /\ OwnKey /\ Acknowledged /\ Agreed
    /\ SeenKey /\ TrackedJob /\ TrackedUntilReaped /\ CrashOnlyByReaping

\* The invariant holds at the start.
LEMMA InitSession == Init => SessionInv
BY InitShape, ErNetAssumption
   DEF Init, SessionInv, Authentic, OwnKey, Acknowledged, Agreed, SeenKey, TrackedJob,
       TrackedUntilReaped, CrashOnlyByReaping, Handshake, NoJob

\* What a step of client c may change of what the others rely on.
LEMMA ClientEffect ==
    ASSUME Shape, NEW c \in Client, ClientStep(c)
    PROVE  /\ UNCHANGED <<publics, aesKey, echo, active, heard, pc, job, wkey, reaped, alive>>
           /\ resps' \subseteq resps
           /\ \A m \in reqs' \ reqs : m.kind \in Handshake => m.key = m.uid
           /\ \A d \in Client \ {c} :
                phase'[d] = phase[d] /\ attempt'[d] = attempt[d] /\ ckey'[d] = ckey[d]
<1> USE DEF PhaseRequest, Enter, Shape, TypeOK, tableVars, workerVars, cleanVars
<1>1. CASE Begin(c)
  BY <1>1 DEF Begin
<1>2. CASE Accept(c)
  BY <1>2 DEF Accept, Consume, Advance, AttemptFails
<1>3. CASE Repeat(c)
  BY <1>3 DEF Repeat, Consume
<1>4. CASE SendAgain(c)
  BY <1>4 DEF SendAgain
<1>5. CASE Damaged(c) \/ Timeout(c)
  BY <1>5 DEF Damaged, Timeout, Unanswered, AttemptFails, Consume
<1>6. CASE Send(c)
  BY <1>6 DEF Send, Handshake
<1>7. QED BY <1>1, <1>2, <1>3, <1>4, <1>5, <1>6 DEF ClientStep, Recv

\* A client moves past "aes" only on the server's word that it has the key.
LEMMA ClientAgreed ==
    ASSUME SessionInv, NEW c \in Client, ClientStep(c)
    PROVE  /\ phase'[c] \in {"aes", "hello", "ready"} => ckey'[c] = Sid(c)'
           /\ phase'[c] \in {"hello", "ready"} => Held(Sid(c)')
<1> USE DEF SessionInv, Shape, TypeOK, Sid
<1>1. CASE Begin(c)
  BY <1>1 DEF Begin, Enter
<1>2. CASE Accept(c)
  <2>1. PICK r \in resps : /\ r.to = c
                           /\ IF Expected(c, r) THEN Advance(c) ELSE AttemptFails(c) /\ UNCHANGED ckey
    BY <1>2 DEF Accept
  <2>2. CASE AttemptFails(c)
    BY <2>2 DEF AttemptFails, Enter
  <2>3. CASE Expected(c, r) /\ Advance(c)
    <3>1. CASE phase[c] = "rsa"
      BY <2>3, <3>1 DEF Advance, Enter
    <3>2. CASE phase[c] = "aes"
      <4>1. r.text = "aes-reg-ok" /\ r.key = ckey[c] /\ ckey[c] = Sid(c)
        BY <2>3, <3>2 DEF Expected, Agreed
      <4>2. Held(Sid(c))
        BY <4>1 DEF Acknowledged
      <4>3. QED BY <2>3, <3>2, <4>1, <4>2 DEF Advance, Enter
    <3>3. CASE phase[c] = "hello"
      BY <2>3, <3>3 DEF Advance, Agreed
    <3>4. QED BY <2>3, <3>1, <3>2, <3>3 DEF Advance
  <2>4. QED BY <2>1, <2>2, <2>3
<1>3. CASE Repeat(c)
  BY <1>3 DEF Repeat, Agreed
<1>4. CASE SendAgain(c)
  BY <1>4 DEF SendAgain, Enter, Agreed
<1>5. CASE Damaged(c) \/ Timeout(c)
  BY <1>5 DEF Damaged, Timeout, Unanswered, AttemptFails, Enter, Agreed
<1>6. CASE Send(c)
  BY <1>6 DEF Send, Agreed
<1>7. QED BY <1>1, <1>2, <1>3, <1>4, <1>5, <1>6 DEF ClientStep, Recv

\* The steps of the clients keep the invariant.
LEMMA ClientSession ==
    ASSUME SessionInv, NEW c \in Client, ClientStep(c)
    PROVE  SessionInv'
<1>1. Shape /\ Shape'
  BY ClientShape DEF SessionInv
<1>2. /\ UNCHANGED <<publics, aesKey, echo, active, pc, job, wkey, reaped, alive>>
      /\ resps' \subseteq resps
      /\ \A m \in reqs' \ reqs : m.kind \in Handshake => m.key = m.uid
      /\ \A d \in Client \ {c} :
           phase'[d] = phase[d] /\ attempt'[d] = attempt[d] /\ ckey'[d] = ckey[d]
  BY <1>1, ClientEffect
<1>3. Authentic'
  BY <1>2 DEF SessionInv, Authentic
<1>4. OwnKey' /\ SeenKey' /\ TrackedJob' /\ TrackedUntilReaped' /\ CrashOnlyByReaping'
  BY <1>2 DEF SessionInv, OwnKey, SeenKey, TrackedJob, TrackedUntilReaped, CrashOnlyByReaping
<1>5. Acknowledged'
  BY <1>2 DEF SessionInv, Acknowledged, Held
<1>6. Agreed'
  <2>1. SUFFICES ASSUME NEW d \in Client
                 PROVE  /\ phase'[d] \in {"aes", "hello", "ready"} => ckey'[d] = Sid(d)'
                        /\ phase'[d] \in {"hello", "ready"} => Held(Sid(d))'
    BY DEF Agreed
  <2>2. CASE d = c
    BY <1>2, <2>2, ClientAgreed DEF Held
  <2>3. CASE d # c
    BY <1>2, <2>3 DEF SessionInv, Agreed, Sid, Held
  <2>4. QED BY <2>2, <2>3
<1>7. QED BY <1>1, <1>3, <1>4, <1>5, <1>6 DEF SessionInv

\* A worker that answers: its own locals are gone, the others' untouched.
LEMMA ReplySession ==
    ASSUME Shape, Authentic, NEW w \in Worker, pc[w] # "idle",
           NEW text \in AnswerText, NEW key \in Session \cup {None}, Reply(w, text, key)
    PROVE  /\ \A v \in Worker : job'[v].kind \in Handshake => job'[v].key = job'[v].uid
           /\ \A v \in Worker : pc'[v] # "idle" =>
                v # w /\ pc'[v] = pc[v] /\ job'[v] = job[v] /\ wkey'[v] = wkey[v]
           /\ \A v \in Worker : wkey'[v] = Empty => wkey[v] = Empty
           /\ \A r \in resps' \ resps : r.text = text /\ r.key = key
<1>1. /\ pc' = [pc EXCEPT ![w] = "idle"] /\ job' = [job EXCEPT ![w] = NoJob]
      /\ wkey' = [wkey EXCEPT ![w] = None]
      /\ resps' = resps \cup {[to |-> job[w].uid[1], text |-> text, key |-> key]}
  BY DEF Reply, Goto
<1>2. QED BY <1>1, ErNetAssumption DEF Shape, TypeOK, Authentic, NoJob, Handshake

\* An answer that acknowledges no key breaks nothing, if the tables stand.
LEMMA PlainReplySession ==
    ASSUME SessionInv, Shape', NEW w \in Worker, pc[w] # "idle",
           NEW text \in AnswerText \ {"aes-reg-ok"}, NEW key \in Session \cup {None},
           Reply(w, text, key),
           UNCHANGED <<clientVars, reqs, aesKey, active, cleanVars, alive>>,
           TrackedUntilReaped'
    PROVE  SessionInv'
<1>0. Shape /\ Authentic /\ text \in AnswerText /\ text # "aes-reg-ok"
  BY DEF SessionInv
<1>1. /\ \A v \in Worker : job'[v].kind \in Handshake => job'[v].key = job'[v].uid
      /\ \A v \in Worker : pc'[v] # "idle" =>
           v # w /\ pc'[v] = pc[v] /\ job'[v] = job[v] /\ wkey'[v] = wkey[v]
      /\ \A v \in Worker : wkey'[v] = Empty => wkey[v] = Empty
      /\ \A r \in resps' \ resps : r.text = text
  BY <1>0, ReplySession
<1> USE DEF SessionInv, clientVars, cleanVars
<1>2. Authentic'
  BY <1>1 DEF Authentic
<1>3. OwnKey' /\ CrashOnlyByReaping'
  BY DEF OwnKey, CrashOnlyByReaping
<1>4. Acknowledged'
  BY <1>0, <1>1 DEF Acknowledged, Held
<1>5. Agreed'
  BY DEF Agreed, Held, Sid
<1>6. SeenKey' /\ TrackedJob'
  BY <1>1 DEF SeenKey, TrackedJob
<1>7. QED BY <1>2, <1>3, <1>4, <1>5, <1>6

\* The steps of the workers keep it, gaps between locks included.
LEMMA WorkerSession ==
    ASSUME SessionInv, NEW w \in Worker, WorkerStep(w)
    PROVE  SessionInv'
<1> DEFINE u == job[w].uid
<1>1. Shape /\ Shape'
  BY WorkerShape DEF SessionInv
<1>2. pc[w] # "idle" => u \in Session /\ job[w].key \in Session /\ u \in active \cup reaped
  BY DEF SessionInv, Shape, TypeOK, WorkerOK, Request, TrackedJob
<1>3. CASE Receive(w)
  <2>1. PICK m \in reqs :
          /\ reqs' \subseteq reqs
          /\ job' = [job EXCEPT ![w] = m]
          /\ active' = active \cup {m.uid}
          /\ pc' = [pc EXCEPT ![w] = "publics"]
          /\ UNCHANGED <<clientVars, resps, publics, aesKey, echo, wkey, plain, cleanVars, heard, alive>>
    BY <1>3 DEF Receive, ReceiveFrom, Goto, Stamp, Consume
  <2>2. Authentic'
    BY <1>1, <2>1 DEF SessionInv, Authentic, Shape, TypeOK
  <2>3. OwnKey' /\ Acknowledged' /\ Agreed' /\ CrashOnlyByReaping'
    BY <2>1 DEF SessionInv, OwnKey, Acknowledged, Agreed, CrashOnlyByReaping, Held, Sid,
       clientVars, cleanVars
  <2>4. SeenKey' /\ TrackedJob' /\ TrackedUntilReaped'
    BY <1>1, <2>1 DEF SessionInv, SeenKey, TrackedJob, TrackedUntilReaped, cleanVars, Shape, TypeOK
  <2>5. QED BY <1>1, <2>2, <2>3, <2>4 DEF SessionInv
<1>4. CASE ReceiveCorrupted(w)
  <2>1. \A r \in resps' \ resps : r.text = "error"
    BY <1>4 DEF ReceiveCorrupted
  <2>2. Acknowledged'
    BY <1>4, <2>1 DEF ReceiveCorrupted, SessionInv, Acknowledged, Held, tableVars, cleanVars
  <2>3. QED
    BY <1>1, <1>4, <2>2 DEF ReceiveCorrupted, SessionInv, Authentic, OwnKey, Agreed, SeenKey,
       TrackedJob, TrackedUntilReaped, CrashOnlyByReaping, Held, Sid, clientVars, tableVars,
       workerVars, cleanVars
<1>5. CASE CheckPublics(w) \/ CheckAes(w)
  <2>1. /\ \A v \in Worker : pc'[v] # "idle" => pc[v] # "idle"
        /\ \A v \in Worker : pc'[v] = "getKey" => pc[v] = "getKey" \/ aesKey[job[v].uid] # None
        /\ UNCHANGED <<clientVars, reqs, resps, tableVars, job, wkey, cleanVars, alive>>
    BY <1>1, <1>5 DEF CheckPublics, CheckAes, Goto, HasAes, Shape, TypeOK
  <2>2. QED
    BY <1>1, <2>1 DEF SessionInv, Authentic, OwnKey, Acknowledged, Agreed, SeenKey,
       TrackedJob, TrackedUntilReaped, CrashOnlyByReaping, Held, Sid, clientVars, tableVars, cleanVars
<1>6. CASE AddPublic(w)
  <2>1. TrackedUntilReaped'
    BY <1>1, <1>2, <1>6 DEF AddPublic, SessionInv, TrackedUntilReaped, cleanVars, Shape, TypeOK
  <2>2. QED
    BY <1>1, <1>6, <2>1, PlainReplySession DEF AddPublic, AnswerText
<1>7. CASE AddAes(w)
  <2>1. TrackedUntilReaped'
    BY <1>1, <1>2, <1>7 DEF AddAes, SessionInv, TrackedUntilReaped, cleanVars, Shape, TypeOK
  <2>2. CASE Reply(w, "error", None) /\ UNCHANGED aesKey
    BY <1>1, <1>7, <2>1, <2>2, PlainReplySession DEF AddAes, AnswerText
  <2>3. CASE /\ job[w].kind = "aes"
             /\ aesKey' = [aesKey EXCEPT ![u] = job[w].key]
             /\ Reply(w, "aes-reg-ok", job[w].key)
    <3>1. job[w].key = u /\ u \in Session /\ pc[w] # "idle"
      BY <1>2, <1>7, <2>3 DEF AddAes, SessionInv, Authentic, Handshake
    <3>2. aesKey' = [aesKey EXCEPT ![u] = u]
      BY <2>3, <3>1
    <3>3. /\ \A v \in Worker : job'[v].kind \in Handshake => job'[v].key = job'[v].uid
          /\ \A v \in Worker : pc'[v] # "idle" =>
               v # w /\ pc'[v] = pc[v] /\ job'[v] = job[v] /\ wkey'[v] = wkey[v]
          /\ \A v \in Worker : wkey'[v] = Empty => wkey[v] = Empty
          /\ \A r \in resps' \ resps : r.key = u
      <4>1. Authentic /\ "aes-reg-ok" \in AnswerText /\ job[w].key \in Session \cup {None}
        BY <3>1 DEF SessionInv, AnswerText
      <4>2. \A r \in resps' \ resps : r.key = job[w].key
        BY <1>1, <2>3, <3>1, <4>1, ReplySession
      <4>3. QED BY <1>1, <2>3, <3>1, <4>1, <4>2, ReplySession
    <3>4. UNCHANGED <<clientVars, reqs, active, cleanVars, alive>>
      BY <1>7 DEF AddAes
    <3>5. \A s \in Session : Held(s) => Held(s)'
      BY <1>1, <3>2, <3>4 DEF Held, cleanVars, Shape, TypeOK
    <3>6. Authentic'
      BY <3>3, <3>4 DEF SessionInv, Authentic
    <3>7. OwnKey' /\ CrashOnlyByReaping'
      BY <1>1, <3>1, <3>2, <3>4, ErNetAssumption
         DEF SessionInv, OwnKey, CrashOnlyByReaping, cleanVars, Shape, TypeOK
    <3>8. Acknowledged'
      BY <1>1, <3>1, <3>2, <3>3, <3>5 DEF SessionInv, Acknowledged, Held, Shape, TypeOK
    <3>9. Agreed'
      BY <1>1, <3>4, <3>5, SidIsSession DEF SessionInv, Agreed, Sid, clientVars, Shape
    <3>10. SeenKey' /\ TrackedJob'
      BY <1>1, <1>2, <3>1, <3>2, <3>3, <3>4, ErNetAssumption
         DEF SessionInv, SeenKey, TrackedJob, cleanVars, Shape, TypeOK
    <3>11. QED BY <1>1, <2>1, <3>6, <3>7, <3>8, <3>9, <3>10 DEF SessionInv
  <2>4. QED BY <1>7, <2>2, <2>3 DEF AddAes
<1>8. CASE GetKey(w)
  <2>1. /\ aesKey' = [aesKey EXCEPT ![u] = IF @ = None THEN Empty ELSE @]
        /\ wkey' = [wkey EXCEPT ![w] = aesKey'[u]]
        /\ pc' = [pc EXCEPT ![w] = "decrypt"]
        /\ pc[w] = "getKey"
        /\ UNCHANGED <<clientVars, reqs, resps, publics, echo, active, job, cleanVars, alive>>
    BY <1>8 DEF GetKey, Goto
  <2>2. u \in Session /\ (aesKey[u] = None => u \in reaped) /\ u \in active \cup reaped
    BY <1>2, <2>1 DEF SessionInv, SeenKey
  <2>3. OwnKey' /\ aesKey'[u] # None
    BY <1>1, <2>1, <2>2, ErNetAssumption DEF SessionInv, OwnKey, cleanVars, Shape, TypeOK
  <2>4. \A s \in Session : Held(s) => Held(s)'
    BY <1>1, <2>1, <2>2, ErNetAssumption DEF Held, cleanVars, Shape, TypeOK, Session
  <2>5. Acknowledged' /\ Agreed'
    BY <1>1, <2>1, <2>4, SidIsSession
       DEF SessionInv, Acknowledged, Agreed, Sid, clientVars, Shape
  <2>6. SeenKey'
    <3>1. wkey'[w] = Empty => reaped # {}
      BY <1>1, <2>1, <2>2, <2>3 DEF OwnKey, cleanVars, Shape, TypeOK
    <3>2. \A v \in Worker : pc'[v] = "getKey" =>
               /\ pc[v] = "getKey"
               /\ aesKey[job[v].uid] # None \/ job[v].uid \in reaped
      BY <1>1, <2>1 DEF SessionInv, SeenKey, Shape, TypeOK
    <3>3. \A s \in Session : aesKey[s] # None => aesKey'[s] # None
      BY <1>1, <2>1, <2>3, ErNetAssumption DEF Shape, TypeOK
    <3>4. \A v \in Worker : pc'[v] = "getKey" => job[v].uid \in Session
      BY <1>1, <2>1 DEF Shape, TypeOK, WorkerOK, Request
    <3>5. QED
      BY <1>1, <2>1, <3>1, <3>2, <3>3, <3>4 DEF SessionInv, SeenKey, cleanVars, Shape, TypeOK
  <2>7. TrackedJob' /\ TrackedUntilReaped' /\ CrashOnlyByReaping' /\ Authentic'
    BY <1>1, <2>1, <2>2 DEF SessionInv, TrackedJob, TrackedUntilReaped, CrashOnlyByReaping,
       Authentic, cleanVars, Shape, TypeOK
  <2>8. QED BY <1>1, <2>3, <2>5, <2>6, <2>7 DEF SessionInv
<1>9. CASE Crash(w)
  BY <1>1, <1>9 DEF Crash, SessionInv, Authentic, OwnKey, Acknowledged, Agreed, SeenKey,
     TrackedJob, TrackedUntilReaped, CrashOnlyByReaping, Held, Sid, clientVars, tableVars,
     workerVars, cleanVars
<1>10. CASE Decrypt(w)
  <2>1. PICK d \in Decrypted(job[w], wkey[w]) :
          \/ d = "fail" /\ Reply(w, "error", None)
          \/ d # "fail" /\ echo[u] = "no" /\ Reply(w, "rejected", wkey[w])
          \/ /\ d # "fail" /\ echo[u] # "no"
             /\ Goto(w, IF echo[u] = "none" THEN "addEcho" ELSE "callback")
             /\ UNCHANGED <<job, wkey, resps>>
    BY <1>10 DEF Decrypt
  <2>2. /\ pc[w] # "idle"
        /\ UNCHANGED <<clientVars, reqs, tableVars, cleanVars, heard, alive>>
    BY <1>10 DEF Decrypt
  <2>3. d # "fail" => wkey[w] \in Session \cup {None}
    BY <1>1, <1>10 DEF Decrypt, Decrypted, Key, Shape, TypeOK
  <2>4. TrackedUntilReaped'
    BY <2>2 DEF SessionInv, TrackedUntilReaped, tableVars, cleanVars
  <2>5. CASE \E text \in {"error", "rejected"}, key \in Session \cup {None} : Reply(w, text, key)
    <3>1. \E text \in AnswerText \ {"aes-reg-ok"}, key \in Session \cup {None} : Reply(w, text, key)
      BY <2>5 DEF AnswerText
    <3>2. UNCHANGED <<aesKey, active>>
      BY <2>2 DEF tableVars
    <3>3. QED BY <1>1, <2>2, <2>4, <3>1, <3>2, PlainReplySession
  <2>6. CASE /\ Goto(w, IF echo[u] = "none" THEN "addEcho" ELSE "callback")
             /\ UNCHANGED <<job, wkey, resps>>
    <3>1. \A v \in Worker : pc'[v] # "idle" => pc[v] # "idle"
      BY <1>1, <2>2, <2>6 DEF Goto, Shape, TypeOK
    <3>2. \A v \in Worker : pc'[v] = "getKey" => pc[v] = "getKey"
      BY <1>1, <2>2, <2>6 DEF Goto, Shape, TypeOK
    <3>3. QED
      BY <1>1, <2>2, <2>4, <2>6, <3>1, <3>2 DEF SessionInv, Authentic, OwnKey, Acknowledged, Agreed,
         SeenKey, TrackedJob, CrashOnlyByReaping, Held, Sid, clientVars, tableVars, cleanVars
  <2>7. QED BY <2>1, <2>3, <2>5, <2>6
<1>11. CASE AddEcho(w)
  <2>1. /\ pc[w] = "addEcho"
        /\ \E text \in AnswerText \ {"aes-reg-ok"} : Reply(w, text, wkey[w])
        /\ UNCHANGED <<clientVars, reqs, publics, aesKey, active, cleanVars, alive>>
    BY <1>11 DEF AddEcho, AnswerText
  <2>2. wkey[w] \in Session \cup {None}
    BY <1>1, <2>1 DEF Shape, WorkerOK
  <2>3. TrackedUntilReaped'
    <3>1. \E e \in {"yes", "no"} : echo' = [echo EXCEPT ![u] = e]
      BY <1>11 DEF AddEcho
    <3>2. u \in Session /\ u \in active \cup reaped
      BY <1>2, <2>1
    <3>3. \A s \in Session : echo'[s] # "none" => s = u \/ echo[s] # "none"
      BY <1>1, <3>1, <3>2 DEF Shape, TypeOK
    <3>4. QED BY <2>1, <3>2, <3>3 DEF SessionInv, TrackedUntilReaped, cleanVars
  <2>4. QED BY <1>1, <2>1, <2>2, <2>3, PlainReplySession
<1>12. CASE Callback(w)
  <2>1. /\ pc[w] = "callback"
        /\ Reply(w, "reply", wkey[w]) \/ Reply(w, "error", None)
        /\ UNCHANGED <<clientVars, reqs, tableVars, cleanVars, alive>>
    BY <1>12 DEF Callback
  <2>2. /\ pc[w] # "idle"
        /\ \E text \in AnswerText \ {"aes-reg-ok"}, key \in Session \cup {None} : Reply(w, text, key)
    BY <1>1, <2>1 DEF Shape, WorkerOK, AnswerText
  <2>3. TrackedUntilReaped' /\ UNCHANGED <<aesKey, active>>
    BY <2>1 DEF SessionInv, TrackedUntilReaped, tableVars, cleanVars
  <2>4. QED BY <1>1, <2>1, <2>2, <2>3, PlainReplySession
<1>13. QED
  BY <1>3, <1>4, <1>5, <1>6, <1>7, <1>8, <1>9, <1>10, <1>11, <1>12 DEF WorkerStep, Serve

\* The cleaner keeps it: what it erases it has first collected.
LEMMA CleanSession ==
    ASSUME SessionInv, Clean
    PROVE  SessionInv'
<1>1. Shape /\ Shape'
  BY CleanShape DEF SessionInv
<1>2. /\ UNCHANGED <<clientVars, reqs, resps, pc, job, wkey, alive>>
      /\ reaped \subseteq reaped'
      /\ \A s \in Session \ reaped : aesKey'[s] = aesKey[s]
      /\ \A s \in Session : aesKey'[s] \in {aesKey[s], None}
      /\ \A s \in Session : publics'[s] \in {publics[s], "none"} /\ echo'[s] \in {echo[s], "none"}
      /\ active \subseteq active' \cup reaped
  BY <1>1 DEF Clean, Collect, ErasePublic, EraseAes, EraseEcho, EraseActive, workerVars, tableVars,
     Shape, TypeOK, CleanerOK
<1>3. \A s \in Session : Held(s) => Held(s)'
  BY <1>2 DEF Held
<1>4. \A v \in Worker : pc[v] # "idle" => job[v].uid \in Session
  BY <1>1 DEF Shape, WorkerOK, Request
<1>5. Authentic' /\ CrashOnlyByReaping'
  BY <1>2 DEF SessionInv, Authentic, CrashOnlyByReaping
<1>6. OwnKey'
  BY <1>2, ErNetAssumption DEF SessionInv, OwnKey
<1>7. Acknowledged'
  BY <1>2, <1>3 DEF SessionInv, Acknowledged
<1>8. Agreed'
  BY <1>1, <1>2, <1>3, SidIsSession DEF SessionInv, Agreed, Sid, clientVars, Shape
<1>9. SeenKey' /\ TrackedJob'
  BY <1>2, <1>4 DEF SessionInv, SeenKey, TrackedJob
<1>10. TrackedUntilReaped'
  BY <1>1, <1>2 DEF SessionInv, TrackedUntilReaped, Shape, TypeOK
<1>11. QED BY <1>1, <1>5, <1>6, <1>7, <1>8, <1>9, <1>10 DEF SessionInv

\* The invariant holds in every reachable state, whatever is lost, repeated or raced.
THEOREM SessionInvariant == Spec => []SessionInv
<1>1. SessionInv /\ [Next]_vars => SessionInv'
  <2> SUFFICES ASSUME SessionInv, [Next]_vars PROVE SessionInv'
    OBVIOUS
  <2>1. CASE \E c \in Client : ClientStep(c)
    BY <2>1, ClientSession
  <2>2. CASE \E w \in Worker : WorkerStep(w)
    BY <2>2, WorkerSession
  <2>3. CASE Clean
    BY <2>3, CleanSession
  <2>4. CASE UNCHANGED vars
    BY <2>4 DEF vars, clientVars, tableVars, workerVars, cleanVars, SessionInv, Shape, TypeOK,
       WorkerOK, CleanerOK, Authentic, OwnKey, Acknowledged, Agreed, SeenKey, TrackedJob,
       TrackedUntilReaped, CrashOnlyByReaping, Held, Sid
  <2>5. QED BY <2>1, <2>2, <2>3, <2>4 DEF Next
<1>2. QED BY InitSession, <1>1, PTL DEF Spec

\* A client whose handshake succeeded shares its AES key with the server.
THEOREM KeysAgree == Spec => []KeyAgreement
<1>1. SessionInv => KeyAgreement
  BY DEF SessionInv, Agreed, Held, KeyAgreement
<1>2. QED BY SessionInvariant, <1>1, PTL

\* Nothing the server keeps escapes the cleaner, but for what a collection
\* already under way leaves behind.
THEOREM Tracked == Spec => []TrackedUntilReaped
<1>1. SessionInv => TrackedUntilReaped
  BY DEF SessionInv
<1>2. QED BY SessionInvariant, <1>1, PTL

\* Only the cleaner can make a worker expand a missing key.
THEOREM NoCrashWithoutReaping == Spec => []CrashOnlyByReaping
<1>1. SessionInv => CrashOnlyByReaping
  BY DEF SessionInv
<1>2. QED BY SessionInvariant, <1>1, PTL
=============================================================================
