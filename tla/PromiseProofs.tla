--------------------------- MODULE PromiseProofs ---------------------------
(***************************************************************************)
(* The encrypted layer implements SecureSession, for any number of clients,*)
(* workers and attempts, whatever the network does and whether or not a    *)
(* text deciphered under a wrong key can pass the padding check.           *)
(***************************************************************************)
EXTENDS ErNetProofs

\* The application sends for a session only once its handshake is over, and
\* the client is at that session for good.
Over(u) == /\ u[2] = attempt[u[1]]
           /\ phase[u[1]] \in {"ready", "down", "crashed"}
GaveUp(u) == u[2] = attempt[u[1]] /\ phase[u[1]] \in {"down", "crashed"}

Fresh == \A c \in Client : phase[c] = "start" => attempt[c] = 1
AppsAreLate ==
    /\ \A m \in reqs : m.kind = "app" => Over(m.uid)
    /\ \A w \in Worker : job[w].kind = "app" => Over(job[w].uid)
OwnCopy == \A w \in Worker : pc[w] \in {"decrypt", "addEcho", "callback"} =>
    wkey[w] = Empty \/ (wkey[w] = job[w].uid /\ Held(job[w].uid))
Verdicts == \A w \in Worker : pc[w] = "addEcho" =>
    /\ plain[w] = "noise" => GarblePasses
    /\ plain[w] = "app" => job[w].uid \in reaped \/ GaveUp(job[w].uid)
Welcomed == \A r \in resps : r.text = "echo hello" =>
    r.key \in Session /\ "hello" \in heard[r.key]
ReadyHeard == \A c \in Client : phase[c] = "ready" => "hello" \in heard[Sid(c)]
Recorded == \A u \in Session \ reaped :
    /\ heard[u] # {} => echo[u] # "none"
    /\ echo[u] = "yes" => "hello" \in heard[u]
    /\ echo[u] = "no" => "app" \in heard[u] \/ "noise" \in heard[u]
AppsRefused == \A u \in Session : "app" \in heard[u] => u \in reaped \/ GaveUp(u)

EchoInv ==
    /\ Fresh /\ AppsAreLate /\ OwnCopy
    /\ Verdicts /\ Welcomed /\ ReadyHeard /\ Recorded /\ AppsRefused

\* The invariant holds at the start.
LEMMA InitEcho == Init => EchoInv
BY DEF Init, EchoInv, Fresh, AppsAreLate, OwnCopy, Verdicts, Welcomed, ReadyHeard, Recorded,
   AppsRefused, NoJob

\* A session whose hello was accepted is open, unless the server forgot it, took
\* noise for a message of it, or refused a client that gave up.
LEMMA HeardIsOpen ==
    ASSUME Shape, EchoInv, NEW u \in Session \ reaped, "hello" \in heard[u], echo[u] # "yes"
    PROVE  echo[u] = "no" /\ (GaveUp(u) \/ ("noise" \in heard[u] /\ "app" \notin heard[u]))
BY DEF Shape, TypeOK, EchoInv, Recorded, AppsRefused

\* The invariant implies the agreement.
LEMMA EchoAgrees == SessionInv /\ EchoInv => EchoAgreement
<1> SUFFICES ASSUME SessionInv, EchoInv, NEW c \in Client, phase[c] = "ready"
             PROVE  /\ "hello" \in heard[Sid(c)]
                    /\ echo[Sid(c)] = "yes" \/ Sid(c) \in reaped \/ "noise" \in heard[Sid(c)]
  BY DEF EchoAgreement
<1>1. Shape /\ Sid(c) \in Session /\ "hello" \in heard[Sid(c)] /\ ~GaveUp(Sid(c))
  BY SidIsSession DEF SessionInv, Shape, EchoInv, ReadyHeard, GaveUp, Sid
<1>2. QED BY <1>1, HeardIsOpen

\* A client that is through with a session never comes back to it.
LEMMA OverStays ==
    ASSUME Shape, NEW c \in Client, ClientStep(c), NEW u \in Session
    PROVE  (Over(u) => Over(u)') /\ (GaveUp(u) => GaveUp(u)')
<1> USE DEF Over, GaveUp, Shape, TypeOK, Session, Handshake, Listening
<1>1. CASE Begin(c)
  BY <1>1 DEF Begin, Enter
<1>2. CASE Accept(c)
  BY <1>2 DEF Accept, Advance, AttemptFails, Enter
<1>3. CASE Repeat(c)
  BY <1>3 DEF Repeat
<1>4. CASE SendAgain(c)
  BY <1>4 DEF SendAgain, Repeating, Enter
<1>5. CASE Damaged(c) \/ Timeout(c)
  BY <1>5 DEF Damaged, Timeout, Unanswered, AttemptFails, Enter
<1>6. CASE Send(c)
  BY <1>6 DEF Send
<1>7. QED BY <1>1, <1>2, <1>3, <1>4, <1>5, <1>6 DEF ClientStep, Recv

\* What a client's step does to the rest of what EchoInv speaks of.
LEMMA ClientEchoEffect ==
    ASSUME Shape, Fresh, NEW c \in Client, ClientStep(c)
    PROVE  /\ plain' = plain
           /\ Fresh'
           /\ \A m \in reqs' \ reqs : m.kind = "app" => Over(m.uid)'
<1> USE DEF Shape, TypeOK, Session, Handshake, Listening, Fresh, workerVars, PhaseRequest
<1>1. CASE Begin(c)
  BY <1>1 DEF Begin, Enter
<1>2. CASE phase[c] \in Handshake /\ plain' = plain /\ AttemptFails(c)
  <2>1. /\ phase' \in {[phase EXCEPT ![c] = "rsa"], [phase EXCEPT ![c] = "down"]}
        /\ \A d \in Client \ {c} : attempt'[d] = attempt[d]
        /\ \A m \in reqs' \ reqs : m.kind = "rsa"
    BY <1>2 DEF AttemptFails, Enter
  <2>2. QED BY <1>2, <2>1, SMTT(30)
<1>3. CASE Accept(c)
  <2>1. (Advance(c) \/ AttemptFails(c)) /\ plain' = plain /\ phase[c] \in Handshake
    BY <1>3 DEF Accept
  <2>2. CASE Advance(c)
    BY <2>1, <2>2 DEF Advance, Enter
  <2>3. QED BY <1>2, <2>1, <2>2
<1>4. CASE Repeat(c)
  BY <1>4 DEF Repeat
<1>5. CASE SendAgain(c)
  BY <1>5 DEF SendAgain, Repeating, Enter
<1>6. CASE Damaged(c) \/ Timeout(c)
  <2>1. (Unanswered(c) \/ AttemptFails(c)) /\ plain' = plain /\ phase[c] \in Handshake
    BY <1>6 DEF Damaged, Timeout
  <2>2. CASE /\ reqs' = reqs \cup {PhaseRequest(phase[c], Sid(c))}
             /\ UNCHANGED <<phase, attempt>>
    BY <2>1, <2>2
  <2>3. QED BY <1>2, <2>1, <2>2 DEF Unanswered
<1>7. CASE Send(c)
  BY <1>7 DEF Send, Over, Sid
<1>8. QED BY <1>1, <1>3, <1>4, <1>5, <1>6, <1>7 DEF ClientStep, Recv

\* A client becomes ready on an echo only, and the echo speaks of its session.
LEMMA ReadyIsWelcome ==
    ASSUME SessionInv, EchoInv, NEW c \in Client, ClientStep(c), phase[c] # "ready", phase'[c] = "ready"
    PROVE  "hello" \in heard[Sid(c)] /\ phase[c] = "hello" /\ Sid(c)' = Sid(c)
<1> USE DEF SessionInv, Shape, TypeOK, Sid, Handshake
<1>1. Accept(c)
  BY DEF ClientStep, Recv, Begin, Repeat, SendAgain, Repeating, Damaged, Timeout, Unanswered,
     AttemptFails, Send, Enter
<1>2. PICK r \in resps : Expected(c, r) /\ Advance(c)
  BY <1>1 DEF Accept, AttemptFails, Enter
<1>3. phase[c] = "hello" /\ attempt' = attempt
  BY <1>2 DEF Advance, Enter
<1>4. r.text = "echo hello" /\ r.key = Sid(c)
  BY <1>2, <1>3 DEF Expected, Agreed
<1>5. QED BY <1>3, <1>4 DEF EchoInv, Welcomed

\* The steps of the clients keep the invariant.
LEMMA ClientEcho ==
    ASSUME SessionInv, EchoInv, NEW c \in Client, ClientStep(c)
    PROVE  EchoInv'
<1>1. Shape /\ Fresh
  BY DEF SessionInv, EchoInv
<1>2. /\ UNCHANGED <<aesKey, echo, heard, pc, job, wkey, reaped>>
      /\ resps' \subseteq resps
      /\ \A d \in Client \ {c} : phase'[d] = phase[d] /\ attempt'[d] = attempt[d]
  BY <1>1, ClientEffect
<1>3. /\ plain' = plain /\ Fresh'
      /\ \A m \in reqs' \ reqs : m.kind = "app" => Over(m.uid)'
  BY <1>1, ClientEchoEffect
<1>4. \A u \in Session : (Over(u) => Over(u)') /\ (GaveUp(u) => GaveUp(u)')
  BY <1>1, OverStays
<1>5. \A w \in Worker : pc[w] # "idle" => job[w].uid \in Session
  BY <1>1 DEF Shape, WorkerOK, Request
<1>6. AppsAreLate'
  <2>1. \A m \in reqs : m.uid \in Session
    BY <1>1 DEF Shape, TypeOK, Request
  <2>2. \A w \in Worker : job[w].kind = "app" => job[w].uid \in Session
    BY <1>1 DEF Shape, TypeOK, Request, NoJob
  <2>3. QED BY <1>2, <1>3, <1>4, <2>1, <2>2 DEF EchoInv, AppsAreLate
<1>7. OwnCopy' /\ Verdicts'
  BY <1>2, <1>3, <1>4, <1>5 DEF EchoInv, OwnCopy, Verdicts, Held
<1>8. Welcomed' /\ Recorded' /\ AppsRefused'
  BY <1>2, <1>4 DEF EchoInv, Welcomed, Recorded, AppsRefused
<1>9. ReadyHeard'
  <2>1. SUFFICES ASSUME NEW d \in Client, phase'[d] = "ready"
                 PROVE  "hello" \in heard[Sid(d)']
    BY <1>2 DEF ReadyHeard
  <2>2. CASE phase[d] = "ready"
    <3>1. Over(Sid(d))
      BY <2>2 DEF Over, Sid
    <3>2. Sid(d)' = Sid(d)
      BY <1>1, <1>4, <3>1, SidIsSession DEF Over, Sid, Shape
    <3>3. QED BY <2>2, <3>2 DEF EchoInv, ReadyHeard
  <2>3. CASE phase[d] # "ready"
    <3>1. d = c
      BY <1>2, <2>1, <2>3
    <3>2. QED BY <2>1, <2>3, <3>1, ReadyIsWelcome
  <2>4. QED BY <2>2, <2>3
<1>10. QED BY <1>3, <1>6, <1>7, <1>8, <1>9 DEF EchoInv

\* A worker that answers forgets its request; the others keep theirs.
LEMMA ReplyEcho ==
    ASSUME Shape, AppsAreLate, OwnCopy, Verdicts, NEW w \in Worker,
           NEW text \in AnswerText, NEW key \in Session \cup {None}, Reply(w, text, key),
           UNCHANGED <<clientVars, reqs, cleanVars>>,
           \A s \in Session : Held(s) => Held(s)'
    PROVE  /\ AppsAreLate' /\ OwnCopy' /\ Verdicts'
           /\ \A r \in resps' \ resps : r.text = text /\ r.key = key
<1>1. /\ pc' = [pc EXCEPT ![w] = "idle"] /\ job' = [job EXCEPT ![w] = NoJob]
      /\ wkey' = [wkey EXCEPT ![w] = None] /\ plain' = [plain EXCEPT ![w] = "fail"]
      /\ resps' = resps \cup {[to |-> job[w].uid[1], text |-> text, key |-> key]}
  BY DEF Reply, Goto
<1>2. UNCHANGED <<phase, attempt, reaped>>
  BY DEF clientVars, cleanVars
<1>3. AppsAreLate'
  BY <1>1, <1>2 DEF AppsAreLate, Over, NoJob, Shape, TypeOK
<1>4. \A v \in Worker : pc[v] # "idle" => job[v].uid \in Session
  BY DEF Shape, WorkerOK, Request
<1>5. \A v \in Worker : pc'[v] # "idle" =>
        v # w /\ pc'[v] = pc[v] /\ job'[v] = job[v] /\ wkey'[v] = wkey[v] /\ plain'[v] = plain[v]
  BY <1>1 DEF Shape, TypeOK
<1>6. OwnCopy' /\ Verdicts'
  BY <1>2, <1>4, <1>5 DEF OwnCopy, Verdicts, GaveUp
<1>7. QED BY <1>1, <1>3, <1>6

\* An answer that is no echo, while the verdicts stand.
LEMMA PlainReplyEcho ==
    ASSUME Shape, EchoInv, NEW w \in Worker,
           NEW text \in AnswerText \ {"echo hello"}, NEW key \in Session \cup {None},
           Reply(w, text, key),
           UNCHANGED <<clientVars, reqs, echo, heard, cleanVars>>,
           \A s \in Session : Held(s) => Held(s)'
    PROVE  EchoInv'
<1>1. AppsAreLate' /\ OwnCopy' /\ Verdicts' /\ (\A r \in resps' \ resps : r.text = text)
  <2>1. text \in AnswerText /\ AppsAreLate /\ OwnCopy /\ Verdicts
    BY DEF EchoInv
  <2>2. QED BY <2>1, ReplyEcho
<1>2. UNCHANGED <<phase, attempt, reaped>>
  BY DEF clientVars, cleanVars
<1>3. Fresh' /\ ReadyHeard' /\ Recorded' /\ AppsRefused'
  BY <1>2 DEF EchoInv, Fresh, ReadyHeard, Recorded, AppsRefused, GaveUp, Sid
<1>4. Welcomed'
  BY <1>1 DEF EchoInv, Welcomed
<1>5. QED BY <1>1, <1>3, <1>4 DEF EchoInv

\* A worker takes no key away.
LEMMA WorkerHolds ==
    ASSUME SessionInv, NEW w \in Worker, WorkerStep(w)
    PROVE  \A s \in Session : Held(s) => Held(s)'
<1> DEFINE u == job[w].uid
<1>1. /\ job[w].kind \in Handshake => job[w].key = job[w].uid
      /\ reaped' = reaped
  BY DEF SessionInv, Authentic, WorkerStep, Serve, Receive, ReceiveFrom, ReceiveCorrupted,
     CheckPublics, AddPublic, CheckAes, AddAes, GetKey, Crash, Decrypt, AddEcho, Callback, cleanVars
<1>2. CASE AddAes(w)
  <2>1. aesKey' = aesKey \/ aesKey' = [aesKey EXCEPT ![u] = u]
    BY <1>1, <1>2 DEF AddAes, Handshake
  <2>2. QED BY <1>1, <2>1 DEF Held, SessionInv, Shape, TypeOK
<1>3. CASE GetKey(w)
  <2>1. aesKey' = [aesKey EXCEPT ![u] = IF @ = None THEN Empty ELSE @]
    BY <1>3 DEF GetKey
  <2>2. QED BY <1>1, <2>1, ErNetAssumption DEF Held, SessionInv, Shape, TypeOK
<1>4. CASE aesKey' = aesKey
  BY <1>1, <1>4 DEF Held
<1>5. QED
  BY <1>2, <1>3, <1>4 DEF WorkerStep, Serve, Receive, ReceiveFrom, ReceiveCorrupted,
     CheckPublics, AddPublic, CheckAes, Crash, Decrypt, AddEcho, Callback, tableVars

\* The steps of the workers keep the invariant: every verdict is recorded with its
\* text, and an application's text gets one only from a client that gave up.
LEMMA WorkerEcho ==
    ASSUME SessionInv, EchoInv, NEW w \in Worker, WorkerStep(w)
    PROVE  EchoInv'
<1> DEFINE u == job[w].uid
<1>1. Shape /\ (\A s \in Session : Held(s) => Held(s)')
  BY WorkerHolds DEF SessionInv
<1>2. \A v \in Worker : pc[v] # "idle" => job[v].uid \in Session
  BY <1>1 DEF Shape, WorkerOK, Request
<1>3. CASE Receive(w)
  <2>1. PICK m \in reqs :
          /\ reqs' \subseteq reqs
          /\ job' = [job EXCEPT ![w] = m]
          /\ pc[w] = "idle" /\ pc' = [pc EXCEPT ![w] = "publics"]
          /\ UNCHANGED <<phase, attempt, resps, aesKey, echo, heard, wkey, plain, reaped>>
    BY <1>3 DEF Receive, ReceiveFrom, Goto, Consume, clientVars, cleanVars
  <2>2. Fresh' /\ Welcomed' /\ ReadyHeard' /\ Recorded' /\ AppsRefused'
    BY <2>1 DEF EchoInv, Fresh, Welcomed, ReadyHeard, Recorded, AppsRefused, GaveUp, Sid
  <2>3. AppsAreLate'
    BY <1>1, <2>1 DEF EchoInv, AppsAreLate, Over, Shape, TypeOK
  <2>4. OwnCopy' /\ Verdicts'
    BY <1>1, <2>1 DEF EchoInv, OwnCopy, Verdicts, Held, GaveUp, Shape, TypeOK
  <2>5. QED BY <2>2, <2>3, <2>4 DEF EchoInv
<1>4. CASE ReceiveCorrupted(w)
  <2>1. /\ \A r \in resps' \ resps : r.text = "error"
        /\ UNCHANGED <<phase, attempt, reqs, aesKey, echo, heard, pc, job, wkey, plain, reaped>>
    BY <1>4 DEF ReceiveCorrupted, clientVars, tableVars, workerVars, cleanVars
  <2>2. QED
    BY <2>1 DEF EchoInv, Fresh, AppsAreLate, OwnCopy, Verdicts, Welcomed, ReadyHeard, Recorded,
       AppsRefused, Over, GaveUp, Held, Sid
<1>5. CASE CheckPublics(w) \/ CheckAes(w)
  <2>1. /\ \A v \in Worker : pc'[v] \in {"decrypt", "addEcho", "callback"} => pc'[v] = pc[v]
        /\ UNCHANGED <<phase, attempt, reqs, resps, aesKey, echo, heard, job, wkey, plain, reaped>>
    BY <1>1, <1>5 DEF CheckPublics, CheckAes, Goto, Shape, TypeOK, clientVars, tableVars, cleanVars
  <2>2. QED
    BY <2>1 DEF EchoInv, Fresh, AppsAreLate, OwnCopy, Verdicts, Welcomed, ReadyHeard, Recorded,
       AppsRefused, Over, GaveUp, Held, Sid
<1>6. CASE AddPublic(w)
  BY <1>1, <1>6, PlainReplyEcho DEF AddPublic, AnswerText
<1>7. CASE AddAes(w)
  <2>1. job[w].key \in Session
    BY <1>1, <1>7 DEF AddAes, Shape, WorkerOK, Request
  <2>2. \E text \in AnswerText \ {"echo hello"}, key \in Session \cup {None} : Reply(w, text, key)
    BY <1>7, <2>1 DEF AddAes, AnswerText
  <2>3. UNCHANGED <<clientVars, reqs, echo, heard, cleanVars>>
    BY <1>7 DEF AddAes
  <2>4. QED BY <1>1, <2>2, <2>3, PlainReplyEcho
<1>8. CASE GetKey(w)
  <2>1. /\ aesKey' = [aesKey EXCEPT ![u] = IF @ = None THEN Empty ELSE @]
        /\ wkey' = [wkey EXCEPT ![w] = aesKey'[u]]
        /\ pc[w] = "getKey" /\ pc' = [pc EXCEPT ![w] = "decrypt"]
        /\ UNCHANGED <<phase, attempt, reqs, resps, echo, heard, job, plain, reaped>>
    BY <1>8 DEF GetKey, Goto, clientVars, cleanVars
  <2>2. wkey'[w] = Empty \/ (wkey'[w] = u /\ Held(u)')
    BY <1>1, <1>2, <2>1 DEF SessionInv, OwnKey, Held, Shape, TypeOK
  <2>3. OwnCopy'
    BY <1>1, <1>2, <2>1, <2>2 DEF EchoInv, OwnCopy, Shape, TypeOK
  <2>4. Verdicts'
    BY <1>1, <2>1 DEF EchoInv, Verdicts, GaveUp, Shape, TypeOK
  <2>5. Fresh' /\ AppsAreLate' /\ Welcomed' /\ ReadyHeard' /\ Recorded' /\ AppsRefused'
    BY <2>1 DEF EchoInv, Fresh, AppsAreLate, Welcomed, ReadyHeard, Recorded, AppsRefused, Over,
       GaveUp, Sid
  <2>6. QED BY <2>3, <2>4, <2>5 DEF EchoInv
<1>9. CASE Crash(w)
  BY <1>9 DEF Crash, clientVars, tableVars, workerVars, cleanVars, EchoInv, Fresh, AppsAreLate,
     OwnCopy, Verdicts, Welcomed, ReadyHeard, Recorded, AppsRefused, Over, GaveUp, Held, Sid
<1>10. CASE Decrypt(w)
  <2>1. PICK d \in Decrypted(job[w], wkey[w]) :
          \/ d = "fail" /\ Reply(w, "error", None)
          \/ d # "fail" /\ Reply(w, "rejected", wkey[w])
          \/ /\ d # "fail" /\ echo[u] # "no"
             /\ Goto(w, IF echo[u] = "none" THEN "addEcho" ELSE "callback")
             /\ plain' = [plain EXCEPT ![w] = d]
             /\ UNCHANGED <<job, wkey, resps>>
    BY <1>10 DEF Decrypt
  <2>2. /\ pc[w] = "decrypt"
        /\ UNCHANGED <<clientVars, reqs, tableVars, cleanVars, heard>>
    BY <1>10 DEF Decrypt
  <2>3. /\ d # "fail" => wkey[w] \in Session \cup {None}
        /\ d = "app" => job[w].kind = "app"
        /\ d = "noise" => GarblePasses
    BY <1>1, <1>10, ErNetAssumption DEF Decrypt, Decrypted, Shape, TypeOK, WorkerOK, Key, Request
  <2>4. CASE \E text \in {"error", "rejected"}, key \in Session \cup {None} : Reply(w, text, key)
    <3>1. \E text \in AnswerText \ {"echo hello"}, key \in Session \cup {None} : Reply(w, text, key)
      BY <2>4 DEF AnswerText
    <3>2. UNCHANGED <<echo, heard>>
      BY <2>2 DEF tableVars
    <3>3. QED BY <1>1, <2>2, <3>1, <3>2, PlainReplyEcho
  <2>5. CASE /\ d # "fail" /\ echo[u] # "no"
             /\ Goto(w, IF echo[u] = "none" THEN "addEcho" ELSE "callback")
             /\ plain' = [plain EXCEPT ![w] = d]
             /\ UNCHANGED <<job, wkey, resps>>
    <3>1. /\ UNCHANGED <<phase, attempt, reqs, resps, aesKey, echo, heard, job, wkey, reaped>>
          /\ pc' = [pc EXCEPT ![w] = IF echo[u] = "none" THEN "addEcho" ELSE "callback"]
          /\ plain' = [plain EXCEPT ![w] = d]
      BY <2>2, <2>5 DEF Goto, clientVars, tableVars, cleanVars
    <3>2. Fresh' /\ AppsAreLate' /\ Welcomed' /\ ReadyHeard' /\ Recorded' /\ AppsRefused'
      BY <3>1 DEF EchoInv, Fresh, AppsAreLate, Welcomed, ReadyHeard, Recorded, AppsRefused, Over,
         GaveUp, Sid
    <3>3. OwnCopy'
      BY <1>1, <2>2, <3>1 DEF EchoInv, OwnCopy, Held, Shape, TypeOK
    <3>4. echo[u] = "none" /\ d = "app" => u \in reaped \/ GaveUp(u)
      <4>1. SUFFICES ASSUME echo[u] = "none", d = "app" PROVE u \in reaped \/ GaveUp(u)
        OBVIOUS
      <4>2. Over(u) /\ u \in Session
        BY <1>2, <2>2, <2>3, <4>1 DEF EchoInv, AppsAreLate
      <4>3. CASE phase[u[1]] = "ready"
        <5>1. u[1] \in Client /\ Sid(u[1]) = u
          BY <4>2 DEF Over, Sid, Session
        <5>2. QED BY <4>1, <4>2, <4>3, <5>1 DEF EchoInv, ReadyHeard, Recorded
      <4>4. QED BY <4>2, <4>3 DEF Over, GaveUp
    <3>5. Verdicts'
      BY <1>1, <2>3, <3>1, <3>4 DEF EchoInv, Verdicts, GaveUp, Shape, TypeOK
    <3>6. QED BY <3>2, <3>3, <3>5 DEF EchoInv
  <2>6. QED BY <2>1, <2>3, <2>4, <2>5
<1>11. CASE AddEcho(w)
  <2>1. /\ pc[w] = "addEcho" /\ u \in Session
        /\ echo' = [echo EXCEPT ![u] = IF plain[w] = "hello" THEN "yes" ELSE "no"]
        /\ heard' = [heard EXCEPT ![u] = @ \cup {plain[w]}]
        /\ Reply(w, IF plain[w] = "hello" THEN "echo hello" ELSE "rejected", wkey[w])
        /\ UNCHANGED <<clientVars, reqs, cleanVars>>
    BY <1>2, <1>11 DEF AddEcho
  <2>2. wkey[w] = u /\ plain[w] \in {"hello", "app", "noise"}
    BY <1>1, <2>1, ErNetAssumption DEF EchoInv, OwnCopy, Shape, WorkerOK
  <2>3. plain[w] = "app" => u \in reaped \/ GaveUp(u)
    BY <2>1 DEF EchoInv, Verdicts
  <2>4. UNCHANGED <<phase, attempt, reaped>>
    BY <2>1 DEF clientVars, cleanVars
  <2>5. /\ AppsAreLate' /\ OwnCopy' /\ Verdicts'
        /\ \A r \in resps' \ resps :
             r.text = (IF plain[w] = "hello" THEN "echo hello" ELSE "rejected") /\ r.key = u
    <3> DEFINE text == IF plain[w] = "hello" THEN "echo hello" ELSE "rejected"
    <3>1. text \in AnswerText
      BY DEF AnswerText
    <3>2. Reply(w, text, wkey[w]) /\ wkey[w] \in Session \cup {None}
      BY <2>1, <2>2
    <3>3. AppsAreLate /\ OwnCopy /\ Verdicts
      BY DEF EchoInv
    <3> HIDE DEF text
    <3>4. /\ AppsAreLate' /\ OwnCopy' /\ Verdicts'
          /\ \A r \in resps' \ resps : r.text = text /\ r.key = wkey[w]
      BY <1>1, <2>1, <3>1, <3>2, <3>3, ReplyEcho
    <3>5. QED BY <2>2, <3>4 DEF text
  <2>6. /\ heard'[u] = heard[u] \cup {plain[w]}
        /\ echo'[u] = IF plain[w] = "hello" THEN "yes" ELSE "no"
        /\ \A s \in Session \ {u} : heard'[s] = heard[s] /\ echo'[s] = echo[s]
    BY <1>1, <2>1 DEF Shape, TypeOK
  <2>7. \A s \in Session : heard[s] \subseteq heard'[s]
    BY <2>6
  <2>8. Welcomed'
    <3>1. \A r \in resps' \ resps : r.text = "echo hello" => r.key = u /\ "hello" \in heard'[r.key]
      BY <2>5, <2>6
    <3>2. QED BY <2>1, <2>7, <3>1 DEF EchoInv, Welcomed
  <2>9. ReadyHeard'
    BY <1>1, <2>4, <2>7, SidIsSession DEF EchoInv, ReadyHeard, Sid, Shape
  <2>10. Recorded'
    BY <2>2, <2>4, <2>6 DEF EchoInv, Recorded
  <2>11. AppsRefused'
    BY <2>3, <2>4, <2>6 DEF EchoInv, AppsRefused, GaveUp
  <2>12. Fresh'
    BY <2>4 DEF EchoInv, Fresh
  <2>13. QED BY <2>5, <2>8, <2>9, <2>10, <2>11, <2>12 DEF EchoInv
<1>12. CASE Callback(w)
  <2>1. \E text \in AnswerText \ {"echo hello"}, key \in Session \cup {None} : Reply(w, text, key)
    BY <1>1, <1>12 DEF Callback, Shape, WorkerOK, AnswerText
  <2>2. UNCHANGED <<clientVars, reqs, echo, heard, cleanVars>>
    BY <1>12 DEF Callback, tableVars
  <2>3. QED BY <1>1, <2>1, <2>2, PlainReplyEcho
<1>13. QED
  BY <1>3, <1>4, <1>5, <1>6, <1>7, <1>8, <1>9, <1>10, <1>11, <1>12 DEF WorkerStep, Serve

\* The cleaner touches only what it has collected.
LEMMA CleanEffect ==
    ASSUME Shape, Clean
    PROVE  /\ UNCHANGED <<phase, attempt, ckey, reqs, resps, heard, pc, job, wkey, plain>>
           /\ reaped \subseteq reaped'
           /\ \A s \in Session \ reaped : aesKey'[s] = aesKey[s] /\ echo'[s] = echo[s]
BY DEF Clean, Collect, ErasePublic, EraseAes, EraseEcho, EraseActive, clientVars, workerVars,
   tableVars, Shape, TypeOK, CleanerOK

\* The steps of the cleaner keep the invariant.
LEMMA CleanEcho ==
    ASSUME SessionInv, EchoInv, Clean
    PROVE  EchoInv'
<1>1. Shape /\ Shape'
  BY CleanShape DEF SessionInv
<1>2. /\ UNCHANGED <<phase, attempt, reqs, resps, heard, pc, job, wkey, plain>>
      /\ reaped \subseteq reaped'
      /\ \A s \in Session \ reaped : aesKey'[s] = aesKey[s] /\ echo'[s] = echo[s]
  BY <1>1, CleanEffect
<1>3. \A s \in Session : Held(s) => Held(s)'
  BY <1>2 DEF Held
<1>4. \A v \in Worker : pc[v] # "idle" => job[v].uid \in Session
  BY <1>1 DEF Shape, WorkerOK, Request
<1>5. Fresh' /\ AppsAreLate'
  BY <1>2 DEF EchoInv, Fresh, AppsAreLate, Over
<1>6. OwnCopy' /\ Verdicts'
  BY <1>2, <1>3, <1>4 DEF EchoInv, OwnCopy, Verdicts, GaveUp
<1>7. Welcomed' /\ ReadyHeard' /\ Recorded' /\ AppsRefused'
  BY <1>2 DEF EchoInv, Welcomed, ReadyHeard, Recorded, AppsRefused, GaveUp, Sid
<1>8. QED BY <1>5, <1>6, <1>7 DEF EchoInv

\* Together with SessionInv the invariant is inductive: what an answer says, what
\* the tables hold and on which texts they came to hold it go together.
THEOREM EchoInvariant == Spec => [](SessionInv /\ EchoInv)
<1>1. SessionInv /\ EchoInv /\ [Next]_vars => EchoInv'
  <2> SUFFICES ASSUME SessionInv, EchoInv, [Next]_vars PROVE EchoInv'
    OBVIOUS
  <2>1. CASE \E c \in Client : ClientStep(c)
    BY <2>1, ClientEcho
  <2>2. CASE \E w \in Worker : WorkerStep(w)
    BY <2>2, WorkerEcho
  <2>3. CASE Clean
    BY <2>3, CleanEcho
  <2>4. CASE UNCHANGED vars
    BY <2>4 DEF vars, clientVars, tableVars, workerVars, cleanVars, EchoInv, Fresh, AppsAreLate,
       OwnCopy, Verdicts, Welcomed, ReadyHeard, Recorded, AppsRefused, Over, GaveUp, Held, Sid
  <2>5. QED BY <2>1, <2>2, <2>3, <2>4 DEF Next
<1>2. QED BY InitEcho, SessionInvariant, <1>1, PTL DEF Spec

\* A client is ready only in a session whose hello the server accepted, and the
\* server still has that session open, unless it forgot it or gave it another
\* verdict on noise.
THEOREM EchoesAgree == Spec => []EchoAgreement
<1>1. QED BY EchoInvariant, EchoAgrees, PTL

\* With a single worker no one is in the gap between the look at cli_echo_hello
\* and the insertion but the worker that looked.
SoleVerdict == (\A v, w \in Worker : v = w) =>
    /\ \A w \in Worker : pc[w] = "addEcho" => echo[job[w].uid] = "none"
    /\ \A u \in Session \ reaped : "hello" \in heard[u] => echo[u] = "yes"

\* So every step keeps the one verdict a session gets.
LEMMA SoleVerdictKept ==
    ASSUME SessionInv, EchoInv, SoleVerdict, [Next]_vars
    PROVE  SoleVerdict'
<1> SUFFICES ASSUME \A v, w \in Worker : v = w
             PROVE  /\ \A w \in Worker : pc'[w] = "addEcho" => echo'[job'[w].uid] = "none"
                    /\ \A u \in Session \ reaped' : "hello" \in heard'[u] => echo'[u] = "yes"
  BY DEF SoleVerdict
<1>1. /\ Shape
      /\ \A w \in Worker : pc[w] # "idle" => job[w].uid \in Session
      /\ \A w \in Worker : pc[w] = "addEcho" => echo[job[w].uid] = "none"
      /\ \A u \in Session \ reaped : "hello" \in heard[u] => echo[u] = "yes"
  BY DEF SessionInv, Shape, WorkerOK, Request, SoleVerdict
<1>2. CASE UNCHANGED <<echo, heard, reaped, pc, job>>
  BY <1>1, <1>2
<1>3. CASE \E c \in Client : ClientStep(c)
  BY <1>1, <1>2, <1>3, ClientEffect
<1>4. ASSUME NEW w \in Worker, WorkerStep(w)
      PROVE  /\ \A v \in Worker : pc'[v] = "addEcho" => echo'[job'[v].uid] = "none"
             /\ \A u \in Session \ reaped' : "hello" \in heard'[u] => echo'[u] = "yes"
  <2>1. reaped' = reaped
    BY <1>4 DEF WorkerStep, Serve, Receive, ReceiveFrom, ReceiveCorrupted, CheckPublics, AddPublic,
       CheckAes, AddAes, GetKey, Crash, Decrypt, AddEcho, Callback, cleanVars
  <2>2. CASE UNCHANGED <<echo, heard>> /\ pc'[w] # "addEcho"
    BY <1>1, <2>1, <2>2
  <2>3. CASE UNCHANGED <<echo, heard, job>> /\ echo[job[w].uid] = "none"
    BY <1>1, <2>1, <2>3
  <2>4. CASE AddEcho(w)
    <3> DEFINE u == job[w].uid
    <3>1. /\ u \in Session /\ echo[u] = "none"
          /\ echo' = [echo EXCEPT ![u] = IF plain[w] = "hello" THEN "yes" ELSE "no"]
          /\ heard' = [heard EXCEPT ![u] = @ \cup {plain[w]}]
          /\ pc' = [pc EXCEPT ![w] = "idle"]
      BY <1>1, <2>4 DEF AddEcho, Reply, Goto
    <3>2. u \in reaped \/ heard[u] = {}
      BY <3>1 DEF EchoInv, Recorded
    <3>3. pc'[w] = "idle"
      BY <1>1, <3>1 DEF Shape, TypeOK
    <3>4. \A s \in Session \ reaped' : "hello" \in heard'[s] => echo'[s] = "yes"
      <4> SUFFICES ASSUME NEW s \in Session \ reaped', "hello" \in heard'[s] PROVE echo'[s] = "yes"
        OBVIOUS
      <4>1. CASE s = u
        BY <1>1, <2>1, <3>1, <3>2, <4>1 DEF Shape, TypeOK
      <4>2. CASE s # u
        BY <1>1, <2>1, <3>1, <4>2 DEF Shape, TypeOK
      <4>3. QED BY <4>1, <4>2
    <3>5. QED BY <1>1, <3>3, <3>4
  <2>5. CASE Decrypt(w)
    <3>1. UNCHANGED <<echo, heard>>
      BY <2>5 DEF Decrypt, tableVars
    <3>2. pc'[w] # "addEcho" \/ (job' = job /\ echo[job[w].uid] = "none")
      BY <1>1, <2>5 DEF Decrypt, Reply, Goto, Shape, TypeOK
    <3>3. QED BY <2>2, <2>3, <3>1, <3>2
  <2>6. CASE ReceiveCorrupted(w) \/ Crash(w)
    BY <1>2, <2>1, <2>6 DEF ReceiveCorrupted, Crash, workerVars, tableVars
  <2>7. CASE Receive(w) \/ CheckPublics(w) \/ AddPublic(w) \/ CheckAes(w) \/ AddAes(w) \/ GetKey(w)
             \/ Callback(w)
    <3>1. UNCHANGED <<echo, heard>>
      BY <2>7 DEF Receive, ReceiveFrom, CheckPublics, AddPublic, CheckAes, AddAes, GetKey, Callback,
         tableVars
    <3>2. pc'[w] # "addEcho"
      BY <1>1, <2>7 DEF Receive, ReceiveFrom, CheckPublics, AddPublic, CheckAes, AddAes, GetKey,
         Callback, Reply, Goto, Shape, TypeOK
    <3>3. QED BY <2>2, <3>1, <3>2
  <2>8. QED BY <1>4, <2>4, <2>5, <2>6, <2>7 DEF WorkerStep, Serve
<1>5. CASE Clean
  <2>1. /\ UNCHANGED <<heard, pc, job>>
        /\ reaped \subseteq reaped'
        /\ \A s \in Session \ reaped : echo'[s] = echo[s]
    BY <1>1, <1>5, CleanEffect
  <2>2. \A s \in Session : echo'[s] \in {echo[s], "none"}
    BY <1>1, <1>5 DEF Clean, Collect, ErasePublic, EraseAes, EraseEcho, EraseActive, tableVars,
       Shape, TypeOK
  <2>3. QED BY <1>1, <2>1, <2>2
<1>6. CASE UNCHANGED vars
  BY <1>2, <1>6 DEF vars, tableVars, workerVars, cleanVars
<1>7. QED BY <1>3, <1>4, <1>5, <1>6 DEF Next

\* A server with one worker never takes back a hello it accepted, however often
\* noise passes the padding check: the overwritten verdict is a race of workers.
THEOREM OneVerdict == Spec => []VerdictStands
<1>1. Init => SoleVerdict
  BY DEF Init, SoleVerdict
<1>2. EchoInv /\ SessionInv /\ SoleVerdict => VerdictStands
  <2> SUFFICES ASSUME EchoInv, SessionInv, SoleVerdict, \A v, w \in Worker : v = w,
                      NEW c \in Client, phase[c] = "ready", Sid(c) \notin reaped
               PROVE  echo[Sid(c)] = "yes"
    BY DEF VerdictStands
  <2>1. Sid(c) \in Session /\ "hello" \in heard[Sid(c)]
    BY SidIsSession DEF SessionInv, Shape, EchoInv, ReadyHeard
  <2>2. QED BY <2>1 DEF SoleVerdict
<1>3. QED BY EchoInvariant, <1>1, <1>2, SoleVerdictKept, PTL DEF Spec

----------------------------------------------------------------------------
(* The simulation: each step is one of SecureSession or leaves alone what  *)
(* SecureSession sees.                                                     *)

Clients == [c \in Client |-> Belief(c)]
Server  == [u \in Session |-> Holding(u)]

\* Giving an attempt up is a retry, or giving up.
LEMMA FailingSimulates ==
    ASSUME Shape, NEW c \in Client, phase[c] \in Handshake, AttemptFails(c),
           UNCHANGED <<aesKey, echo, heard, reaped>>
    PROVE  Promise!Retry(c) \/ Promise!GiveUp(c)
<1>1. UNCHANGED Server
  BY DEF Server, Holding, Verdict
<1>2. Clients[c] = "trying" /\ attempt \in [Client -> 1..MaxAttempt]
  BY DEF Clients, Belief, Handshake, Shape, TypeOK
<1>3. CASE attempt[c] < MaxAttempt /\ Enter(c, "rsa", attempt[c] + 1)
  <2>1. attempt' = [attempt EXCEPT ![c] = @ + 1] /\ phase' = [phase EXCEPT ![c] = "rsa"]
    BY <1>3 DEF Enter
  <2>2. UNCHANGED Clients
    BY <2>1 DEF Clients, Belief, Handshake, Shape, TypeOK
  <2>3. QED BY <1>1, <1>2, <1>3, <2>1, <2>2 DEF Promise!Retry, Clients, Server
<1>4. CASE /\ attempt[c] = MaxAttempt /\ phase' = [phase EXCEPT ![c] = "down"]
           /\ UNCHANGED <<attempt, tries, reqs>>
  <2>1. Clients' = [Clients EXCEPT ![c] = "failed"]
    BY <1>4 DEF Clients, Belief, Shape, TypeOK
  <2>2. QED BY <1>1, <1>2, <1>4, <2>1 DEF Promise!GiveUp, Clients, Server
<1>5. QED BY <1>3, <1>4 DEF AttemptFails

\* The steps of the clients.
LEMMA ClientSimulates ==
    ASSUME SessionInv, EchoInv, NEW c \in Client, ClientStep(c)
    PROVE  Promise!Next \/ UNCHANGED <<Clients, attempt, Server>>
<1>1. Shape /\ UNCHANGED <<aesKey, echo, heard, reaped>>
  BY ClientEffect DEF SessionInv
<1>2. UNCHANGED Server
  BY <1>1 DEF Server, Holding, Verdict
<1>3. CASE \E p \in Handshake :
             phase[c] \in Handshake /\ phase' = [phase EXCEPT ![c] = p] /\ attempt' = attempt
  <2>1. UNCHANGED Clients
    BY <1>1, <1>3 DEF Clients, Belief, Handshake, Shape, TypeOK
  <2>2. QED BY <1>2, <1>3, <2>1
<1>4. CASE phase[c] \in Handshake /\ AttemptFails(c)
  BY <1>1, <1>4, FailingSimulates DEF Promise!Next
<1>5. CASE phase[c] = "hello" /\ phase'[c] = "ready" /\ phase' = [phase EXCEPT ![c] = "ready"]
           /\ attempt' = attempt
  <2>1. "hello" \in heard[Sid(c)] /\ Sid(c) \in Session /\ ~GaveUp(Sid(c))
    BY <1>1, <1>5, ReadyIsWelcome, SidIsSession DEF GaveUp, Sid, Shape
  <2>2. Server[Sid(c)] \in {"open", "revoked", "lost"}
    <3>1. CASE Sid(c) \in reaped
      BY <2>1, <3>1 DEF Server, Holding
    <3>2. CASE Sid(c) \notin reaped /\ echo[Sid(c)] = "yes"
      BY <2>1, <3>2 DEF Server, Holding, Verdict
    <3>3. CASE Sid(c) \notin reaped /\ echo[Sid(c)] # "yes"
      <4>1. echo[Sid(c)] = "no" /\ "app" \notin heard[Sid(c)]
        BY <1>1, <2>1, <3>3, HeardIsOpen
      <4>2. QED BY <2>1, <3>3, <4>1 DEF Server, Holding, Verdict
    <3>4. QED BY <3>1, <3>2, <3>3
  <2>3. Clients[c] = "trying" /\ Clients' = [Clients EXCEPT ![c] = "ready"]
    BY <1>1, <1>5 DEF Clients, Belief, Shape, TypeOK
  <2>4. Promise!BecomeReady(c)
    BY <1>2, <1>5, <2>1, <2>2, <2>3 DEF Promise!BecomeReady, Promise!Current, Sid, Clients, Server
  <2>5. QED BY <2>4 DEF Promise!Next
<1>6. CASE Begin(c)
  <2>1. phase[c] = "start" /\ phase' = [phase EXCEPT ![c] = "rsa"] /\ attempt' = [attempt EXCEPT ![c] = 1]
    BY <1>6 DEF Begin, Enter
  <2>2. attempt' = attempt
    BY <1>1, <2>1 DEF EchoInv, Fresh, Shape, TypeOK
  <2>3. UNCHANGED Clients
    BY <1>1, <2>1 DEF Clients, Belief, Shape, TypeOK
  <2>4. QED BY <1>2, <2>2, <2>3
<1>7. CASE Send(c)
  <2>1. /\ attempt' = attempt /\ phase[c] \in {"ready", "down"}
        /\ \/ phase' = phase
           \/ ckey[c] = None /\ phase' = [phase EXCEPT ![c] = "crashed"]
    BY <1>7 DEF Send
  <2>2. phase[c] = "ready" => ckey[c] # None
    BY <1>1, SidIsSession, ErNetAssumption DEF SessionInv, Agreed, Shape
  <2>3. UNCHANGED Clients
    BY <1>1, <2>1, <2>2 DEF Clients, Belief, Shape, TypeOK
  <2>4. QED BY <1>2, <2>1, <2>3
<1>8. CASE Accept(c)
  <2>1. phase[c] \in Handshake /\ (Advance(c) \/ AttemptFails(c))
    BY <1>8 DEF Accept, Listening
  <2>2. CASE Advance(c) /\ phase[c] # "hello"
    <3>1. \E p \in Handshake : phase' = [phase EXCEPT ![c] = p]
      BY <2>2 DEF Advance, Enter, Handshake
    <3>2. attempt' = attempt
      BY <1>1, <2>2 DEF Advance, Enter, Shape, TypeOK
    <3>3. QED BY <1>3, <2>1, <3>1, <3>2
  <2>3. CASE Advance(c) /\ phase[c] = "hello"
    BY <1>1, <1>5, <2>3 DEF Advance, Shape, TypeOK
  <2>4. QED BY <1>4, <2>1, <2>2, <2>3
<1>9. CASE Repeat(c)
  BY <1>2, <1>9 DEF Repeat, Clients, Belief
<1>10. CASE SendAgain(c)
  BY <1>1, <1>3, <1>10 DEF SendAgain, Repeating, Enter, Shape, TypeOK
<1>11. CASE Damaged(c) \/ Timeout(c)
  <2>1. phase[c] \in Handshake /\ (AttemptFails(c) \/ UNCHANGED <<phase, attempt>>)
    BY <1>11 DEF Damaged, Timeout, Listening, Unanswered
  <2>2. CASE UNCHANGED <<phase, attempt>>
    BY <1>2, <2>2 DEF Clients, Belief
  <2>3. QED BY <1>4, <2>1, <2>2
<1>12. QED BY <1>6, <1>7, <1>8, <1>9, <1>10, <1>11 DEF ClientStep, Recv

\* What a session holds changes as one of the steps of SecureSession allows.
LEMMA WorkerSimulates ==
    ASSUME SessionInv, EchoInv, NEW w \in Worker, WorkerStep(w)
    PROVE  Promise!Next \/ UNCHANGED <<Clients, attempt, Server>>
<1> DEFINE u == job[w].uid
<1>1. Shape /\ UNCHANGED <<phase, attempt, reaped>>
  BY DEF SessionInv, WorkerStep, Serve, Receive, ReceiveFrom, ReceiveCorrupted, CheckPublics,
     AddPublic, CheckAes, AddAes, GetKey, Crash, Decrypt, AddEcho, Callback, clientVars, cleanVars
<1>2. UNCHANGED Clients
  BY <1>1 DEF Clients, Belief
<1>3. pc[w] # "idle" => u \in Session
  BY <1>1 DEF Shape, WorkerOK, Request
<1>4. CASE UNCHANGED <<aesKey, echo, heard>>
  <2>1. UNCHANGED Server
    BY <1>1, <1>4 DEF Server, Holding, Verdict
  <2>2. QED BY <1>1, <1>2, <2>1
<1>5. CASE AddAes(w) /\ aesKey' # aesKey
  <2>1. u \in Session /\ aesKey' = [aesKey EXCEPT ![u] = u] /\ UNCHANGED <<echo, heard>>
    BY <1>3, <1>5 DEF AddAes, SessionInv, Authentic, Handshake
  <2>2. u # None /\ (aesKey[u] # None => aesKey[u] = Empty /\ u \in reaped)
    BY <1>1, <1>5, <2>1, ErNetAssumption DEF SessionInv, OwnKey, Shape, TypeOK
  <2>3. \A s \in Session \ {u} : Holding(s)' = Holding(s)
    BY <1>1, <2>1 DEF Holding, Verdict, Shape, TypeOK
  <2>4. CASE Holding(u) = "none"
    <3>1. aesKey'[u] = u /\ u \notin reaped /\ echo[u] = "none"
      BY <1>1, <2>1, <2>4 DEF Holding, Verdict, Shape, TypeOK
    <3>2. Server[u] = "none" /\ Server' = [Server EXCEPT ![u] = "keyed"]
      BY <1>1, <2>1, <2>2, <2>3, <2>4, <3>1 DEF Server, Holding, Verdict
    <3>3. Promise!Agree(u)
      BY <1>1, <1>2, <3>2 DEF Promise!Agree, Clients, Server
    <3>4. QED BY <2>1, <3>3 DEF Promise!Next, Promise!Session, Session
  <2>5. CASE Holding(u) # "none"
    <3>1. aesKey'[u] = u
      BY <1>1, <2>1 DEF Shape, TypeOK
    <3>2. u \in reaped \/ echo[u] \in {"yes", "no"}
      BY <1>1, <2>1, <2>2, <2>5 DEF Holding, Verdict, Shape, TypeOK
    <3>3. \A s \in Session : Holding(s)' = Holding(s)
      BY <1>1, <2>1, <2>3, <3>2 DEF Holding, Verdict
    <3>4. QED BY <1>1, <1>2, <3>3 DEF Server
  <2>6. QED BY <2>4, <2>5
<1>6. CASE GetKey(w)
  <2>1. /\ aesKey' = [aesKey EXCEPT ![u] = IF @ = None THEN Empty ELSE @]
        /\ UNCHANGED <<echo, heard>> /\ pc[w] = "getKey" /\ u \in Session
    BY <1>3, <1>6 DEF GetKey
  <2>2. aesKey[u] = None => u \in reaped
    BY <2>1 DEF SessionInv, SeenKey
  <2>3. \A s \in Session : s \in reaped \/ aesKey'[s] = aesKey[s]
    BY <1>1, <2>1, <2>2 DEF Shape, TypeOK
  <2>4. UNCHANGED Server
    BY <1>1, <2>1, <2>3 DEF Server, Holding, Verdict
  <2>5. QED BY <1>1, <1>2, <2>4
<1>7. CASE AddEcho(w)
  <2>1. /\ pc[w] = "addEcho" /\ u \in Session /\ aesKey' = aesKey
        /\ echo' = [echo EXCEPT ![u] = IF plain[w] = "hello" THEN "yes" ELSE "no"]
        /\ heard' = [heard EXCEPT ![u] = @ \cup {plain[w]}]
    BY <1>3, <1>7 DEF AddEcho
  <2>. PICK s \in Session : s = u
    BY <2>1
  <2>2. Held(s) /\ plain[w] \in {"hello", "app", "noise"}
    BY <1>1, <2>1, ErNetAssumption DEF EchoInv, OwnCopy, Shape, WorkerOK
  <2>3. /\ \A r \in Session \ {s} : Holding(r)' = Holding(r)
        /\ heard'[s] = heard[s] \cup {plain[w]}
        /\ echo'[s] = IF plain[w] = "hello" THEN "yes" ELSE "no"
    BY <1>1, <2>1 DEF Holding, Verdict, Shape, TypeOK
  <2>4. CASE s \in reaped
    <3>1. UNCHANGED Server
      BY <1>1, <2>3, <2>4 DEF Server, Holding
    <3>2. QED BY <1>1, <1>2, <3>1
  <2>5. CASE Holding(s)' = Holding(s)
    <3>1. UNCHANGED Server
      BY <2>3, <2>5 DEF Server
    <3>2. QED BY <1>1, <1>2, <3>1
  <2>6. ASSUME s \notin reaped PROVE Server[s] \in {"keyed", "open", "refused", "garbled", "revoked"}
    <3>1. aesKey[s] # None
      BY <2>1, <2>2, <2>6, ErNetAssumption DEF Held
    <3>2. QED BY <2>1, <2>6, <3>1 DEF Server, Holding, Verdict
  <2>7. \A h : Holding(s)' = h => Server' = [Server EXCEPT ![s] = h]
    BY <2>1, <2>3 DEF Server
  <2>8. CASE s \notin reaped /\ plain[w] = "hello" /\ Holding(s)' # Holding(s)
    <3>1. Holding(s)' = "open" /\ Server[s] # "open"
      BY <1>1, <2>1, <2>3, <2>8 DEF Server, Holding, Verdict
    <3>2. Promise!Open(s)
      BY <1>1, <1>2, <2>6, <2>7, <2>8, <3>1 DEF Promise!Open, Clients, Server
    <3>3. QED BY <2>1, <3>2 DEF Promise!Next, Promise!Session, Session
  <2>9. CASE s \notin reaped /\ plain[w] # "hello" /\ "app" \in heard'[s] /\ Holding(s)' # Holding(s)
    <3>1. Holding(s)' = "refused" /\ Server[s] # "refused"
      BY <1>1, <2>1, <2>3, <2>9 DEF Server, Holding, Verdict
    <3>2. GaveUp(s)
      BY <2>1, <2>2, <2>3, <2>9 DEF EchoInv, Verdicts, AppsRefused
    <3>3. s[1] \in Client /\ Clients[s[1]] = "failed" /\ s = <<s[1], attempt[s[1]]>>
      BY <2>1, <3>2 DEF GaveUp, Clients, Belief, Session
    <3>4. Promise!Refuse(s)
      BY <1>1, <1>2, <2>6, <2>7, <2>9, <3>1, <3>3 DEF Promise!Refuse, Promise!Current, Clients, Server
    <3>5. QED BY <2>1, <3>4 DEF Promise!Next, Promise!Session, Session
  <2>10. CASE s \notin reaped /\ plain[w] # "hello" /\ "app" \notin heard'[s] /\ Holding(s)' # Holding(s)
    <3>1. GarblePasses /\ plain[w] = "noise"
      BY <2>1, <2>2, <2>3, <2>10 DEF EchoInv, Verdicts
    <3>2. Holding(s)' = (IF "hello" \in heard[s] THEN "revoked" ELSE "garbled")
      BY <1>1, <2>1, <2>3, <2>10 DEF Holding, Verdict
    <3>3. \/ Holding(s) = "open" /\ "hello" \in heard[s]
          \/ Holding(s) = "keyed" /\ heard[s] = {}
      <4>1. Holding(s) = Verdict(s) /\ Holding(s) \in {"keyed", "open", "refused", "garbled", "revoked"}
        BY <2>1, <2>6, <2>10 DEF Server, Holding
      <4>2. echo[s] = "no" => Holding(s) = Holding(s)'
        BY <2>3, <2>10, <3>2, <4>1 DEF Verdict
      <4>3. CASE echo[s] = "yes"
        BY <2>1, <2>10, <4>1, <4>3 DEF Verdict, EchoInv, Recorded
      <4>4. CASE echo[s] = "none"
        BY <2>1, <2>10, <4>1, <4>4 DEF Verdict, EchoInv, Recorded
      <4>5. QED BY <1>1, <2>1, <2>10, <4>2, <4>3, <4>4 DEF Shape, TypeOK
    <3>4. Promise!Garble(s)
      BY <1>1, <1>2, <2>1, <2>7, <3>1, <3>2, <3>3 DEF Promise!Garble, Clients, Server
    <3>5. QED BY <2>1, <3>4 DEF Promise!Next, Promise!Session, Session
  <2>11. QED BY <2>4, <2>5, <2>8, <2>9, <2>10
<1>8. AddAes(w) \/ GetKey(w) \/ AddEcho(w) \/ UNCHANGED <<aesKey, echo, heard>>
  BY DEF WorkerStep, Serve, Receive, ReceiveFrom, ReceiveCorrupted, CheckPublics, AddPublic,
     CheckAes, Crash, Decrypt, Callback, tableVars
<1>9. AddAes(w) => UNCHANGED <<echo, heard>>
  BY DEF AddAes
<1>10. QED BY <1>4, <1>5, <1>6, <1>7, <1>8, <1>9

\* The cleaner loses sessions.
LEMMA CleanSimulates ==
    ASSUME SessionInv, Clean
    PROVE  Promise!Next
<1>1. Shape /\ Shape'
  BY CleanShape DEF SessionInv
<1>2. /\ UNCHANGED <<phase, attempt, heard>> /\ reaped \subseteq reaped'
      /\ \A s \in Session \ reaped : aesKey'[s] = aesKey[s] /\ echo'[s] = echo[s]
  BY <1>1, CleanEffect
<1>3. UNCHANGED Clients
  BY <1>2 DEF Clients, Belief
<1>4. reaped' \in SUBSET Session
  BY <1>1 DEF Shape, TypeOK
<1>5. \A s \in Session : Holding(s)' = IF s \in reaped' THEN "lost" ELSE Holding(s)
  BY <1>2 DEF Holding, Verdict
<1>6. Server' = [s \in Session |-> IF s \in reaped' THEN "lost" ELSE Server[s]]
  BY <1>5 DEF Server
<1>7. Promise!Lose
  BY <1>2, <1>3, <1>4, <1>6 DEF Promise!Lose, Promise!Session, Session, Clients, Server
<1>8. QED BY <1>7 DEF Promise!Next

\* Every behaviour of the clients, the racing workers and the cleaner is one of
\* the abstract session, whatever the network does; an open one is revoked only
\* on noise, and only if noise can pass for a text.
THEOREM ImplementsPromise == Spec => KeepsPromise
<1>1. Init => Promise!Init
  BY DEF Init, Promise!Init, Promise!Session, Session, Belief, Holding, Verdict
<1>2. SessionInv /\ EchoInv /\ [Next]_vars => [Promise!Next]_<<Clients, attempt, Server>>
  <2> SUFFICES ASSUME SessionInv, EchoInv, [Next]_vars
               PROVE  Promise!Next \/ UNCHANGED <<Clients, attempt, Server>>
    OBVIOUS
  <2>1. CASE \E c \in Client : ClientStep(c)
    BY <2>1, ClientSimulates
  <2>2. CASE \E w \in Worker : WorkerStep(w)
    BY <2>2, WorkerSimulates
  <2>3. CASE Clean
    BY <2>3, CleanSimulates
  <2>4. CASE UNCHANGED vars
    BY <2>4 DEF vars, clientVars, tableVars, cleanVars, Clients, Server, Belief, Holding, Verdict
  <2>5. QED BY <2>1, <2>2, <2>3, <2>4 DEF Next
<1>3. QED
  BY <1>1, <1>2, EchoInvariant, PTL DEF Spec, KeepsPromise, Promise!Spec, Clients, Server
=============================================================================
