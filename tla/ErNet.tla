------------------------------- MODULE ErNet -------------------------------
(***************************************************************************)
(* The encrypted datagram layer: ernet_client (ernet/cli_udp.hpp) shaking  *)
(* hands with ernet_server (ernet/serv_udp.hpp) in three phases            *)
(*    rsa    the client registers its RSA key and learns the server's,     *)
(*    aes    the client registers an AES key, sent under the server's key, *)
(*    hello  the client proves the key with an encrypted "hello".          *)
(* The server has no notion of phase: it guesses the phase of a datagram   *)
(* from what its tables hold for the uid.  Its workers run deflect in      *)
(* parallel, and each lock and unlock of a table is a step here.  A        *)
(* cleaner thread erases idle uids, one table at a time.                   *)
(*                                                                         *)
(* A uid is drawn afresh by every attempt (nw::get_uid), so an attempt, its*)
(* uid, its RSA pair and its AES key are one value, the session <<c, a>>.  *)
(***************************************************************************)
EXTENDS Naturals

CONSTANTS
    Client,         \* ernet_client objects
    Worker,         \* worker threads of the server
    MaxAttempt,     \* ern_hello attempts of one change_serv_ip
    Retries,        \* datagrams one __send sends before it gives up
    MaxTicks,       \* cleaning passes that find an idle uid (bound)
    Timeouts,       \* the socket has a receive timeout
    Lossy,          \* UDP loses, repeats, reorders; else each datagram arrives once
    GarblePasses,   \* decrypting under a wrong key may pass the padding check
    None,           \* no key, no session
    Empty           \* the default-constructed AES key that operator[] inserts

\* An attempt, its uid and its keys.
Session == Client \X (1..MaxAttempt)

ASSUME ErNetAssumption ==
    /\ MaxAttempt \in Nat \ {0}
    /\ Retries \in Nat \ {0}
    /\ MaxTicks \in Nat
    /\ {Timeouts, Lossy, GarblePasses} \subseteq BOOLEAN
    /\ None \notin Session /\ Empty \notin Session /\ None # Empty

VARIABLES
    phase,      \* where each client's handshake stands
    attempt,    \* the attempt, hence the uid, each client is at
    tries,      \* datagrams the current __send has sent
    ckey,       \* the AES key in each client's aes_cf
    reqs,       \* datagrams to the server
    resps,      \* datagrams to the clients
    publics,    \* cli_publics
    aesKey,     \* cli_aes_keys
    echo,       \* cli_echo_hello
    active,     \* the uids in cli_last_active
    pc,         \* the lock each worker takes next
    job,        \* the request each worker holds
    wkey,       \* the key each worker copied into its acrypt
    plain,      \* what each worker decrypted
    ticks,      \* cleaning passes so far
    cpc,        \* the lock the cleaner takes next
    todel,      \* the uids the cleaner has still to erase
    cur,        \* the uid it is erasing
    reaped,     \* every uid it ever collected
    heard,      \* the texts on which each uid was ever given a verdict
    alive       \* the server process runs

clientVars == <<phase, attempt, tries, ckey>>
tableVars  == <<publics, aesKey, echo, active>>
workerVars == <<pc, job, wkey, plain>>
cleanVars  == <<ticks, cpc, todel, cur, reaped>>
vars == <<clientVars, reqs, resps, tableVars, workerVars, cleanVars, heard, alive>>

Request == [kind : {"rsa", "aes", "hello", "app"}, uid : Session, key : Session]
NoJob   == [kind |-> "none", uid |-> None, key |-> None]
Answer  == [to : Client, key : Session \cup {None},
            text : {"rsa-reg-ok", "error", "aes-reg-ok", "echo hello", "rejected", "reply"}]

Handshake == {"rsa", "aes", "hello"}

Sid(c) == <<c, attempt[c]>>

\* What phase p of session s sends.  Sending it again sends the same bytes.
PhaseRequest(p, s) == [kind |-> p, uid |-> s, key |-> s]

Consume(pool, m) == IF Lossy THEN pool ELSE pool \ {m}

\* Decrypting request m under key k: the text, a failure, or noise whose last
\* byte happens to be a valid padding.  An RSA key in clear is never a whole
\* number of blocks.
Decrypted(m, k) ==
    IF m.kind \in {"hello", "app"} /\ m.key = k THEN {m.kind}
    ELSE {"fail"} \cup (IF GarblePasses /\ m.kind # "rsa" THEN {"noise"} ELSE {})

Init ==
    /\ phase = [c \in Client |-> "start"]
    /\ attempt = [c \in Client |-> 1]
    /\ tries = [c \in Client |-> 0]
    /\ ckey = [c \in Client |-> None]
    /\ reqs = {} /\ resps = {}
    /\ publics = [u \in Session |-> "none"]
    /\ aesKey = [u \in Session |-> None]
    /\ echo = [u \in Session |-> "none"]
    /\ active = {}
    /\ pc = [w \in Worker |-> "idle"]
    /\ job = [w \in Worker |-> NoJob]
    /\ wkey = [w \in Worker |-> None]
    /\ plain = [w \in Worker |-> "fail"]
    /\ ticks = 0 /\ cpc = "sleep" /\ todel = {} /\ cur = None /\ reaped = {}
    /\ heard = [u \in Session |-> {}]
    /\ alive = TRUE

----------------------------------------------------------------------------
(* The client: change_serv_ip runs ern_hello at most MaxAttempt times.     *)

\* Enter phase p of attempt a: a new __send with its first datagram out.
Enter(c, p, a) ==
    /\ phase' = [phase EXCEPT ![c] = p]
    /\ attempt' = [attempt EXCEPT ![c] = a]
    /\ tries' = [tries EXCEPT ![c] = 1]
    /\ reqs' = reqs \cup {PhaseRequest(p, <<c, a>>)}

Begin(c) ==
    /\ phase[c] = "start"
    /\ Enter(c, "rsa", 1)
    /\ UNCHANGED <<ckey, resps, tableVars, workerVars, cleanVars, heard, alive>>

\* Mutants: the loop forgets to count, or runs once too often.
AttemptFailsUncounted(c) == Enter(c, "rsa", attempt[c])
AttemptFailsOneMore(c) == Enter(c, "rsa", attempt[c] + 1)

\* ern_hello throws; change_serv_ip swallows it and tries again, or returns
\* as if all were well.
AttemptFails(c) ==
    \/ /\ attempt[c] < MaxAttempt
       /\ Enter(c, "rsa", attempt[c] + 1)
    \/ /\ attempt[c] = MaxAttempt
       /\ phase' = [phase EXCEPT ![c] = "down"]
       /\ UNCHANGED <<attempt, tries, reqs>>

\* Mutants: an answer taken for its text, for its key, or for not being an error.
ExpectedAnyKey(c, r) ==
    r.text = [rsa |-> "rsa-reg-ok", aes |-> "aes-reg-ok", hello |-> "echo hello"][phase[c]]
ExpectedAnyText(c, r) ==
    IF phase[c] = "rsa" THEN r.text = "rsa-reg-ok" ELSE r.key = ckey[c]

ExpectedNoError(c, r) == r.text \notin {"error", "rejected"}

\* The answer that ends each phase.
Expected(c, r) ==
    \/ phase[c] = "rsa" /\ r.text = "rsa-reg-ok"
    \/ phase[c] = "aes" /\ r.text = "aes-reg-ok" /\ r.key = ckey[c]
    \/ phase[c] = "hello" /\ r.text = "echo hello" /\ r.key = ckey[c]

Advance(c) ==
    \/ /\ phase[c] = "rsa"
       /\ ckey' = [ckey EXCEPT ![c] = Sid(c)]
       /\ Enter(c, "aes", attempt[c])
    \/ /\ phase[c] = "aes"
       /\ Enter(c, "hello", attempt[c])
       /\ UNCHANGED ckey
    \/ /\ phase[c] = "hello"
       /\ phase' = [phase EXCEPT ![c] = "ready"]
       /\ UNCHANGED <<attempt, tries, ckey, reqs>>

\* In recv, with a datagram of the phase out.
Listening(c) == phase[c] \in Handshake /\ tries[c] > 0

\* The oldest or the latest answer, to this phase or to another: the socket
\* does not tell.  An answer in clear that is no success makes check_serv
\* throw; any other surprise makes ern_hello throw.
Accept(c) == \E r \in resps :
    /\ Listening(c)
    /\ r.to = c
    /\ resps' = Consume(resps, r)
    /\ IF Expected(c, r) THEN Advance(c) ELSE AttemptFails(c) /\ UNCHANGED ckey
    /\ UNCHANGED <<tableVars, workerVars, cleanVars, heard, alive>>

\* What recv may hand on spoilt: its clear_buffer default cuts a datagram at its
\* first zero byte, which only a cipher text holds; a faulty network any answer.
Spoilable(r) == r.key # None \/ Lossy

\* The size or the digest no longer fits (codes 5 and 6): do_while calls __send
\* anew, however often that happens.
Repeat(c) == \E r \in resps :
    /\ Listening(c)
    /\ r.to = c /\ Spoilable(r)
    /\ resps' = Consume(resps, r)
    /\ tries' = [tries EXCEPT ![c] = 0]
    /\ UNCHANGED <<phase, attempt, ckey, reqs, tableVars, workerVars, cleanVars, heard, alive>>

\* Repeating the phase's request, from its first datagram.
Repeating(c) == phase[c] \in Handshake /\ tries[c] = 0

SendAgain(c) ==
    /\ Repeating(c)
    /\ Enter(c, phase[c], attempt[c])
    /\ UNCHANGED <<ckey, resps, tableVars, workerVars, cleanVars, heard, alive>>

\* A try without an answer: fail_safe_sr sends again, or __send gives up.
Unanswered(c) ==
    \/ /\ tries[c] < Retries
       /\ tries' = [tries EXCEPT ![c] = @ + 1]
       /\ reqs' = reqs \cup {PhaseRequest(phase[c], Sid(c))}
       /\ UNCHANGED <<phase, attempt>>
    \/ tries[c] = Retries /\ AttemptFails(c)

\* Other damage: too few bytes count as no answer, a size that cannot be read or
\* is out of range ends the attempt.
Damaged(c) == \E r \in resps :
    /\ Lossy
    /\ Listening(c)
    /\ r.to = c
    /\ resps' = Consume(resps, r)
    /\ Unanswered(c) \/ AttemptFails(c)
    /\ UNCHANGED <<ckey, tableVars, workerVars, cleanVars, heard, alive>>

\* recvfrom times out.
Timeout(c) ==
    /\ Timeouts
    /\ Listening(c)
    /\ Unanswered(c)
    /\ UNCHANGED <<ckey, resps, tableVars, workerVars, cleanVars, heard, alive>>

\* The recv a handshake waits in returns.
Recv(c) == Accept(c) \/ Repeat(c) \/ Damaged(c) \/ Timeout(c)

\* The layer above sends whether or not the handshake succeeded.  With no key
\* at all the AES code reads a null pointer.
Send(c) ==
    /\ phase[c] \in {"ready", "down"}
    /\ \/ /\ ckey[c] # None
          /\ reqs' = reqs \cup {[kind |-> "app", uid |-> Sid(c), key |-> ckey[c]]}
          /\ UNCHANGED phase
       \/ /\ ckey[c] = None
          /\ phase' = [phase EXCEPT ![c] = "crashed"]
          /\ UNCHANGED reqs
    /\ UNCHANGED <<attempt, tries, ckey, resps, tableVars, workerVars, cleanVars,
                   heard, alive>>

----------------------------------------------------------------------------
(* A worker: deflect, cut where it takes or drops a lock.                  *)

Goto(w, l) == pc' = [pc EXCEPT ![w] = l]

\* The request is done: the answer goes to the client's address and the
\* handler's locals are gone.
Reply(w, text, key) ==
    /\ Goto(w, "idle")
    /\ job' = [job EXCEPT ![w] = NoJob]
    /\ wkey' = [wkey EXCEPT ![w] = None]
    /\ plain' = [plain EXCEPT ![w] = "fail"]
    /\ resps' = resps \cup {[to |-> job[w].uid[1], text |-> text, key |-> key]}

\* Mutant: only a registered uid is stamped.
StampKnown(u) == IF publics[u] = "none" THEN active ELSE active \cup {u}

\* The uids that are tracked once u was heard.
Stamp(u) == active \cup {u}

\* Pop a datagram of client c, parse it, check its control sum, stamp the uid.
ReceiveFrom(c, w) == \E m \in reqs :
    /\ m.uid[1] = c
    /\ alive /\ pc[w] = "idle"
    /\ reqs' = Consume(reqs, m)
    /\ job' = [job EXCEPT ![w] = m]
    /\ active' = Stamp(m.uid)
    /\ Goto(w, "publics")
    /\ UNCHANGED <<clientVars, resps, publics, aesKey, echo, wkey, plain, cleanVars, heard, alive>>

Receive(w) == \E c \in Client : ReceiveFrom(c, w)

\* A datagram damaged on the way: an error answer and no other effect.
ReceiveCorrupted(w) == \E m \in reqs :
    /\ Lossy /\ alive /\ pc[w] = "idle"
    /\ resps' = resps \cup {[to |-> m.uid[1], text |-> "error", key |-> None]}
    /\ UNCHANGED <<clientVars, reqs, tableVars, workerVars, cleanVars, heard, alive>>

CheckPublics(w) ==
    /\ alive /\ pc[w] = "publics"
    /\ Goto(w, IF publics[job[w].uid] = "none" THEN "addPublic" ELSE "aes")
    /\ UNCHANGED <<clientVars, reqs, resps, tableVars, job, wkey, plain, cleanVars, heard, alive>>

\* After the gap between unlock and lock, with no second look.  Any bytes load
\* as a key: only those of an rsa request make a usable one.
AddPublic(w) ==
    /\ alive /\ pc[w] = "addPublic"
    /\ publics' = [publics EXCEPT ![job[w].uid] = IF job[w].kind = "rsa" THEN "key" ELSE "junk"]
    /\ Reply(w, "rsa-reg-ok", None)
    /\ UNCHANGED <<clientVars, reqs, aesKey, echo, active, cleanVars, heard, alive>>

\* Mutant: the wrong table is asked.
HasAesByPublic(u) == publics[u] # "none"

HasAes(u) == aesKey[u] # None

CheckAes(w) ==
    /\ alive /\ pc[w] = "aes"
    /\ Goto(w, IF HasAes(job[w].uid) THEN "getKey" ELSE "addAes")
    /\ UNCHANGED <<clientVars, reqs, resps, tableVars, job, wkey, plain, cleanVars, heard, alive>>

\* Another thread is changing cli_publics: reading it without its mutex, as
\* AddAes does, may then miss the entry.
PublicsRace(w) ==
    \/ cpc = "publics"
    \/ \E v \in Worker \ {w} : pc[v] = "addPublic"

\* cli_publics[uid] is read under the other table's lock, and inserts a default
\* key when the uid is gone.  OAEP opens only what was sealed for the server.
AddAes(w) == LET u == job[w].uid IN
    /\ alive /\ pc[w] = "addAes"
    /\ publics' = [publics EXCEPT ![u] = IF @ = "none" THEN "junk" ELSE @]
    /\ \/ /\ job[w].kind = "aes" /\ publics[u] = "key"
          /\ aesKey' = [aesKey EXCEPT ![u] = job[w].key]
          /\ Reply(w, "aes-reg-ok", job[w].key)
       \/ /\ job[w].kind # "aes" \/ publics[u] # "key" \/ PublicsRace(w)
          /\ Reply(w, "error", None)
          /\ UNCHANGED aesKey
    /\ UNCHANGED <<clientVars, reqs, echo, active, cleanVars, heard, alive>>

\* cli_aes_keys[uid] inserts an empty key when the uid is gone.
GetKey(w) == LET u == job[w].uid IN
    /\ alive /\ pc[w] = "getKey"
    /\ aesKey' = [aesKey EXCEPT ![u] = IF @ = None THEN Empty ELSE @]
    /\ wkey' = [wkey EXCEPT ![w] = aesKey'[u]]
    /\ Goto(w, "decrypt")
    /\ UNCHANGED <<clientVars, reqs, resps, publics, echo, active, job, plain, cleanVars, heard, alive>>

\* Expanding an empty key reads a null pointer.  A length that is no number of
\* blocks throws before that.
Crash(w) ==
    /\ alive /\ pc[w] = "decrypt"
    /\ wkey[w] = Empty /\ job[w].kind # "rsa"
    /\ alive' = FALSE
    /\ UNCHANGED <<clientVars, reqs, resps, tableVars, workerVars, cleanVars, heard>>

\* Decrypt, then read cli_echo_hello.
Decrypt(w) == LET u == job[w].uid IN
    /\ alive /\ pc[w] = "decrypt"
    /\ wkey[w] # Empty \/ job[w].kind = "rsa"
    /\ \E d \in Decrypted(job[w], wkey[w]) :
         \/ d = "fail" /\ Reply(w, "error", None)
         \/ d # "fail" /\ echo[u] = "no" /\ Reply(w, "rejected", wkey[w])
         \/ /\ d # "fail" /\ echo[u] # "no"
            /\ Goto(w, IF echo[u] = "none" THEN "addEcho" ELSE "callback")
            /\ plain' = [plain EXCEPT ![w] = d]
            /\ UNCHANGED <<job, wkey, resps>>
    /\ UNCHANGED <<clientVars, reqs, tableVars, cleanVars, heard, alive>>

\* Again after a gap and with no second look: a later verdict replaces an
\* earlier one.
AddEcho(w) == LET ok == plain[w] = "hello" IN
    /\ alive /\ pc[w] = "addEcho"
    /\ echo' = [echo EXCEPT ![job[w].uid] = IF ok THEN "yes" ELSE "no"]
    /\ heard' = [heard EXCEPT ![job[w].uid] = @ \cup {plain[w]}]
    /\ Reply(w, IF ok THEN "echo hello" ELSE "rejected", wkey[w])
    /\ UNCHANGED <<clientVars, reqs, publics, aesKey, active, cleanVars, alive>>

\* encr_cb, under no lock, then the encrypted answer - or, in clear, that one of
\* the two threw.
Callback(w) ==
    /\ alive /\ pc[w] = "callback"
    /\ Reply(w, "reply", wkey[w]) \/ Reply(w, "error", None)
    /\ UNCHANGED <<clientVars, reqs, tableVars, cleanVars, heard, alive>>

----------------------------------------------------------------------------
(* The cleaner: cleanup_inactive_clients.                                  *)

\* Any uid may have been silent for longer than the limit.
Collect == \E S \in SUBSET active :
    /\ alive /\ cpc = "sleep"
    /\ ticks < MaxTicks /\ ticks' = ticks + 1
    /\ todel' = S
    /\ reaped' = reaped \cup S
    /\ cur' \in S
    /\ cpc' = "publics"
    /\ UNCHANGED <<clientVars, reqs, resps, tableVars, workerVars, heard, alive>>

ErasePublic ==
    /\ alive /\ cpc = "publics"
    /\ publics' = [publics EXCEPT ![cur] = "none"]
    /\ cpc' = "aes"
    /\ UNCHANGED <<clientVars, reqs, resps, aesKey, echo, active, workerVars, ticks, todel, cur,
                   reaped, heard, alive>>

EraseAes ==
    /\ alive /\ cpc = "aes"
    /\ aesKey' = [aesKey EXCEPT ![cur] = None]
    /\ cpc' = "echo"
    /\ UNCHANGED <<clientVars, reqs, resps, publics, echo, active, workerVars, ticks, todel, cur,
                   reaped, heard, alive>>

EraseEcho ==
    /\ alive /\ cpc = "echo"
    /\ echo' = [echo EXCEPT ![cur] = "none"]
    /\ cpc' = "active"
    /\ UNCHANGED <<clientVars, reqs, resps, publics, aesKey, active, workerVars, ticks, todel, cur,
                   reaped, heard, alive>>

EraseActive ==
    /\ alive /\ cpc = "active"
    /\ active' = active \ {cur}
    /\ todel' = todel \ {cur}
    /\ \/ todel' = {} /\ cpc' = "sleep" /\ cur' = None
       \/ cpc' = "publics" /\ cur' \in todel'
    /\ UNCHANGED <<clientVars, reqs, resps, publics, aesKey, echo, workerVars, ticks, reaped, heard, alive>>

----------------------------------------------------------------------------
ClientStep(c) == Begin(c) \/ Recv(c) \/ SendAgain(c) \/ Send(c)

Serve(w) ==
    \/ CheckPublics(w) \/ AddPublic(w) \/ CheckAes(w) \/ AddAes(w) \/ GetKey(w)
    \/ Crash(w) \/ Decrypt(w) \/ AddEcho(w) \/ Callback(w)

WorkerStep(w) == Receive(w) \/ ReceiveCorrupted(w) \/ Serve(w)

Clean == Collect \/ ErasePublic \/ EraseAes \/ EraseEcho \/ EraseActive

Next ==
    \/ \E c \in Client : ClientStep(c)
    \/ \E w \in Worker : WorkerStep(w)
    \/ Clean

Spec == Init /\ [][Next]_vars

\* Threads are scheduled.  A recv returns when it can time out, or when its answer
\* is sure to arrive, which takes a network that loses nothing; then the queue
\* before the workers is first in, first out, so no client is passed over for
\* ever.  That answers come whole is never assumed, nor what the application sends.
Fairness ==
    /\ \A c \in Client : WF_vars(Begin(c)) /\ WF_vars(SendAgain(c))
    /\ Timeouts \/ ~Lossy => \A c \in Client : WF_vars(Recv(c))
    /\ \A w \in Worker : WF_vars(Serve(w))
    /\ ~Lossy => \A c \in Client : SF_vars(\E w \in Worker : ReceiveFrom(c, w))

FairSpec == Spec /\ Fairness

----------------------------------------------------------------------------
Key == Session \cup {None, Empty}

TypeOK ==
    /\ phase \in [Client -> {"start", "rsa", "aes", "hello", "ready", "down", "crashed"}]
    /\ attempt \in [Client -> 1..MaxAttempt]
    /\ tries \in [Client -> 0..Retries]
    /\ ckey \in [Client -> Session \cup {None}]
    /\ reqs \subseteq Request
    /\ resps \subseteq Answer
    /\ publics \in [Session -> {"none", "key", "junk"}]
    /\ aesKey \in [Session -> Key]
    /\ echo \in [Session -> {"none", "yes", "no"}]
    /\ active \subseteq Session
    /\ pc \in [Worker -> {"idle", "publics", "addPublic", "aes", "addAes", "getKey",
                          "decrypt", "addEcho", "callback"}]
    /\ job \in [Worker -> Request \cup {NoJob}]
    /\ wkey \in [Worker -> Key]
    /\ plain \in [Worker -> {"fail", "hello", "app", "noise"}]
    /\ ticks \in 0..MaxTicks
    /\ cpc \in {"sleep", "publics", "aes", "echo", "active"}
    /\ todel \subseteq Session /\ reaped \subseteq Session
    /\ cur \in Session \cup {None}
    /\ heard \in [Session -> SUBSET {"hello", "app", "noise"}]
    /\ alive \in BOOLEAN

\* A client that completed its handshake shares its AES key with the server,
\* whatever was lost, repeated, reordered or cut, and however the workers raced
\* through the gaps of deflect - until the cleaner collects its uid.
KeyAgreement == \A c \in Client :
    phase[c] = "ready" /\ Sid(c) \notin reaped => ckey[c] = Sid(c) /\ aesKey[Sid(c)] = Sid(c)

\* And the server did accept its hello, and takes its messages for those of an
\* accepted session - unless it forgot the session, or gave it another verdict on
\* noise: a late AES key deciphered as a text, which passes the padding check about
\* once in 256 times, by a worker that was in the gap before AddEcho as well.
EchoAgreement == \A c \in Client : phase[c] = "ready" =>
    /\ "hello" \in heard[Sid(c)]
    /\ echo[Sid(c)] = "yes" \/ Sid(c) \in reaped \/ "noise" \in heard[Sid(c)]

\* That takes two workers: a single one never gives a session it accepted another
\* verdict, so noise can then keep a client from becoming ready, but never a ready
\* client from being heard.
VerdictStands == (\A v, w \in Worker : v = w) => \A c \in Client :
    phase[c] = "ready" => echo[Sid(c)] = "yes" \/ Sid(c) \in reaped

\* Whatever the server keeps for a uid the cleaner can find again through
\* cli_last_active; only a collection racing a datagram leaves an orphan.
TrackedUntilReaped == \A u \in Session :
    publics[u] # "none" \/ aesKey[u] # None \/ echo[u] # "none" => u \in active \cup reaped

\* The operator[] that copies the AES key finds the entry seen two locks before,
\* so the null key is never expanded, unless the cleaner came in between.
CrashOnlyByReaping == ~alive => reaped # {}

\* With receive timeouts every handshake ends, in success or after the last
\* attempt, even if no datagram arrives - but for one whose answers come back cut
\* or damaged for ever, which do_while repeats without counting.
HandshakeEnds == \A c \in Client :
    <>(phase[c] \notin {"start"} \cup Handshake) \/ []<>Repeating(c)

\* The layer's promise: what clients believe and what the tables mean.
Belief(c) == CASE phase[c] = "ready" -> "ready"
               [] phase[c] \in {"down", "crashed"} -> "failed"
               [] OTHER -> "trying"
Verdict(u) == CASE echo[u] = "yes" -> "open"
                [] echo[u] = "no" /\ "app" \in heard[u] -> "refused"
                [] echo[u] = "no" /\ "app" \notin heard[u] ->
                     IF "hello" \in heard[u] THEN "revoked" ELSE "garbled"
                [] OTHER -> IF aesKey[u] # None THEN "keyed" ELSE "none"
Holding(u) == IF u \in reaped THEN "lost" ELSE Verdict(u)

Promise == INSTANCE SecureSession WITH
    Noise <- GarblePasses,
    client <- [c \in Client |-> Belief(c)],
    server <- [u \in Session |-> Holding(u)]

\* Every step of the datagrams, the racing workers and the cleaner is a step the
\* abstract session allows: ready implies opened, and an open session is refused
\* only for a client that gave up, or revoked on noise when noise can pass for text.
KeepsPromise == Promise!Spec

RaceFree == \A w \in Worker : pc[w] = "addAes" => ~PublicsRace(w)

\* When every datagram arrives once, no cleaning pass falls in, and no thread
\* changes cli_publics while another reads it without the mutex, the handshake of
\* every client whose answers come whole succeeds.
ReliableHandshake ==
    [](reaped = {} /\ RaceFree) => \A c \in Client : []~Repeating(c) => <>(phase[c] = "ready")

\* .bugs.md reports as critical that the mirror is handed a message without a
\* uid, the bare "hello" of a handshake: no worker should reach encr_cb with one.
HelloNeverReachesMirror == \A w \in Worker : pc[w] = "callback" => plain[w] # "hello"
=============================================================================
