# ReN-Messanger: a TLA+ model

ReN-Messanger is a messenger for two people who know each other's tunnel number. Its clients never
talk to each other directly: a *mirror* server keeps *tunnels*, pairs of queues, and an encrypted
request/answer layer (*ernet*) over UDP carries the requests. This directory holds TLA+ modules for
the parts of the program that carry its logic, TLC configurations that check them on small
instances, and TLAPS proofs of every invariant and action property they check, for any constants; section 6
names the hypotheses of those that need one.

Source paths below are relative to `src/src/include/` unless they start with `source/`.

## 1. The system

```
 msg_client.cpp                                  msg_server.cpp
   messenger/system/client.hpp  (ReNClient)        mirror/proto-alpha/serv.hpp (ServerProto: tunnels)
   mirror/client.hpp, proto-alpha/cli.hpp          mirror/server.hpp           (deflect: dispatch)
   ernet/cli_udp.hpp                               ernet/serv_udp.hpp          (sessions and keys)
   rawnet/cli_udp.hpp          <---- UDP ---->     rawnet/serv_udp.hpp         (receiver, worker pool)
```

| component | state it keeps | operations | what makes it correct |
|---|---|---|---|
| datagram server `rawnet/serv_udp.hpp` | `msg_queue`, `stop_event`, threads, socket | receiver loop, worker loop, `run`, `stop` | no datagram lost or handled twice between socket and workers; stop ends every worker |
| datagram client `rawnet/cli_udp.hpp` | socket, `servaddr` | `send`, `recv` (cuts at the first zero byte when asked to clear), time-out | what is cut is noticed above |
| ernet server `ernet/serv_udp.hpp` | `cli_publics`, `cli_aes_keys`, `cli_echo_hello`, `active_clients`, a lock for each, cleaner thread | `deflect`: frame check, RSA registration, AES registration, echo, callback; `cleanup_inactive_clients` | client and server agree on the key; nothing stays behind untracked; no empty key is expanded |
| ernet client `ernet/cli_udp.hpp` | `uid`, key pairs, AES key | `ern_hello` in three phases, `change_serv_ip` with three attempts, `send`, `recv` | a handshake ends, unless its answers are spoilt for ever; a ready client has the server's key |
| mirror dispatch `mirror/server.hpp` | handlers and argument shapes by type, `clients` | `deflect` | a request is read as it was written |
| tunnels `mirror/proto-alpha/serv.hpp` | `tunnels`, `tun_time`, cleaner thread | open, close, conn, check, check-exist, send, recv | nobody is its own peer, the peer stays, what is used is kept, what is abandoned goes |
| mirror client `mirror/client.hpp`, `proto-alpha/cli.hpp` | `connected_to`, `c_tunnels`, the retries, what is in the socket | create/close/connect tunnel, `wait_exist`, `send`, `recv`, all through `fail_safe_sr` | an answer is close to the call that takes it; a lost message is noticed; messages are read in order |
| futures `utility/sfuture.hpp` | a stop flag per future | `wait_first`, `await` | the first to succeed wins, the other stops |
| messenger `messenger/system/client.hpp`, `source/msg_client.cpp` | `my_tunnel`, `other_tunnel`, `curr_tunnel`, keys | `connect`, `crypto_hello`, `send_msg`, `check_msg`, `regme`, `dump` | both meet on one tunnel, exchange the right keys, and messages arrive in order |
| texts `utility/strvec.hpp` | none | `next_simb`, `count`, `split` | writer and reader agree |
| AES `crypto/aes`, RSA and OAEP `crypto/rsa` | keys | padding, CBC, key generation, OAEP | what is sealed opens again |
| SHA-256 `crypto/sha256.hpp` | `s_r_block`, `s_r_len`, `s_r_totlen` | `adjust_digest`, `digest_final` | what is compressed is what the standard pads the data to |
| stable `stable/st_packet.hpp` | none | a packet to bytes and back, its counts | a packet comes back as it was, signs included |
| test_net, TCP, console, legacy RSA | - | - | not modelled, see section 8 |

How they interact: every layer calls the one below it and hands it a callback for what comes back.
The server runs one callback chain per datagram on a worker of the pool, so everything from
`ernet_server::deflect` to `ServerProto`'s handlers runs concurrently with itself, and with two
cleaner threads. The client is sequential; `connect` polls two futures in turn on one thread.

What is hard:

* **Interleaving.** `deflect` takes and drops each table's lock several times for one datagram
  (test under a shared lock, insert under an exclusive one), so two workers may both find a uid
  missing. It reads `cli_publics` unlocked; `check_tunnel` reads its tunnel through `operator[]`
  after it has dropped the lock. The cleaner erases the four tables one lock at a time.
* **Delivery.** UDP loses, repeats and reorders; the server guesses a request's phase from what its
  tables hold; `recv` shortens a handshake answer that contains a zero byte, and a phase whose answer
  comes back cut or damaged is repeated without being counted.
* **Timeouts.** The handshake counts retries and attempts and swallows the last failure. The mirror
  client matches answers to calls by order only, so an answer that misses its call is read by the
  next one, and a request that is sent again is run again. Two cleaners compare milliseconds with
  seconds.
* **Protocol.** The messenger's two clients each look for the other's tunnel and close their own.

`PROJECT.json` lists these as hazards, each at its line with the properties aimed at it.

## 2. Modules

| module | models | extends |
|---|---|---|
| `ErNet` | the encrypted layer: clients, network, workers, cleaner | - |
| `SecureSession` | what that layer promises, without datagrams, workers or locks | - |
| `ErNetProofs` | `ErNet`'s types and key agreement | `ErNet`, `TLAPS` |
| `PromiseProofs` | the server's verdicts, and that `ErNet` implements `SecureSession` | `ErNetProofs` |
| `Tunnels` | the mirror's tunnels with their cleaner | - |
| `TunnelsProofs` | proofs about `Tunnels` | `Tunnels`, `TLAPS` |
| `Calls` | the mirror client's calls over a faulty network, composed with `Tunnels` | `Tunnels` |
| `CallsProofs` | how far an answer may stray, lost messages, the order of reading; every call is a step of `Tunnels` | `Calls`, `TunnelsProofs` |
| `Messenger` | two messengers and their mirror clients, composed with `Tunnels` | `Tunnels` |
| `MessengerProofs` | keys after a hello, meeting on one tunnel, the order of the messages; every call is a step of `Tunnels` | `Messenger`, `TunnelsProofs` |
| `RawServer` | receiver, worker pool, stop | - |
| `RawServerProofs` | one copy of each datagram | `RawServer`, `TLAPS` |
| `Text` | words, requests, frames, lists of uids, byte by byte (operators) | - |
| `Seal` | padding, CBC, RSA key generation, OAEP, SHA-256's blocks, key texts (operators) | - |
| `SealProofs` | recursion and sequences; padding, CBC, SHA-256's blocks, RSA, radices and OAEP for any sizes | `Seal`, `TLAPS` |
| `Packet` | the stable layer's packet (operators) | `Seal` |
| `Codec` | one text from its writer over a network to its reader | `Text`, `Packet` |
| `CodecProofs` | numbers, words, requests, frames, lists, packets and sealed keys of any length are read as they were written | `Codec`, `SealProofs` |
| `MC*` | instances for TLC | the module each is named after |

### ErNet

A session is a client and the number of its attempt (the code draws a fresh uid for each). A client
is in one of the phases of `ern_hello` (`rsa`, `aes`, `hello`) or done. It begins, and then waits in
`recv`, which returns in one of four ways: `Accept` takes an answer as it is; `Repeat` finds that its
size or its digest does not fit (`__send`'s codes 5 and 6), and `do_while` starts the phase's `__send`
anew (`SendAgain`), **without counting**; `Damaged` is every other way of spoiling an answer (too few
bytes count as none, a size that is no number ends the attempt); `Timeout` is no answer. Retries and
attempts are counted as `__send` and `change_serv_ip` count them. A cut at a zero byte, `recv`'s own
doing, befalls encrypted answers on any network; damage needs `Lossy`. `Send` is what the layer above
does afterwards, whatever the outcome. A worker is cut **at every lock**: `CheckPublics`,
`AddPublic`, `CheckAes`, `AddAes`, `GetKey`, `Decrypt`, `AddEcho`, `Callback` are the sections of
`deflect` between two lock operations, and whatever other workers or the cleaner do may come between
them. `Collect`, `ErasePublic`, `EraseAes`, `EraseEcho`, `EraseActive` are the cleaner's. Keys are
the sessions they were made for, `None` (absent) or `Empty` (an entry raised by `operator[]`, whose
expansion ends the process: `Crash`). The unlocked read of `cli_publics` while that table changes
is a choice of outcomes (`PublicsRace`). RSA is what it promises: the answer to a registration can
be opened by whoever registered. A wrong AES key fails the padding check or, if `GarblePasses`,
produces noise that the code takes for text (about once in 256 times; every run has it).

The server's table `cli_echo_hello` is kept as the verdict it holds; `heard` is history: the texts on
which a session was ever given a verdict. No guard reads it. What the client's `recv` does
after the handshake is left out here; the frame it checks is in `Text`, and what a caller makes of
its failures is in `Calls`.

### SecureSession

A client is trying, ready or failed and makes one attempt after another, each a session of its own.
The server keys a session, then opens or refuses it, or loses it to the cleaner. A client becomes
ready only in a session that was opened, and only one that has given up is refused - but for noise:
where it can pass for text (`Noise`), it garbles a session that is not yet open and revokes one that
is, whatever its client did. `ErNet!Promise` maps `ErNet` to it, and `KeepsPromise` says that every
step of `ErNet` is one of its steps or none.

### Tunnels

`tunnels[t]` is a record or `None`. Time is kept as ages: `age[t]` is now minus `tun_time[t]`, `lag`
is how long ago the cleaner read the clock it will compare with. A handler is an operator on its
client, tunnel and answer, one step under `tunnels_mtx`, except `check_tunnel`, which is two:
`CheckTunnel` under the lock and `CheckPeer` after it, where `operator[]` may raise an entry that
nobody opened (`ghosts`) with any uid in it. `close_tunnel` leaves a stamp behind, as in the code.
`Discovery` is the handler that lists joinable tunnels touched within `Recent`: reading `tun_time[t]`
of a tunnel without a stamp gives it one at the epoch, so a discovery hands a `ghost` to the cleaner.
Both programs have its registration commented out; it is there because the class offers it.

### Calls

`mirror::Client` does every operation through `fail_safe_sr`: send the request, wait for bytes, send
again up to `Retries` times. Nothing in a datagram says which call it belongs to. `wire[c]` is the
queue between one client and the server: answers nobody has read, then requests nobody has run.
`Call`, `TimeOut`, `TakeNothing` and `Take` are the client's steps (the lists `connected_to` and
`c_tunnels` with the code's `erase(remove_if(...))`, which removes one element whatever was found),
`Execute` the server's, which runs the handler of `Tunnels` once for **every** copy that arrives, and
`Repeat`, `Overtake`, `Damage` and `Lose` the network's. Workers that finish out of order look like
datagrams that overtake each other. A damaged request is refused in clear and that refusal, like a
damaged answer, counts as an answer, because `fail_safe_sr` looks only for -1 and for no bytes. The
cleaner sleeps here, and sessions are open. `of`, `resent`, `repeats`, `swaps`, `taken` and `read` are
history: they record what the properties compare and no guard reads them (`faults` is the bound).

### Messenger

Each client steps through `connect`, `crypto_hello` and a conversation of `MaxRounds` exchanges, in
the order of `source/msg_client.cpp`. A mirror call is `Call` (the handler runs and its answer goes
into the client's socket buffer) and `Heard`, or `TimeOut`, which leaves the answer there for the
next call. `wait_first` asks first one tunnel, then the other; the answers, the list of known tunnels
and the future that stops are kept. The handlers are those of `Tunnels`, whose cleaner runs
concurrently when `Reaping`. Damaged, repeated and overtaken datagrams are left to `Calls`.

### RawServer

`rpc` and `wpc` are the program counters of the receiver and of each worker. `queue_mutex` is held
in `drowsy`, `check` and `pop` (`Free`); `stop` sets the flag and notifies **without** it, so a
notification may fall between a worker's test and its sleep. `TimedOut` is the 100 ms limit of
`wait_for`.

### Text, Seal, Packet and Codec

A text is a sequence of small numbers: a decimal digit is itself and the other bytes the code tells
apart have a number each. `NextSimb`, `Split`, `Deflect`, `OpenRequest` and `OpenAnswer` follow the
code index by index, the search that begins one byte late included. A result that may be an
exception is a set that is empty when the code throws. `Seal` keeps the arithmetic and takes the
sizes, the block cipher and the hash as constants; of SHA-256 it models what `adjust_digest` and
`digest_final` feed the compression function, block after block, against the standard's padding of the
whole text.
`Packet` is the packet of `stable/st_packet.hpp` with its fixed widths, its signed counts and the body
whose size the header names. A list of uids is what a `std::map` yields, ascending. `Codec` makes a state machine of it: write one text, let one thing at
most happen to it on its way, read it, compare.

## 3. Runs

| run | instance | question |
|---|---|---|
| `ernet_lossy` | 1 client, 2 attempts of 2 sends a phase, 1 worker, network that loses, repeats, reorders, damages, time-outs; noise passes | types, `KeyAgreement`, `VerdictStands`, `HandshakeEnds`, refinement of `SecureSession` |
| `ernet_reap` | 1 client, 1 attempt of 1 send a phase, 2 workers, the same network, the cleaner runs once | `KeyAgreement`, `EchoAgreement`, what the cleaner leaves (`TrackedUntilReaped`), who can crash the server, refinement |
| `ernet_reliable` | 2 clients, 2 workers, each datagram delivered once, no time-outs, answers cut at will, noise passes | a handshake succeeds unless one of its answers was cut or the unlocked read races |
| `ernet_hello_leak` | 1 client on a reliable network | violated by one cut answer: see section 7 |
| `tunnels_three` | 3 clients, 1 tunnel, 2 workers, 2 messages | peers, stamps, what the cleaner takes and must take |
| `tunnels_minutes` | 2 clients, 1 tunnel, 3 timestamps a second | violated: see section 7 |
| `calls_lossy` | a writer that sends everything twice if it must, a reader that sends once, 1 tunnel, 3 calls each, 2 faults | how far an answer strays, when a lost message is noticed, the order of what is read |
| `messenger_calm` | 2 clients, 3 exchanges, no time-outs, no cleaner | they meet, the owner talks to the end, two messages wait at most |
| `messenger_rough` | 2 clients, 2 exchanges, time-outs and cleaner | keys and order survive late answers and lost tunnels |
| `messenger_met` | 2 clients, 1 exchange, nothing lost or late | violated: see section 7 |
| `raw_pool` | 3 workers, 2 datagrams, stop at any time | one copy of each datagram, all are served, all workers stop |
| `codec` | 17 payloads, 12 answers that name uids, 341 plain texts, all 12-bit key pairs of `genPair`, 13 key texts, 255 texts to hash, 48 packets | every reader understands its writer or refuses |

Why the bounds are enough for these questions. The races of `deflect` are between two workers on one
uid, which is `ernet_reap`; two attempts give a late datagram of an old session to be confused with, which is
`ernet_lossy`. The two together have 1.5 million states without the cleaner, and their safety is left to the
proofs of section 6. How often an answer comes back spoilt has no bound: `Repeat` only sets the tries
back, so the repetitions are cycles of a finite graph, and `HandshakeEnds` has to except the behaviours
that stay in one. `ernet_reap` takes its workers as interchangeable (`WorkerSymmetry`, for invariants and
step properties only) and has 1.5 million states. A session is revoked there: the two workers and the late
key are all it takes. `tunnels_three` needs a third client for "the
peer changed" to be possible, two workers for two unlocked reads, and ages only up to `MaxAge` (a
larger one compares the same way, `MaxAge > Timeout + MaxLag` is assumed). Two exchanges are the
first in which a message can overtake another; three show that the queues do not grow. With two
datagrams and three workers one worker is always without work, so the sleep/notify race happens.
In
`calls_lossy` three calls are enough for an answer to be two calls late, and two faults for two of
them to add up; one client with retries and one without are the two cases `LossIsNoticed` tells apart,
and the writer's third message is the empty one, whose answer counts as none. The run has 1.08 million
states. In `codec` the payloads contain spaces at either end, doubled spaces, zero bytes, a minus sign and
digits, and an answer that reads like an error; the hashed texts end at every place in a block, the
two before the length's among them; the packets' counts reach the sign bit of a short.

Bounds that exist only to make the state space finite are constants named in the modules (`MaxAttempt`
and `Retries` are real: 3 and 3 in the code; `MaxTicks`, `MaxAge`, `MaxLag`, `MaxQueue`,
`MaxRounds`, and `MaxCalls` and `MaxFaults` of `Calls`, where `MaxFaults` is a guard of the time-out and
of the network). SHA-256 keeps the length of its text in a 32-bit `unsigned`, in bits, and writes the
lower half of the standard's 64: right for texts below half a gigabyte. In the toy two bytes of two bits
are written, and texts stay below that too. `MaxQueue` is a guard of sending in `Tunnels`, and
`AtMostTwoWaiting` shows with `MaxQueue = 3` that the messenger never meets it.

`CHECK_DEADLOCK FALSE` stands where the system really stops: after a handshake that is done or a
server process that has died (`ErNet`), after a conversation's end or when both clients poll for
something that cannot come any more (`Messenger`, a poll that hears nothing changes nothing), after
the last call of both programs (`Calls`), after `stop` (`RawServer`). `Tunnels` and `Codec` are checked
for deadlock.

## 4. Fairness

* `ErNet!FairSpec`: client threads and workers run (weak fairness of each), and a `recv` returns if it has a
  time-out or if no datagram can get lost. Which of the four ways it returns in is left open: that answers
  come whole is never assumed, so a run may repeat a phase for ever, and `HandshakeEnds` says that this
  is the only way not to end. Nothing is assumed of the cleaner, of what the application sends, nor, with
  `Lossy`, of the network. Without `Lossy` a client's request is taken by some worker (strong: workers are
  busy in between, and the queue before them is first in, first out).
* `Tunnels!FairTunnels`: time passes, the cleaner thread wakes, and it gets its lock (weak: a handler is
  one step, so the lock is free in every state). Nothing is assumed of the clients.
* `Messenger!FairSpec`: each client's thread runs.
* `RawServer!FairSpec`: threads run and 100 ms pass (weak); taking `queue_mutex` is strong, because the
  mutex is free infinitely often rather than for ever and the platform's mutexes do not starve a waiter
  for ever. Nobody is assumed to call `stop`, and `Served` excuses it.

## 5. Properties

Every property carries a comment that states it in the module; this is the map.

* `KeyAgreement`: a ready client's key is the one the server has for that uid, whatever was lost,
  repeated, reordered or damaged. `EchoAgreement`: the server did accept a ready client's hello and has the
  session open still, unless it forgot it or gave it another verdict on noise. That happens: a late AES
  key, read under the wrong phase, decrypts to noise that passes the padding check about once in 256
  times, and a worker that was already between its look at `cli_echo_hello` and its insertion
  writes "no" over the "yes". `VerdictStands`: it takes two workers. With one, a session the server
  accepted stays accepted; noise that comes first then costs the client its attempt instead.
* `KeepsPromise`: the refinement of `SecureSession`, which names what noise may do and forbids the rest.
* `TrackedUntilReaped`, `CrashOnlyByReaping`: the cleaner erases the tables one at a time; what a
  request puts back in between is known to no later pass, and an empty key may be expanded, ending the
  process. Both cannot happen without the cleaner.
* `HandshakeEnds`, `ReliableHandshake`: liveness of the handshake. The first needs the time-outs and no
  network; the second a network that loses nothing and no time-outs. A client whose answers come back
  cut or damaged every time is excepted in both, because the code repeats the phase as long as they do.
* `NoSelfTunnel`, `PeerFixed`, `Tracked`, `InUseIsKept`, `AbandonedIsCollected`: the tunnels. The
  last two are the cleaner's two duties; an entry raised by the unlocked read of `check_tunnel`
  has no stamp and escapes the second, which is why `Tracked` names `ghosts`.
* `AnswerAge`: an answer a waiting client could be given belongs to one of its last `Disturbed + 1`
  calls, where only resending, doubling and overtaking count. Losses and damage never shift the
  conversation; one resend shifts it by one call, and for good, since nothing resynchronises it.
  `LossIsNoticed`: with one send per call (the default) a message that the mirror has handed out and the
  client never read left a sign, a call that failed or a strange text for a message. With
  `set_retries` above one it need not: the second copy takes the second message, and nobody reads the
  first answer in its place. That is what the antecedent `Retries[c] = 1` says. `ReadInOrder`: whatever
  else happens, and however many clients there are, what a client reads of one author in one tunnel it
  reads in the order it was sent, until a datagram overtakes another.
* `NeverBothOwn` (of each pair), `OwnerTalks`, `AtMostTwoWaiting`, `HelloAgreement`, `InOrder`: the
  messenger.
* `OneCopy`, `Served`, `WorkersStop`: the datagram server.
* `RequestUnderstood`, `InfoRestored`, `RequestWholeOrRefused`, `AnswerWholeOrRefused`,
  `MessageDeciphered`, `KeyUnsealed`, `UidsUnderstood` (a list of uids ends where its writer ended it, and
  is read in its order),
  `HashedAsSpecified`, `PacketRestored`: the codecs.

For each there is a mutant in `PROJECT.json`: a definition changed the way a plausible bug would
change it, under which the property fails. The mutated forms stand in the modules, marked `Mutant:`.

## 6. Proofs

All for any values of the constants that satisfy the modules' assumptions.

* `ErNetProofs`. `TypeCorrect` and `SessionInvariant`: `SessionInv` is inductive, and `KeysAgree`,
  `Tracked` and `NoCrashWithoutReaping` follow. `KeyAgreement` alone is not inductive: that the client's
  key equals the server's depends on what every AES answer on its way says, which depends on what the
  worker that sent it registered, which depends on no other worker registering a second key for that
  uid. `SessionInv` therefore is `Shape` (types, and what a busy worker holds) with `Authentic` (every
  key in a table, an answer or a worker was made for its uid), `OwnKey`, `Acknowledged` (a client past
  a phase finds the server past it too), `Agreed`, `SeenKey`, `TrackedJob` with `TrackedUntilReaped`
  (between the datagram's stamp and its insertions), and `CrashOnlyByReaping`. The proof has one step
  for each action and below it one for each part the action can disturb.
* `TunnelsProofs`. Every step changes a tunnel in one of the few ways `Moved(t)` lists: it appears by
  `OpenTunnel` or by an unlocked read, its peer or queue is set, it goes. From that one lemma a case
  split gives `NobodyTalksToItself`, `FirstPeerStays`, `CleanerKnows` and `TunnelInUseStays`. The
  invariant needs `only-one` (`IsAuthor`) for the author's own connect and, for the read of
  `check_tunnel`, that a raised entry is in `ghosts`.
* `PromiseProofs`. `ImplementsPromise`: every behaviour of `ErNet` is one of `SecureSession`
  (`KeepsPromise`), and `EchoesAgree` (`EchoAgreement`), whether or not noise can pass the padding check.
  The invariant added to `SessionInv` is `EchoInv` (`EchoInvariant`): an application's request belongs to a
  session whose handshake is over (`AppsAreLate`), a worker that decrypts holds the table's key or the
  empty one (`OwnCopy`), a verdict about to be stored is on the hello, on noise if noise can pass, or on a
  message of a client that has given the session up (`Verdicts`), an echo on its way speaks of a session
  whose hello was heard (`Welcomed`), and what a session holds agrees with what was heard for it
  (`Recorded`, `AppsRefused`). `EchoAgreement` alone is not inductive for want of the last three. Each step
  then maps to a step of the abstract session or to none, action by action. `OneVerdict` proves
  `VerdictStands` with one conjunct more, `SoleVerdict`: the worker that is about to store a verdict still
  finds none stored.
* `CallsProofs`. `AnswersStayClose` proves `AnswerAge`. What is inductive is `InLine`: the i-th datagram of
  the queue belongs to a call no older than its place in the queue allows, given the resends, copies and
  swaps so far, and never younger than the call being made. `AnswerAge` forgets the places, so it cannot
  be carried over a step that moves the queue up. `CallsRunTheMirror` shows that every step of `Calls` is
  one of `Tunnels` or leaves it alone, and `NoSelfTunnelInCalls` reads off it what `Tunnels` guarantees.
  `CallsTypeCorrect` proves the types. `LossIsSeen` proves `LossIsNoticed`: with one send per call a message
  the mirror has handed out is in an answer on its way to its reader, has been read, or its loss has been
  told. `ReadsInOrder` proves `ReadInOrder` from `Ordered` and `Stream`, which hold while the network is
  `Calm`. `Ordered`: within the wire, and within each of the mirror's queues, calls are in the order they
  were made. `Stream`: of one author's messages to one reader, those read last, on their way to the
  reader, in the queue, and on their way to the mirror are in this order, each no older than the next;
  every step moves a message from one of these places to the next or drops it. `ReadInOrder` knows
  only the last of the places.
* `MessengerProofs`. `HellosAgree` and `MessengerTypeCorrect`, for any number of pairs, with or without
  time-outs and the cleaner: `TalkInv` says who speaks in each queue (`Voices`: a tunnel is authored by its
  owner, and what is in its queues comes from the side it was put in by), so what waits in a client's
  mail comes from its partner (`Letters`), and what is loaded as a key is the partner's or no key
  (`Keys`). `PairsMeet`, without time-outs and the cleaner: a tunnel stands while its owner may yet stay in
  it (`Kept`), so who is told that the other's is missing knows the other has not looked at its own
  (`OneLooked`). `NeverBothOwn` by itself says nothing of clients that are still asking.
  `OrderInvariant` adds the conversation itself, with time-outs, late answers and the cleaner: whose turn it
  is, and what may be in line between two partners (a queue, an answer in the mail, what is being read)
  for the turns each of them has taken. A step takes a turn, moves a message up the line, or loses it;
  the lemmas name five such moves and each action is one of them. `MessagesInOrder` (`InOrder`) and
  `FewWait` (`AtMostTwoWaiting`) follow: a queue never holds
  more than two payloads, since what both have said there and may yet say before they must hear an answer
  is at most two (`Turns`). `MessengersRunTheMirror` shows that the messengers refine `Tunnels`: what a call
  sends is a payload of its own, so each request is one of the mirror's handlers, whether its answer is
  in time, late or lost. `MessengersKeepTheMirror` takes over what `Tunnels` guarantees, and
  `MessengersLeaveNoGhost` adds that none of the handlers they call raises a tunnel the cleaner cannot see.
* `RawServerProofs`. `NoDatagramTwice` (`OneCopy`) and `PoolTypeCorrect`, for any number of workers.
  Their invariant adds `CheckFinds`: a worker that has been let through its wait, unless `stop` let it
  through, finds the queue filled, because nobody takes from it between the test and the pop, both under
  the mutex. Without it `pop` might read an empty queue.
* `SealProofs`. `UnpadPad`: unpadding undoes padding, for data of any length. It rests on the block
  length fitting a byte, which `SealAssumption` states. `DecryptEncrypt`: decrypting undoes encrypting,
  padding and chaining included, for any block cipher that permutes the blocks under the key, any initial
  vector and data of any length. `LengthHasRoom`: what SHA-256's `digest_final` appends fits the one or two
  blocks it makes, with no block to spare, for any sizes. `RsaUndone`: RSA's exponents undo each other. The
  way there is the textbook's, from the division of integers up: a remainder is unique (`Remainder`),
  congruence is kept by sums and products (`Same`), a prime that divides a product divides a factor, Fermat's
  little theorem, and two primes that divide a number divide it together; last, `mpz_powm`'s squarings
  compute the power. `OaepDecodeEncode`: OAEP's decoding undoes its encoding, whatever the hash, since each
  mask is computed again from what was left in the clear by the other (`MaskedTwice`), and the mark is the
  first byte behind the label's digest that is not zero (`DataBlock`). A number written by dividing again and
  again is worth itself in any radix (`WrittenInRadix`), which serves the decimal numbers of `CodecProofs` and the
  keys' hexadecimal lines, read back by `KeyTextIs`. The module also holds the lemmas on recursion
  that `CodecProofs` needs. The library's induction theorems cannot be used, as they take a predicate;
  induction is stated on sets of naturals instead (`Induction`), from the least element of a set, and
  from it follow that a recursive function exists and is what its equations say (`Recursion`), and how
  `FlattenSeq` and `FoldLeft` go on by one element (`FlattenAppend`, `WorthAppend`).
* `CodecProofs`. Six theorems on the operators alone: `StollDecimal` (reading a printed number gives the
  number, whatever follows it), `RegmeDump` (the messenger's line), `DeflectNetRequest` (a request's
  type, uids and arguments), `FoundReadText` and `PeerReadText` (uids the mirror names),
  `HashInputIsStandard`. The invariant `TextInv` says for each kind of text that what is on the wire is
  what its writer makes of parts of the right types, or, for a packet, a beginning of it. `RequestUnderstood`,
  `InfoRestored`, `MessageDeciphered`, `HashedAsSpecified`, `PacketRestored` and `UidsUnderstood` are
  `TextInv` with the theorem for that kind applied.
  The frames have an invariant of their own, `FrameInv` (`FramesArrive`): what is on the wire has `Arrived`
  of what was sent (a beginning of it, or all of it but for one byte), and its reader has read that. The
  rest is one lemma, `SameContents`: whoever finds a size at the first space, and behind it a digest and
  the text of that digest, has either found the size that was written, and the text, or has been
  led to another place by the one change, and then the frame is too short or a space stands where the
  digest would be; a changed size names more bytes than there are, because it begins with the digits of
  the right one (`StollBeyond`). `RequestsWholeOrRefused` and `AnswersWholeOrRefused` follow, in the states
  of `NoCollision`: no part of what has arrived has the digest of the contents but the contents. Without
  that no digest makes them true. They also suppose that every digest is a word of one length
  (`SumsAreWords`; the hex digits of SHA-256 are 64), and that one is longer than a printed size
  (`FrameAssumption`), or else a size that has swallowed the digest might pass. TLC,
  asked for `NoCollision` and for words as the digests of all parts of the wire, finds both in every state
  of `codec`.
  `KeysAreUnsealed` puts RSA and OAEP together, in one theorem on two key pairs, `OpenKeySealed`. Two steps
  are the code's own. The reader takes the length from the other pair's modulus: moduli of `genPair` have
  as many bits as asked for or one less, so for whole bytes, of two bits at least, all have the same
  length (`KeyPairIs`). And `_encrypt` never needs its second seed: an encoded message begins with a zero
  byte, so as a number it is below any modulus of its length. `KeyInv` (`KeysAreSealed`) says that what is on
  the wire was sealed for its reader's pair, and what was read is what `_decrypt` makes of that. The theorem
  supposes `HashesAreDigests`: the hash takes byte words to words of its length. That
  quantifies over all byte words, which TLC cannot enumerate, so it is a hypothesis and no `ASSUME`.

Only model-checked: what is temporal beyond invariants and action properties (`HandshakeEnds`,
`ReliableHandshake`, `AbandonedIsCollected`, `OwnerTalks`, `Served`, `WorkersStop`), which is outside this
prover. Every invariant and every action property of a passing run is proved.

## 7. Findings

* `ernet_hello_leak` (bug): a handshake answer cut at a zero byte makes the client send its hello
  again; the server has the session open by then and hands the text to the mirror.
  `src/.bugs.md:10-17` describes the effect and calls it critical.
* `tunnels_minutes` (divergence): the cleaners compare milliseconds with 300 and the comment says
  five minutes. A tunnel idle for 0.3 s goes with the next pass.
* `messenger_met` (bug): if both clients find the other's tunnel before either has closed its own,
  both close, both connect to nothing, and `connect` ignores the verdict. Both then poll for ever.

Met while modelling, and not run: `deflect` in `ernet/serv_udp.hpp:112-115` builds a vector `first_data`
past the end of a buffer it has just shortened (the value is unused); a request whose size word is
larger than the datagram is read past its end before any check (`Text` counts it as refused, which the digest
makes it if the process survives the read); `recvfrom` overwrites `servaddr`, so the
next request goes to whoever answered; `mirror::Client`'s constructor shakes hands before it sets a
time-out, so that one lost datagram blocks it for ever; `wait_first` swallows what a future throws and
asks only the others from then on, for ever when none is left.

## 8. Not modelled

* `stable/client.hpp` and `server.hpp`: they pass datagrams through; the resend protocol described in
  `plan.md` is not written. Its packet is in `Packet`.
* `test_net/`: a harness that damages datagrams; the networks of `ErNet`, `Calls` and `Codec` do that.
* `rawnet/*_tcp.hpp`, `console/`, `crypto/rsa/legacy`: used by no program, or by a demonstration only.
* The rounds of AES (vendored) and SHA-256's compression: fixed functions. Of the digest `Codec` uses only
  that it differs for different contents, holds no space and is of one length, that of more bytes than its
  frame's size has digits (`FrameAssumption`, which also keeps answers within the sizes the client
  takes); of the block cipher, that it permutes
  the blocks under each key (`CipherAssumption`); of the exclusive or, that it undoes itself
  either way round (`XorAssumption`); of OAEP's hash, its length. `mpz_nextprime` tests a probable prime;
  here it finds the next prime, which exists because between a number and its double there is one
  (Bertrand's postulate; `KeyAssumption` states it for the numbers drawn, and TLC evaluates it). The other
  assumptions bound the data as the code's types do: the number of bits hashed fits the half of its bytes
  that is written (`HashedAssumption`), a packet's numbers fit their fields (`PacketAssumption`), tunnels
  are listed in the order of the mirror's `std::map` (`ListAssumption`). The sizes of the run are toys:
  2-bit bytes, 2-byte blocks, 12-bit moduli, a one-byte hash in OAEP, digests of three bytes.
* `wait_tunnel`'s futures with `upd_peer` and `conn_uid`, and `swap_serv`: no program calls them. The texts
  `wait_tunnel` and `discovery` exchange are in `Codec`, discovery's handler in `Tunnels`.
* `recvfrom` overwriting `servaddr` in `rawnet/cli_udp.hpp`: there is one server in every model.
* The mirror's `clients` table: only a cleaner that nothing starts reads it.

## 9. Plan

1. Done: `ErNet` with `SecureSession`, `Tunnels`, `Calls` and `Messenger` (both compose `Tunnels`, and are
   proved to refine it), `RawServer`, `Text`/`Seal`/`Packet`/`Codec`; the safety of all of them proved for any
   constants, and the refinement of `SecureSession`.
2. Left to model: sessions under `Calls` (a request whose session the cleaner has taken), `wait_tunnel` if a
   program comes to use it, and `stable`'s resend protocol once it is written.
3. Left to prove: nothing but liveness, which needs another prover.
