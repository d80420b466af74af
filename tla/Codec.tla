------------------------------- MODULE Codec -------------------------------
(***************************************************************************)
(* One text at a time: its writer puts it on the wire with the functions   *)
(* of Text, Seal and Packet, a network that may shorten it or change a byte*)
(* carries it where it crosses one, and its reader makes of it what the    *)
(* code makes of it.                                                       *)
(***************************************************************************)
EXTENDS Text, Packet

CONSTANTS
    Uids,       \* the uids of clients and tunnels
    Lists,      \* lists of tunnels, as the mirror's map has them in order
    Payloads,   \* the contents of a message, a request or an answer
    Infos,      \* the messenger's three uids, or -1
    Plains,     \* what AES encrypts
    AesKeys, Ivs,
    KeyBits,    \* the length of an RSA modulus
    KeyTexts,   \* what RSA encrypts: AES keys
    Seeds,      \* what OAEP draws
    Hashed,     \* what is hashed
    Packets,    \* packets of the stable layer, without the counts of their bytes
    SumLen,     \* the length of a digest
    Noise       \* what a byte may be changed to

\* Read uids, each more than the one before.
Ascending(uids) ==
    \A i, j \in DOMAIN uids : i < j => \A u \in uids[i], v \in uids[j] : u < v

\* The types of requests are words, with one argument at most behind the uids.
ASSUME RequestAssumption ==
    /\ Uids \subseteq Int /\ Payloads \subseteq Seq(Int)
    /\ \A type \in DOMAIN Arguments :
          /\ type \in Seq(Int) /\ type # <<>> /\ \A i \in 1..Len(type) : type[i] # Space
          /\ Arguments[type] \in {<<>>, <<TRUE>>, <<FALSE>>}

ASSUME ListAssumption ==
    \A list \in Lists : list \in Seq(Int) /\ Ascending([i \in DOMAIN list |-> {list[i]}])

\* A frame's digest is longer than its printed size.
Framable(content) ==
    Len(Digest(content)) = SumLen /\ Len(Decimal(SumLen + 1 + Len(content))) < SumLen

\* And an answer is of a size that the client takes.
ASSUME FrameAssumption ==
    /\ {SumLen, TooSmall, MaxAnswer} \subseteq Nat /\ Noise \subseteq Int
    /\ \A data \in Payloads :
          /\ TooSmall <= Len(Frame(data)) /\ SumLen + 1 + Len(data) <= MaxAnswer
          /\ Framable(data) /\ \A uid \in Uids : Framable(Decimal(uid) \o <<Space>> \o data)

ASSUME InfoAssumption == Infos \subseteq Int \X Int \X Int

\* With each key the cipher takes different blocks to different blocks.
ASSUME CipherAssumption ==
    /\ Plains \subseteq Seq(Byte) /\ Ivs \subseteq Block
    /\ \A key \in AesKeys, a, b \in Block :
          /\ Cipher(key, a) \in Block
          /\ Cipher(key, a) = Cipher(key, b) => a = b

\* Moduli are of whole bytes, and between a number and its double there is a prime.
ASSUME KeyAssumption ==
    /\ ByteBits > 1 /\ KeyBits \in Nat /\ KeyBits >= 4 /\ KeyBits % ByteBits = 0
    /\ KeyTexts \subseteq Seq(Byte) /\ Seeds \subseteq [1..HLen -> Byte]
    /\ \A x \in TwoTo[KeyBits \div 2 - 1]..TwoTo[KeyBits \div 2] - 1 :
          \E p \in x + 1..2 * x : IsPrime(p)

\* The number of bits fits the half of its bytes that is written.
ASSUME HashedAssumption ==
    \A data \in Hashed :
        /\ data \in Seq(Byte)
        /\ \A e \in LengthBytes \div 2..LengthBytes - 1 : ByteBits * Len(data) < Power[e]

\* Uids are of a signed type of eight bytes; a length fits the four written of it.
ASSUME PacketAssumption ==
    \A p \in Packets :
        /\ p.flag \in Byte /\ p.body \in Seq(Byte) /\ Len(p.body) < Power[4]
        /\ {p.con, p.pack} \subseteq Power[8] \div 2 - Power[8]..Power[8] \div 2 - 1

VARIABLES
    job,    \* what is being sent: its kind, its parts, and the bytes it became
    wire,   \* those bytes now; for a key, the sealed one, or nothing if sealing failed
    got     \* what the reader made of them, in a tuple; empty before

vars == <<job, wire, got>>

NoJob == [kind |-> "none"]

Init == job = NoJob /\ wire = <<>> /\ got = <<>>

Write(kind, parts, bytes) ==
    /\ job' = [kind |-> kind, parts |-> parts, sent |-> bytes]
    /\ wire' = bytes
    /\ got' = <<>>

Read(kind, result) ==
    /\ job.kind = kind /\ got = <<>>
    /\ got' = <<result>>
    /\ UNCHANGED <<job, wire>>

-----------------------------------------------------------------------------
(* A request to the mirror; the payload goes with the types that carry one, *)
(* and discovery, which takes one word, names no tunnel                     *)

Parts(r) == <<Decimal(r.uid)>> \o (IF r.tunnel = -1 THEN <<>> ELSE <<Decimal(r.tunnel)>>)
              \o (IF Arguments[r.type] = <<FALSE>> THEN <<r.payload>> ELSE <<>>)

Ask(r) == Write("ask", r, NetRequest(r.type, Parts(r)))
Hear   == Read("ask", Deflect(wire))

\* The peer of a tunnel, and the tunnels that may be joined.
TellPeer(peers)      == Write("peer", peers, PeerText(peers))
HearPeer             == Read("peer", PeerRead(wire))
TellFound(list, own) == Write("found", [list |-> list, own |-> own], FoundText(list))
HearFound            == Read("found", FoundRead(wire, job.parts.own))

\* The messenger's line of uids, printed at one start and read at the next.
SaveInfo(info) == Write("info", info, Dump(info))
LoadInfo      == Read("info", Regme(wire))

\* A request and an answer of the encrypted layer.
Send(uid, data) == Write("send", [uid |-> uid, data |-> data], RequestFrame(uid, data))
Receive         == Read("send", OpenRequest(wire))
Reply(data)     == Write("reply", data, Frame(data))
Accept          == Read("reply", OpenAnswer(wire))

\* What happens to a datagram on its way: one thing at most.
Carry(kinds, bytes) ==
    /\ job.kind \in kinds /\ got = <<>> /\ wire = job.sent
    /\ wire' = bytes
    /\ UNCHANGED <<job, got>>

\* The handshake's answers are cut at their first zero byte.
Clear        == Carry({"reply"}, Cleared(wire))
CutOff(n)    == n < Len(wire) /\ Carry({"send", "reply", "packet"}, SubSeq(wire, 1, n))
Damage(i, c) == Carry({"send", "reply"}, [wire EXCEPT ![i] = c])

-----------------------------------------------------------------------------
(* Sealed messages and keys *)

Encipher(data, key, iv) ==
    Write("cipher", [data |-> data, key |-> key], Encrypt(data, key, iv))
Unlock == Read("cipher", Decrypt(wire, job.parts.key))

KeyPairs == GenPair(KeyBits)

\* A public key as the other side has it.
Told(pair) == LoadFromString(SaveToString(pair))

\* own is the reader's pair, other the sender's: each knows the other's public
\* key and no length but that key's.
SealFor(text, own, other, seed) ==
    /\ Len(text) <= MaxMessage(own)
    /\ Write("key", [text |-> text, own |-> own, other |-> other],
              SetToSeq(SealKey(text, Told(own), seed)))
OpenSeal == Read("key", UNION {OpenKey(w, job.parts.own, Told(job.parts.other)) : w \in ToSet(wire)})

-----------------------------------------------------------------------------
(* What is hashed, and the stable layer's packets *)

Digests(data) == Write("hash", data, HashInput(data))
Compress      == Read("hash", wire)

Counted(p) == [even |-> CountBytes(p.body).even, odd |-> CountBytes(p.body).odd, flag |-> p.flag,
               con |-> p.con, pack |-> p.pack, body |-> p.body]
Wrap(p)    == Write("packet", Counted(p), PacketBytes(Counted(p)))
Unwrap     == Read("packet", PacketOf(wire))

Forget == /\ got # <<>>
          /\ job' = NoJob /\ wire' = <<>> /\ got' = <<>>

Writing ==
    /\ job = NoJob
    /\ \/ \E type \in DOMAIN Arguments, uid \in Uids, tunnel \in Uids \cup {-1}, payload \in Payloads :
            /\ tunnel = -1 <=> Arguments[type] = <<TRUE>>
            /\ Ask([type |-> type, uid |-> uid, tunnel |-> tunnel, payload |-> payload])
       \/ \E peers \in {{}} \cup {{u} : u \in Uids} : TellPeer(peers)
       \/ \E list \in Lists, own \in Uids : TellFound(list, own)
       \/ \E info \in Infos : SaveInfo(info)
       \/ \E uid \in Uids, data \in Payloads : Send(uid, data)
       \/ \E data \in Payloads : Reply(data)
       \/ \E data \in Plains, key \in AesKeys, iv \in Ivs : Encipher(data, key, iv)
       \/ \E own, other \in KeyPairs, text \in KeyTexts, seed \in Seeds :
            SealFor(text, own, other, seed)
       \/ \E data \in Hashed : Digests(data)
       \/ \E p \in Packets : Wrap(p)

Carrying ==
    \/ Clear
    \/ \E n \in DOMAIN wire : CutOff(n)
    \/ \E i \in DOMAIN wire, c \in Noise : Damage(i, c)

Reading ==
    \/ Hear \/ HearPeer \/ HearFound \/ LoadInfo \/ Receive \/ Accept
    \/ Unlock \/ OpenSeal \/ Compress \/ Unwrap

Next == Writing \/ Carrying \/ Reading \/ Forget

Spec == Init /\ [][Next]_vars

-----------------------------------------------------------------------------

Made(kind) == job.kind = kind /\ got # <<>>

\* mirror::Server::deflect reads out of a request what ClientProto wrote into
\* it: the type, both uids, or -1 for no tunnel, and a payload of any bytes,
\* spaces among them.
RequestUnderstood ==
    Made("ask") =>
        /\ {"type", "uid", "tunnel", "args"} = DOMAIN got[1]
        /\ got[1].type = job.parts.type
        /\ got[1].uid = job.parts.uid /\ got[1].tunnel = job.parts.tunnel
        /\ Arguments[got[1].type] = <<FALSE>> => got[1].args = <<job.parts.payload>>

\* regme restores from the line that dump printed the three uids it printed,
\* the -1 of a tunnel not known yet among them.
InfoRestored ==
    Made("info") => got[1] = [i \in 1..3 |-> {job.parts[i]}]

\* The server's frame check lets no request pass that was shortened or changed
\* on its way, and every other one.  (What it reads of a size larger than the
\* datagram is undefined and not called passing here.)
RequestWholeOrRefused ==
    Made("send") =>
        /\ "error" \notin DOMAIN got[1] => got[1] = job.parts
        /\ wire = job.sent => "error" \notin DOMAIN got[1]

\* The client's frame check: no answer that was cut, at a zero byte or by the
\* network, or changed passes for another; what arrives whole is taken.
AnswerWholeOrRefused ==
    Made("reply") =>
        /\ got[1].code = 0 => got[1].data = job.parts
        /\ wire = job.sent /\ job.parts \notin ErrorText => got[1].code = 0

\* What aes::CryptoF encrypts, it decrypts: the padding of every length comes
\* off again and the chained blocks come apart.
MessageDeciphered ==
    Made("cipher") => got[1] = {job.parts.data}

\* An AES key sealed for one key pair of genPair's opens there, though the
\* reader takes the length from the sender's modulus, which may be one bit
\* shorter; and the first seed always does, so _encrypt never tries another.
KeyUnsealed ==
    Made("key") => got[1] = {job.parts.text}

\* Whoever waits for a peer or looks for tunnels reads the uids the mirror has
\* written, whatever their number, in their order and without its own.
UidsUnderstood ==
    /\ Made("peer") => got[1] = {job.parts}
    /\ Made("found") =>
          /\ ToSet(got[1]) = {{u} : u \in ToSet(job.parts.list) \ {job.parts.own}}
          /\ Ascending(got[1])

\* The hash is fed what its standard says: the data, a one bit, the fewest zeros
\* that leave room for the length at the end of a block, and the number of bits.
HashedAsSpecified ==
    Made("hash") =>
        LET data  == job.parts
            zeros == Min({k \in 0..HashBlock : (Len(data) + 1 + k + LengthBytes) % HashBlock = 0})
        IN  got[1] = data \o <<Base \div 2>> \o [i \in 1..zeros |-> 0]
                        \o Field(ByteBits * Len(data), LengthBytes)

\* A packet that lost the end of its body comes out with no body and everything
\* else as it was, uids below zero and full counters among it; a whole one is
\* restored.
PacketRestored ==
    Made("packet") /\ Len(wire) >= HeaderLen =>
        got[1] = {[job.parts EXCEPT !.body = IF wire = job.sent THEN @ ELSE <<>>]}
=============================================================================
