-------------------------------- MODULE Seal --------------------------------
(***************************************************************************)
(* How messages and keys are sealed: the padding and the chaining of       *)
(* blocks around a block cipher (crypto/aes), and OAEP with RSA            *)
(* (crypto/rsa), with sizes small enough to enumerate.  The block cipher   *)
(* and the hash are any functions of the right kind.  A result that may be *)
(* an exception is a set, empty when the code throws.                      *)
(***************************************************************************)
EXTENDS Integers, Sequences, SequencesExt, FiniteSets, FiniteSetsExt, Folds

CONSTANTS
    ByteBits,       \* the bits of a byte: 8
    BlockLen,       \* the bytes of a block: 16
    HLen,           \* the bytes of a digest: 32
    HashBlock,      \* the bytes the hash takes at a time: 64
    LengthBytes,    \* the bytes of the length that closes its input: 8
    Xor(_, _),      \* the exclusive or of two bytes
    Cipher(_, _),   \* the block cipher: a key's permutation of the blocks
    Hash(_)         \* a digest of HLen bytes

\* How many numbers k bits and k bytes tell apart.
TwoTo[k \in Nat] == IF k = 0 THEN 1 ELSE 2 * TwoTo[k - 1]
Power == [k \in Nat |-> TwoTo[ByteBits * k]]

Base == TwoTo[ByteBits]

ASSUME SealAssumption ==
    /\ ByteBits \in Nat \ {0} /\ HLen \in Nat \ {0}
    /\ BlockLen \in 1..Base - 1
    /\ LengthBytes \in Nat /\ HashBlock \in Nat /\ HashBlock > LengthBytes

Byte == 0..Base - 1
Block == [1..BlockLen -> Byte]

\* All that is asked of the exclusive or: it undoes itself, on either side.
ASSUME XorAssumption ==
    \A a, b \in Byte : Xor(a, b) \in Byte /\ Xor(a, Xor(a, b)) = b /\ Xor(a, b) = Xor(b, a)

XorBytes(s, t) == [i \in DOMAIN s |-> Xor(s[i], t[i])]

-----------------------------------------------------------------------------
(* AES: PKCS#7 padding, CBC *)

Padding(n) == [i \in 1..n |-> n]

\* Mutant: whole blocks are left as they are.
PadIncomplete(data) ==
    IF Len(data) % BlockLen = 0 THEN data ELSE data \o Padding(BlockLen - (Len(data) % BlockLen))

Pad(data) == data \o Padding(BlockLen - (Len(data) % BlockLen))

Unpad(data) ==
    IF data = <<>> THEN {}
    ELSE LET n == data[Len(data)]
         IN  IF \/ n = 0 \/ n > Len(data)
                \/ \E i \in Len(data) - n + 1..Len(data) : data[i] # n
             THEN {}
             ELSE {SubSeq(data, 1, Len(data) - n)}

BlockAt(s, i) == SubSeq(s, (i - 1) * BlockLen + 1, i * BlockLen)
Blocks(s) == Len(s) \div BlockLen

Decipher(key, block) == CHOOSE b \in Block : Cipher(key, b) = block

EncryptCBC(data, key, iv) ==
    LET out[i \in 0..Blocks(data)] ==
          IF i = 0 THEN iv
          ELSE Cipher(key, XorBytes(out[i - 1], BlockAt(data, i)))
    IN  FlattenSeq([i \in 1..Blocks(data) |-> out[i]])

DecryptCBC(data, key, iv) ==
    FlattenSeq([i \in 1..Blocks(data) |->
        XorBytes(IF i = 1 THEN iv ELSE BlockAt(data, i - 1),
                 Decipher(key, BlockAt(data, i)))])

Encrypt(data, key, iv) == iv \o EncryptCBC(Pad(data), key, iv)

\* CryptoF::decrypt throws on less than the initial block, EncryptCBC's
\* CheckLength on anything but whole blocks, and then the padding may be wrong.
Decrypt(data, key) ==
    IF Len(data) < BlockLen \/ Len(data) % BlockLen # 0 THEN {}
    ELSE Unpad(DecryptCBC(SubSeq(data, BlockLen + 1, Len(data)), key, BlockAt(data, 1)))

-----------------------------------------------------------------------------
(* Numbers and bytes *)

NumberOf(bytes) == FoldLeft(LAMBDA n, b : Base * n + b, 0, bytes)

\* Mutant: the number is written at the front of the k bytes.
BytesOfLeft(n, k) ==
    LET len == Min({i \in 0..k : n < Power[i]})
    IN  {[i \in 1..k |-> IF i <= len THEN (n \div Power[len - i]) % Base ELSE 0]}

BytesOf(n, k) ==
    IF n >= Power[k] THEN {}
    ELSE {[i \in 1..k |-> (n \div Power[k - i]) % Base]}

PowMod(b, e, n) ==
    LET pow[x \in Nat] ==
          IF x = 0 THEN 1
          ELSE LET half == pow[x \div 2]
               IN  (((half * half) % n) * (IF x % 2 = 1 THEN b % n ELSE 1)) % n
    IN  pow[e]

-----------------------------------------------------------------------------
(* SHA-256: what is fed to the compression function *)

\* Mutant: the mark's byte is forgotten when the room is reckoned.
LastBlocksShort(rest) == IF HashBlock - LengthBytes < rest % HashBlock THEN 2 ELSE 1

\* How many blocks `rest' bytes, the mark and the length take.
LastBlocks(rest) == IF HashBlock - (LengthBytes + 1) < rest % HashBlock THEN 2 ELSE 1

\* adjust_digest, called once, keeps what does not fill a block for digest_final.
Kept(len) == IF len < HashBlock THEN len ELSE (len - HashBlock) % HashBlock

\* digest_final puts a mark behind it, zeros, and the number of bits, of which it
\* writes the lower half of the bytes only.
HashInput(data) ==
    LET rest   == Kept(Len(data))
        end    == LastBlocks(rest) * HashBlock
        half   == LengthBytes \div 2
        bits   == ByteBits * Len(data)
        closing == [i \in 1..end - rest |->
            IF i > end - rest - half THEN (bits \div Power[end - rest - i]) % Base
            ELSE IF i = 1 THEN Base \div 2 ELSE 0]
    IN  data \o closing

-----------------------------------------------------------------------------
(* RSA key pairs *)

IsPrime(p) == p > 1 /\ \A d \in 2..p - 1 : d * d > p \/ p % d # 0
NextPrime(x) == CHOOSE p \in x + 1..2 * x : IsPrime(p) /\ \A q \in x + 1..p - 1 : ~IsPrime(q)

LargePrimes(bits) == {NextPrime(x) : x \in TwoTo[bits - 1]..TwoTo[bits] - 1}

\* e is 65537, or the next odd number after 3 that has an inverse.
Coprime(a, b) == \A d \in 2..b : a % d # 0 \/ b % d # 0
Exponent(phi) == IF Coprime(65537, phi) THEN 65537
                 ELSE CHOOSE e \in 3..phi : /\ e % 2 = 1 /\ Coprime(e, phi)
                                            /\ \A f \in 3..e - 1 : f % 2 = 0 \/ ~Coprime(f, phi)
ModInv(a, m) == CHOOSE d \in 1..m - 1 : ((a % m) * d) % m = 1

BitsIn(n) == CHOOSE b \in 1..n : TwoTo[b - 1] <= n /\ n < TwoTo[b]

KeyPairOf(p, q) ==
    LET phi == (p - 1) * (q - 1)
    IN  [n |-> p * q, e |-> Exponent(phi), d |-> ModInv(Exponent(phi), phi)]

\* Every pair genPair may return: it draws again while q is p, or while the
\* product has neither `bits' bits nor one less.
GenPair(bits) ==
    {KeyPairOf(pq[1], pq[2]) :
        pq \in {pq \in LargePrimes(bits \div 2) \X LargePrimes(bits \div 2) :
                  pq[1] # pq[2] /\ BitsIn(pq[1] * pq[2]) \in {bits - 1, bits}}}

\* A public key's text: two numbers in hexadecimal on two lines.
NewLine == 16
Hex(n) == LET text[m \in Nat] == IF m < 16 THEN <<m>> ELSE Append(text[m \div 16], m % 16)
          IN  text[n]
SaveToString(key) == Hex(key.e) \o <<NewLine>> \o Hex(key.n)
LoadFromString(text) ==
    LET line  == SelectInSeq(text, LAMBDA c : c = NewLine)
        value(s) == FoldLeft(LAMBDA v, d : 16 * v + d, 0, s)
    IN  [e |-> value(SubSeq(text, 1, line - 1)), n |-> value(SubSeq(text, line + 1, Len(text)))]

KeyLen(key) == (BitsIn(key.n) + ByteBits - 1) \div ByteBits
MaxMessage(key) == KeyLen(key) - 2 * HLen - 2

-----------------------------------------------------------------------------
(* OAEP *)

\* Enough digests of the seed with a counter of four bytes behind it, cut to length.
Counter(i) == [j \in 1..4 |-> (i \div Power[4 - j]) % Base]
Mgf1(seed, len) ==
    SubSeq(FlattenSeq([i \in 1..(len \div HLen) + 1 |-> Hash(seed \o Counter(i - 1))]), 1, len)

LabelHash == Hash(<<>>)

OaepEncode(message, k, seed) ==
    LET zeros    == [i \in 1..k - Len(message) - 2 * HLen - 2 |-> 0]
        db       == LabelHash \o zeros \o <<1>> \o message
        maskedDB == XorBytes(db, Mgf1(seed, k - HLen - 1))
    IN  IF Len(message) > k - 2 * HLen - 2 THEN {}
        ELSE {<<0>> \o XorBytes(seed, Mgf1(maskedDB, HLen)) \o maskedDB}

OaepDecode(em, k) ==
    LET maskedDB == SubSeq(em, HLen + 2, Len(em))
        seed     == XorBytes(SubSeq(em, 2, HLen + 1), Mgf1(maskedDB, HLen))
        db       == XorBytes(maskedDB, Mgf1(seed, k - HLen - 1))
        marks    == {i \in HLen + 1..Len(db) : db[i] # 0}
    IN  IF \/ Len(em) # k \/ k < 2 * HLen + 2
           \/ SubSeq(db, 1, HLen) # LabelHash
           \/ marks = {} \/ db[Min(marks)] # 1
        THEN {}
        ELSE {SubSeq(db, Min(marks) + 1, Len(db))}

\* One round of _encrypt's loop: empty when the encoded message is no smaller
\* than the modulus and another seed has to be tried, or when it is too long.
SealKey(message, key, seed) ==
    LET k == KeyLen(key)
        fitting == {em \in OaepEncode(message, k, seed) : NumberOf(em) < key.n}
    IN  UNION {BytesOf(PowMod(NumberOf(em), key.e, key.n), k) : em \in fitting}

\* _decrypt: the length comes from the public key of the pair it was given,
\* which is the sender's, not the reader's.  The correction it makes when the
\* first byte is not zero computes the same bytes again, so it throws then.
OpenKey(sealed, key, public) ==
    LET k  == KeyLen(public)
        ems == BytesOf(PowMod(NumberOf(sealed), key.d, key.n), k)
    IN  UNION {OaepDecode(em, k) : em \in {em \in ems : em[1] = 0}}
=============================================================================
