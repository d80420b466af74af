------------------------------ MODULE MCCodec ------------------------------
(***************************************************************************)
(* Codec with few texts: payloads with spaces, digits, signs and zero      *)
(* bytes where they matter; blocks of two bytes of two bits; moduli of     *)
(* twelve bits, with a hash of one byte.                                   *)
(***************************************************************************)
EXTENDS Codec

\* A word of three bytes, no space among them, that differs for different texts of
\* up to twelve.
MCNumber(data) == FoldLeft(LAMBDA v, b : (24 * v + b + 1) % 50000017, 21, data)
MCDigest(data) == [i \in 1..3 |-> MCNumber(SubSeq(data, 4 * i - 3, Min({4 * i, Len(data)})))]

MCArguments == <<15>> :> <<>> @@ <<16>> :> <<FALSE>> @@ <<17>> :> <<TRUE>>

MCPayloads == BoundedSeq({1, Space, Zero}, 2) \cup
              {<<Space, 1, Space>>, <<1, 0, Space, 18>>, <<Minus, 1>>, <<18, 19>>}

\* A payload that reads like an error of the server's.
MCErrors == {<<18, 19>>}

MCInfos == {10, 123, -1} \X {10, 45} \X {7, -1}

MCLists == {SetToSortSeq(uids, <) : uids \in SUBSET Uids}

MCPlains == BoundedSeq({0, 1, 2, 3}, 4)

MCBits(x) == {i \in 0..ByteBits - 1 : (x \div 2^i) % 2 = 1}
MCXors == [a, b \in Byte |-> MapThenSumSet(LAMBDA i : 2^i, SymDiff(MCBits(a), MCBits(b)))]
MCXor(a, b) == MCXors[a, b]

MCCipher(key, b) == <<(b[2] + key) % 4, (b[1] + 2 * b[2] + key) % 4>>
MCHash(data) == <<FoldLeft(LAMBDA h, b : (3 * h + b + 1) % 4, Len(data) % 4, data)>>

MCIvs == {<<0, 0>>, <<3, 1>>}
MCSeeds == {<<b>> : b \in Byte}

MCKeyTexts == BoundedSeq({0, 1, 3}, 2)

\* Up to a block and one byte: every rest of a block occurs, and the number of
\* bits still fits the two bytes written of it.
MCHashed == BoundedSeq({0, 3}, 7)

\* Bodies of so many odd bytes that the count takes the sign bit of a short.
MCPackets ==
    [flag : Byte, con : {-1, 5}, pack : {0, -7}, body : {<<>>, <<1, 2, 0>>, [i \in 1..9 |-> 3]}]
=============================================================================
