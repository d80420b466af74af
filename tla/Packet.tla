------------------------------- MODULE Packet -------------------------------
(***************************************************************************)
(* The packets of the stable layer (stable/st_packet.hpp): five numbers of *)
(* fixed width, highest byte first, and a body.  Bytes are those of Seal.  *)
(***************************************************************************)
EXTENDS Seal

\* The lower k bytes of a number, which may be negative.
Field(n, k) == [i \in 1..k |-> (n \div Power[k - i]) % Base]

\* Mutant: short and long long taken for unsigned.
SignedNever(v, k) == v

\* What k bytes are in a signed type of k bytes.
Signed(v, k) == IF v < Power[k] \div 2 THEN v ELSE v - Power[k]

\* count_bytes counts in shorts, of two bytes.
CountBytes(body) ==
    LET odd == Cardinality({i \in DOMAIN body : body[i] % 2 = 1})
    IN  [even |-> Signed((Len(body) - odd) % Power[2], 2), odd |-> Signed(odd % Power[2], 2)]

HeaderLen == 2 + 2 + 1 + 8 + 8 + 4

PacketBytes(p) ==
    Field(p.even, 2) \o Field(p.odd, 2) \o Field(p.flag, 1) \o Field(p.con, 8) \o Field(p.pack, 8)
        \o Field(Len(p.body), 4) \o p.body

\* Without its whole header a packet is read past its end: nothing can be said.
PacketOf(s) ==
    LET at(i, k) == NumberOf(SubSeq(s, i + 1, i + k))
        size == at(21, 4)
    IN  IF Len(s) < HeaderLen THEN {}
        ELSE {[even |-> Signed(at(0, 2), 2), odd |-> Signed(at(2, 2), 2), flag |-> at(4, 1),
               con |-> Signed(at(5, 8), 8), pack |-> Signed(at(13, 8), 8),
               body |-> IF HeaderLen + size > Len(s) THEN <<>>
                        ELSE SubSeq(s, HeaderLen + 1, HeaderLen + size)]}
=============================================================================
