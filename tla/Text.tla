-------------------------------- MODULE Text --------------------------------
(***************************************************************************)
(* The texts the programs exchange, byte by byte: words between spaces     *)
(* (utility/strvec.hpp), the mirror's requests and how deflect reads them, *)
(* the frames of the encrypted layer, and the line in which the messenger  *)
(* keeps its uids.  A byte is a number: a decimal digit is itself, and the *)
(* few other bytes the code tells apart have names.  A result that may be  *)
(* an exception is a set, empty when the code throws.                      *)
(***************************************************************************)
EXTENDS Integers, Sequences, SequencesExt, FiniteSets, FiniteSetsExt, Folds

CONSTANTS
    Digest(_),  \* the hexadecimal digest of some bytes: a word of no spaces
    ErrorText,  \* the texts of the server's errors that check_serv knows
    Arguments,  \* a registered request's arguments: TRUE is one word
    TooSmall,   \* an answer of fewer bytes is not read
    MaxAnswer   \* nor is one that says it is longer

Digit == 0..9
Space == 10
Minus == 11
Zero  == 12
ParseError     == <<13>>   \* "parse-error"
UnregisteredError == <<14>>   \* "unreg-msg-type"

-----------------------------------------------------------------------------
(* Words *)

Places(s, c) == {i \in DOMAIN s : s[i] = c}

\* Mutant: the tracker stays where it was.
NextSimbStuck(s, at, c) ==
    LET ends == {i \in Places(s, c) : i > at + 1}
    IN  [word |-> SubSeq(s, at + 1, Min(ends \cup {Len(s) + 1}) - 1), at |-> at]

\* The word at `at' and where the next one starts.  The search begins one byte
\* late, so a word is never empty, and the last word is read again and again.
NextSimb(s, at, c) ==
    LET ends == {i \in Places(s, c) : i > at + 1}
    IN  IF ends = {}
        THEN [word |-> SubSeq(s, at + 1, Len(s)), at |-> at]
        ELSE [word |-> SubSeq(s, at + 1, Min(ends) - 1), at |-> Min(ends)]

Count(s, c) == Cardinality(Places(s, c))

Split(s, c) ==
    LET read[i \in Nat] == NextSimb(s, IF i = 0 THEN 0 ELSE read[i - 1].at, c)
    IN  [i \in 1..Count(s, c) + 1 |-> read[i - 1].word]

\* std::to_string
Decimal(n) ==
    LET text[m \in Nat] == IF m < 10 THEN <<m>>
                           ELSE Append(text[m \div 10], m % 10)
    IN  IF n < 0 THEN <<Minus>> \o text[-n] ELSE text[n]

\* The longest prefix of s without a byte that passes Stop, and what follows it.
Before(s, Stop(_)) == SubSeq(s, 1, Min({i \in DOMAIN s : Stop(s[i])} \cup {Len(s) + 1}) - 1)
After(s, p) == SubSeq(s, Len(p) + 1, Len(s))

\* std::stoll: spaces, a sign, digits; whatever follows them is ignored.  No
\* writer prints a plus sign or a number that stoll would call out of range.
Stoll(s) ==
    LET word   == After(s, Before(s, LAMBDA c : c # Space))
        signed == word # <<>> /\ word[1] = Minus
        digits == Before(IF signed THEN Tail(word) ELSE word, LAMBDA c : c \notin Digit)
        value  == FoldLeft(LAMBDA v, d : 10 * v + d, 0, digits)
    IN  IF digits = <<>> THEN {} ELSE {IF signed THEN -value ELSE value}

-----------------------------------------------------------------------------
(* The mirror's requests *)

\* NetRequest: every part is added with a space behind it, and get takes the
\* last one away again.
Added(parts) == FlattenSeq([i \in DOMAIN parts |-> Append(parts[i], Space)])

\* Mutant: get leaves the last space.
NetRequestUntrimmed(type, parts) == Append(type, Space) \o Added(parts)

NetRequest(type, parts) ==
    LET raw == Added(parts)
    IN  Append(type, Space)
          \o (IF raw # <<>> /\ Last(raw) = Space THEN Front(raw) ELSE raw)

\* The arguments deflect hands to the handler, read from `at' on: one word for
\* each that is mono, and all that is left for the first that is not.
ArgumentsAt(s, at, monos) ==
    LET read[i \in Nat] ==
          IF i = 0 THEN [word |-> <<>>, at |-> at]
          ELSE IF monos[i] THEN NextSimb(s, read[i - 1].at, Space)
          ELSE [word |-> SubSeq(s, read[i - 1].at + 1, Len(s)), at |-> Len(s)]
        rest == {i \in DOMAIN monos : ~monos[i]}
    IN  [i \in 1..(IF rest = {} THEN Len(monos) ELSE Min(rest)) |-> read[i].word]

\* What mirror::Server::deflect does with a request: the handler it calls and
\* what with, or the error it answers.
Deflect(s) ==
    LET type   == NextSimb(s, 0, Space)
        uidAt  == NextSimb(s, type.at, Space)
        more   == Count(s, Space) > 1
        tunAt  == NextSimb(s, uidAt.at, Space)
        at     == IF more THEN tunAt.at ELSE uidAt.at
        uid    == Stoll(uidAt.word)
        tunnel == IF more THEN Stoll(tunAt.word) ELSE {-1}
    IN  IF uid = {} \/ tunnel = {}               THEN [error |-> ParseError]
        ELSE IF type.word \notin DOMAIN Arguments THEN [error |-> UnregisteredError]
        ELSE [type   |-> type.word,
              uid    |-> CHOOSE u \in uid : TRUE,
              tunnel |-> CHOOSE t \in tunnel : TRUE,
              args   |-> ArgumentsAt(s, at, Arguments[type.word])]

-----------------------------------------------------------------------------
(* Answers that name uids *)

Nothing == <<15>>   \* "nothing"
No == <<16>>        \* "no"

\* check_tunnel's answer: the peer, when there is one.
PeerText(peers) == IF peers = {} THEN No ELSE Decimal(CHOOSE p \in peers : TRUE)

\* Nobody, somebody, or an exception.
PeerRead(s) == IF s = No THEN {{}} ELSE {{p} : p \in Stoll(s)}

\* Mutant: no space behind the last uid.
FoundTextTrimmed(uids) ==
    LET text == Added([i \in DOMAIN uids |-> Decimal(uids[i])])
    IN  IF text = <<>> THEN Nothing ELSE Front(text)

\* discovery's answer: each uid with a space behind it.
FoundText(uids) ==
    LET text == Added([i \in DOMAIN uids |-> Decimal(uids[i])])
    IN  IF text = <<>> THEN Nothing ELSE text

\* As many words as there are spaces, without the reader's own tunnel.
FoundRead(s, mine) ==
    LET uids == [i \in 1..Count(s, Space) |-> Stoll(Split(s, Space)[i])]
    IN  IF s = Nothing THEN <<>>
        ELSE FlattenSeq([i \in DOMAIN uids |-> IF uids[i] = {mine} THEN <<>> ELSE <<uids[i]>>])

-----------------------------------------------------------------------------
(* The messenger's line of uids *)

Dump(info) == Front(Added([i \in DOMAIN info |-> Decimal(info[i])]))

Regme(line) == [i \in 1..3 |-> Stoll(Split(line, Space)[i])]

-----------------------------------------------------------------------------
(* The frames of the encrypted layer: size, digest, contents *)

\* A server's answer, and any request once its uid stands before it.
Frame(data) ==
    LET summed == Digest(data) \o <<Space>> \o data
    IN  Decimal(Len(summed)) \o <<Space>> \o summed

\* Mutant: the uid goes in after the digest has been made.
RequestFrameLateUid(uid, data) ==
    LET summed == Digest(data) \o <<Space>> \o Decimal(uid) \o <<Space>> \o data
    IN  Decimal(Len(summed)) \o <<Space>> \o summed

RequestFrame(uid, data) == Frame(Decimal(uid) \o <<Space>> \o data)

\* Mutant: the digest is not compared.
SumIgnored(sum, data) == TRUE

SumHolds(sum, data) == sum = Digest(data)

\* How the server opens a request.  "beyond" is a size larger than what came:
\* the code then reads past its buffer, and nothing can be said of the result.
OpenRequest(s) ==
    LET size == NextSimb(s, 0, Space)
        n    == Stoll(size.word)
        end  == size.at + CHOOSE x \in n : TRUE
        body == SubSeq(s, size.at + 1, end)
        sum  == NextSimb(body, 0, Space)
        data == SubSeq(body, sum.at + 1, Len(body))
        uid  == NextSimb(data, 0, Space)
    IN  IF n = {}                        THEN [error |-> "ernet-datasize-corrupted"]
        ELSE IF end < size.at            THEN [error |-> "data-corrupted"]
        ELSE IF end > Len(s)             THEN [error |-> "beyond"]
        ELSE IF ~SumHolds(sum.word, data) THEN [error |-> "ernet-control_sum-corrupted"]
        ELSE IF Stoll(uid.word) = {}     THEN [error |-> "ernet-uid-corrupted"]
        ELSE [uid  |-> CHOOSE u \in Stoll(uid.word) : TRUE,
              data |-> SubSeq(data, uid.at + 1, Len(data))]

\* How the client opens an answer: the number __send returns and what it leaves
\* in the answer's buffer.
OpenAnswer(s) ==
    LET spaces == Places(s, Space)
        at     == Min(spaces)
        n      == Stoll(SubSeq(s, 1, at - 1))
        size   == CHOOSE x \in n : TRUE
        body   == SubSeq(s, at + 1, at + size)
        sum    == NextSimb(body, 0, Space)
        data   == SubSeq(body, sum.at + 1, Len(body))
    IN  IF Len(s) < TooSmall                    THEN [code |-> 2, data |-> s]
        ELSE IF spaces = {}                     THEN [code |-> 3, data |-> s]
        ELSE IF n = {}                          THEN [code |-> 7, data |-> s]
        ELSE IF size <= 0 \/ size > MaxAnswer   THEN [code |-> 4, data |-> s]
        ELSE IF at + size > Len(s)              THEN [code |-> 5, data |-> s]
        ELSE IF ~SumHolds(sum.word, data)       THEN [code |-> 6, data |-> data]
        ELSE IF data \in ErrorText              THEN [code |-> 7, data |-> data]
        ELSE [code |-> 0, data |-> data]

\* What client_udp::recv leaves of a datagram when it clears the buffer: the
\* bytes before the first zero, which may also be one that was never written.
Cleared(s) == Before(s, LAMBDA c : c = Zero)
=============================================================================
