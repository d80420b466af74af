---------------------------- MODULE CodecProofs ----------------------------
(***************************************************************************)
(* Proofs about Codec for words, payloads and numbers of every length.     *)
(***************************************************************************)
EXTENDS Codec, SealProofs

-----------------------------------------------------------------------------
(* Decimal numbers *)

\* What std::stoll computes of a word's digits.
Value(digits) == FoldLeft(LAMBDA v, d : 10 * v + d, 0, digits)

\* No digits are worth nothing, and a digit more makes ten times as much and itself.
LEMMA ValueAppend ==
    /\ Value(<<>>) = 0
    /\ \A s \in Seq(Int) : Value(s) \in Int
    /\ \A s \in Seq(Int), d \in Int : Value(Append(s, d)) = 10 * Value(s) + d
  <1>1. ASSUME NEW s PROVE Value(s) = Worth(10, s)
    BY DEF Value, Worth
  <1>2. 10 \in Int
    OBVIOUS
  <1> QED
    BY <1>1, <1>2, WorthAppend

\* Digits are integers, and a word of digits is one of integers.
LEMMA DecimalDigitsAreInt ==
    ASSUME NEW s \in Seq(Digit)
    PROVE  s \in Seq(Int)
  <1> DEFINE b == 10
  <1>1. b \in Nat /\ 0..b - 1 = Digit
    BY DEF Digit
  <1> HIDE DEF b
  <1> QED
    BY <1>1, DigitsAreInt

\* std::to_string of a number that is not negative: digits, at least one, that
\* are worth the number.
LEMMA DecimalOfNat ==
    ASSUME NEW n \in Nat
    PROVE  Decimal(n) \in Seq(Digit) /\ Decimal(n) # <<>> /\ Value(Decimal(n)) = n
  <1> DEFINE text == CHOOSE t : t = [m \in Nat |-> Rule(10, t, m)]
             b == 10
  <1>1. Decimal(n) = text[n]
    BY DEF Decimal, Rule
  <1>2. b \in Nat /\ b >= 2 /\ b = 10 /\ 0..b - 1 = Digit
    BY DEF Digit
  <1> HIDE DEF b
  <1>3. text = [m \in Nat |-> Rule(b, text, m)]
    BY <1>2, RuleIsFollowed
  <1> HIDE DEF text
  <1>4. \A m \in Nat : text[m] = Rule(b, text, m)
    <2> DEFINE f(m) == Rule(b, text, m)
    <2>1. text = [m \in Nat |-> f(m)]
      BY <1>3
    <2> HIDE DEF f
    <2>2. \A m \in Nat : text[m] = f(m)
      BY <2>1
    <2> QED
      BY <2>2 DEF f
  <1>5. text[n] \in Seq(0..b - 1) /\ text[n] # <<>> /\ Worth(b, text[n]) = n
    BY <1>2, <1>4, WrittenInRadix
  <1>6. Value(text[n]) = Worth(b, text[n])
    <2> SUFFICES ASSUME NEW s PROVE Value(s) = Worth(b, s)
      OBVIOUS
    <2>1. Value(s) = Worth(10, s)
      BY DEF Value, Worth
    <2> QED
      BY <1>2, <2>1
  <1> QED
    BY <1>1, <1>2, <1>5, <1>6

\* The least number of a set that is known.
LEMMA MinIs ==
    ASSUME NEW T \in SUBSET Nat, NEW m \in T, \A y \in T : m <= y
    PROVE  Min(T) = m
  <1>1. Min(T) \in T /\ Min(T) <= m
    BY MinIsLeast
  <1>2. m <= Min(T) /\ m \in Nat /\ Min(T) \in Nat
    BY <1>1
  <1> QED
    BY <1>1, <1>2

\* The first place of those in T, or the place after the last.
LEMMA FirstPlace ==
    ASSUME NEW n \in Nat, NEW T \in SUBSET (1..n), NEW k \in 1..n + 1,
           k = n + 1 \/ k \in T, \A i \in 1..k - 1 : i \notin T
    PROVE  Min(T \cup {n + 1}) = k
  <1> DEFINE U == T \cup {n + 1}
  <1>1. \A y \in U : y \in Nat /\ k <= y
    <2>1. ASSUME NEW y \in U PROVE y \in Nat /\ k <= y
      <3>1. CASE y = n + 1
        BY <3>1
      <3>2. CASE y \in T
        <4>1. y \in 1..n /\ ~(y \in 1..k - 1)
          BY <3>2
        <4> QED
          BY <4>1
      <3> QED
        BY <3>1, <3>2
    <2> QED
      BY <2>1
  <1>2. k \in U
    OBVIOUS
  <1> HIDE DEF U
  <1>3. Min(U) = k
    BY <1>1, <1>2, MinIs
  <1> QED
    BY <1>3 DEF U

\* A digit is none of the other bytes that have a name.
LEMMA DigitIsOther ==
    ASSUME NEW d \in Digit
    PROVE  d \in Nat /\ d # Space /\ d # Minus /\ d # Zero
  BY DEF Digit, Space, Minus, Zero

\* The word s begins with k digits and no more.
Begins(s, k) ==
    /\ \A i \in 1..k : s[i] \in Digit
    /\ k = Len(s) \/ s[k + 1] \notin Digit

\* std::stoll of a word that begins with k digits and no more: their value.
LEMMA StollDigits ==
    ASSUME NEW s \in Seq(Int), NEW k \in 1..Len(s), Begins(s, k)
    PROVE  Stoll(s) = {Value(SubSeq(s, 1, k))}
  <1> DEFINE n == Len(s)
             spaces == Before(s, LAMBDA c : c # Space)
             word   == After(s, spaces)
             digits == Before(word, LAMBDA c : c \notin Digit)
             P == {i \in DOMAIN s : s[i] # Space}
             Q == {i \in DOMAIN s : s[i] \notin Digit}
  <1>1. n \in Nat /\ k \in 1..n /\ n >= 1 /\ DOMAIN s = 1..n /\ 1 \in 1..n /\ 1 \in 1..k
    OBVIOUS
  <1>2. s[1] # Space /\ s[1] # Minus
    <2>1. s[1] \in Digit
      BY <1>1 DEF Begins
    <2> QED
      BY <2>1, DigitIsOther
  <1>3. spaces = SubSeq(s, 1, Min(P \cup {n + 1}) - 1)
    BY DEF Before
  <1>4. P \in SUBSET (1..n) /\ 1 \in P
    BY <1>1, <1>2
  <1>5. Min(P \cup {n + 1}) = 1
    <2>1. 1 \in 1..n + 1 /\ \A i \in 1..1 - 1 : i \notin P
      BY <1>1
    <2> HIDE DEF P, n
    <2> QED
      BY <1>1, <1>4, <2>1, FirstPlace
  <1>6. spaces = <<>>
    <2> HIDE DEF P
    <2> QED
      BY <1>3, <1>5
  <1>7. word = s
    <2>1. word = SubSeq(s, Len(spaces) + 1, Len(s))
      BY DEF After
    <2> HIDE DEF spaces, word
    <2>2. Len(spaces) = 0
      BY <1>6
    <2> QED
      BY <2>1, <2>2
  <1>8. Q \in SUBSET (1..n) /\ (k = n \/ k + 1 \in Q) /\ \A i \in 1..k : i \notin Q
    <2>1. Q \in SUBSET (1..n)
      BY <1>1
    <2>2. k = n \/ k + 1 \in Q
      <3>1. k # n => k + 1 \in 1..n
        <4> HIDE DEF n
        <4> QED
          BY <1>1
      <3> QED
        BY <1>1, <3>1 DEF Begins
    <2>3. \A i \in 1..k : i \notin Q
      BY DEF Begins
    <2> QED
      BY <2>1, <2>2, <2>3
  <1>9. Min(Q \cup {n + 1}) = k + 1
    <2> HIDE DEF Q, n
    <2>1. k + 1 \in 1..n + 1 /\ (k + 1 = n + 1 \/ k + 1 \in Q) /\ \A i \in 1..k + 1 - 1 : i \notin Q
      BY <1>1, <1>8
    <2> QED
      BY <1>1, <1>8, <2>1, FirstPlace, SMTT(30)
  <1>10. digits = SubSeq(word, 1, Min({i \in DOMAIN word : word[i] \notin Digit} \cup {Len(word) + 1}) - 1)
    BY DEF Before
  <1>11. Stoll(s) = LET signed == word # <<>> /\ word[1] = Minus
                        shown  == IF signed THEN Before(Tail(word), LAMBDA c : c \notin Digit) ELSE digits
                    IN  IF shown = <<>> THEN {} ELSE {IF signed THEN -Value(shown) ELSE Value(shown)}
    BY DEF Stoll, Value
  <1> HIDE DEF word, digits, spaces
  <1>12. digits = SubSeq(s, 1, k)
    <2>1. digits = SubSeq(s, 1, Min(Q \cup {n + 1}) - 1)
      BY <1>7, <1>10
    <2>2. (k + 1) - 1 = k
      OBVIOUS
    <2> HIDE DEF Q, n
    <2> QED
      BY <2>1, <2>2, <1>9
  <1>13. digits # <<>>
    <2>1. SubSeq(s, 1, k) \in Seq(Int) /\ Len(SubSeq(s, 1, k)) = k /\ k # 0
      BY <1>1
    <2> QED
      BY <1>12, <2>1
  <1>14. ~(word # <<>> /\ word[1] = Minus)
    BY <1>2, <1>7
  <1> QED
    BY <1>11, <1>12, <1>13, <1>14

\* std::stoll of a minus and digits: less than zero by their value.
LEMMA StollMinus ==
    ASSUME NEW d \in Seq(Digit), d # <<>>
    PROVE  Stoll(<<Minus>> \o d) = {-Value(d)}
  <1> DEFINE s == <<Minus>> \o d
             spaces == Before(s, LAMBDA c : c # Space)
             word   == After(s, spaces)
             digits == Before(Tail(word), LAMBDA c : c \notin Digit)
             P == {i \in DOMAIN s : s[i] # Space}
             Q == {i \in DOMAIN d : d[i] \notin Digit}
             n == Len(s)
             m == Len(d)
  <1>1. d \in Seq(Int)
    BY DecimalDigitsAreInt
  <1>2. /\ m \in Nat /\ m >= 1 /\ n = m + 1 /\ s[1] = Minus /\ Tail(s) = d
        /\ s \in Seq(Int) /\ DOMAIN s = 1..n /\ DOMAIN d = 1..m /\ s # <<>>
    BY <1>1 DEF Minus
  <1> HIDE DEF s
  <1>3. spaces = SubSeq(s, 1, Min(P \cup {n + 1}) - 1)
    BY DEF Before
  <1>4. P \in SUBSET (1..n) /\ 1 \in P
    <2>1. Minus # Space
      BY DEF Minus, Space
    <2>2. 1 \in 1..n
      <3> HIDE DEF n, m
      <3> QED
        BY <1>2
    <2> QED
      BY <1>2, <2>1, <2>2
  <1>5. Min(P \cup {n + 1}) = 1
    <2> HIDE DEF P, n, m
    <2>1. n \in Nat /\ 1 \in 1..n + 1 /\ \A i \in 1..1 - 1 : i \notin P
      BY <1>2
    <2> QED
      BY <1>4, <2>1, FirstPlace
  <1>6. spaces = <<>>
    <2> HIDE DEF P
    <2> QED
      BY <1>2, <1>3, <1>5
  <1>7. word = s
    <2>1. word = SubSeq(s, Len(spaces) + 1, Len(s))
      BY DEF After
    <2> HIDE DEF spaces, word
    <2>2. Len(spaces) = 0
      BY <1>6
    <2> QED
      BY <1>2, <2>1, <2>2
  <1>8. Min(Q \cup {m + 1}) = m + 1
    <2>1. Q \in SUBSET (1..m) /\ \A i \in 1..m : i \notin Q
      BY <1>2
    <2> HIDE DEF Q, m, n
    <2>2. m + 1 \in 1..m + 1 /\ (m + 1) - 1 = m
      BY <1>2
    <2> QED
      BY <1>2, <2>1, <2>2, FirstPlace
  <1>9. digits = SubSeq(Tail(word), 1, Min({i \in DOMAIN Tail(word) : Tail(word)[i] \notin Digit}
                                             \cup {Len(Tail(word)) + 1}) - 1)
    BY DEF Before
  <1>10. Stoll(s) = LET signed == word # <<>> /\ word[1] = Minus
                        shown  == IF signed THEN digits ELSE Before(word, LAMBDA c : c \notin Digit)
                    IN  IF shown = <<>> THEN {} ELSE {IF signed THEN -Value(shown) ELSE Value(shown)}
    BY DEF Stoll, Value
  <1> HIDE DEF word, digits, spaces
  <1>11. digits = d
    <2>1. digits = SubSeq(d, 1, Min(Q \cup {m + 1}) - 1)
      BY <1>2, <1>7, <1>9
    <2>2. SubSeq(d, 1, m) = d /\ (m + 1) - 1 = m
      BY <1>1
    <2> HIDE DEF Q, m, n
    <2> QED
      BY <2>1, <2>2, <1>8
  <1>12. word # <<>> /\ word[1] = Minus
    BY <1>2, <1>7
  <1>13. Stoll(s) = {-Value(d)}
    BY <1>10, <1>11, <1>12
  <1> QED
    BY <1>13 DEF s

\* std::stoll reads what std::to_string has written, whatever the number.
THEOREM StollDecimal ==
    ASSUME NEW n \in Int
    PROVE  Stoll(Decimal(n)) = {n}
  <1>1. CASE n \in Nat
    <2> DEFINE d == Decimal(n)
    <2>1. d \in Seq(Digit) /\ d # <<>> /\ Value(d) = n
      BY <1>1, DecimalOfNat
    <2> HIDE DEF d
    <2>2. d \in Seq(Int) /\ Len(d) \in 1..Len(d) /\ SubSeq(d, 1, Len(d)) = d
      BY <2>1, DecimalDigitsAreInt
    <2>3. Begins(d, Len(d))
      BY <2>1 DEF Begins
    <2>4. Stoll(d) = {n}
      BY <2>1, <2>2, <2>3, StollDigits
    <2> QED
      BY <2>4 DEF d
  <1>2. CASE n \notin Nat
    <2> DEFINE d == Decimal(-n)
    <2>1. d \in Seq(Digit) /\ d # <<>> /\ Value(d) = -n
      <3>1. -n \in Nat
        BY <1>2
      <3> QED
        BY <3>1, DecimalOfNat
    <2>2. Decimal(n) = <<Minus>> \o d
      BY <1>2 DEF Decimal
    <2> HIDE DEF d
    <2>3. Stoll(<<Minus>> \o d) = {-Value(d)}
      BY <2>1, StollMinus
    <2>4. -Value(d) = n
      BY <2>1
    <2> QED
      BY <2>2, <2>3, <2>4
  <1> QED
    BY <1>1, <1>2

-----------------------------------------------------------------------------
(* Words between spaces *)

\* A word as the programs write them: not empty and with no space in it.
Word(w) == w \in Seq(Int) /\ w # <<>> /\ \A i \in 1..Len(w) : w[i] # Space

\* get_next_simb's word ends at the first space after its first byte.
LEMMA NextAt ==
    ASSUME NEW s \in Seq(Int), NEW at \in Nat, NEW e \in at + 2..Len(s), s[e] = Space,
           \A i \in at + 2..e - 1 : s[i] # Space
    PROVE  NextSimb(s, at, Space) = [word |-> SubSeq(s, at + 1, e - 1), at |-> e]
  <1> DEFINE ends == {i \in Places(s, Space) : i > at + 1}
  <1>1. ends = {i \in 1..Len(s) : s[i] = Space /\ i > at + 1}
    <2>1. DOMAIN s = 1..Len(s)
      OBVIOUS
    <2> QED
      BY <2>1 DEF Places
  <1>2. e \in ends /\ \A i \in ends : i \in Nat /\ e <= i
    <2>1. e \in 1..Len(s) /\ e > at + 1
      OBVIOUS
    <2>2. ASSUME NEW i \in ends PROVE i \in Nat /\ e <= i
      <3>1. i \in 1..Len(s) /\ s[i] = Space /\ i > at + 1
        BY <1>1
      <3>2. i \notin at + 2..e - 1
        BY <3>1
      <3> QED
        BY <3>1, <3>2
    <2> QED
      BY <1>1, <2>1, <2>2
  <1>3. NextSimb(s, at, Space) = IF ends = {}
                                 THEN [word |-> SubSeq(s, at + 1, Len(s)), at |-> at]
                                 ELSE [word |-> SubSeq(s, at + 1, Min(ends) - 1), at |-> Min(ends)]
    BY DEF NextSimb
  <1> HIDE DEF ends
  <1>4. Min(ends) = e
    <2>1. ends \in SUBSET Nat /\ \A y \in ends : e <= y
      BY <1>2
    <2> QED
      BY <1>2, <2>1, MinIs
  <1> QED
    BY <1>2, <1>3, <1>4

\* And without such a space, at the end of the text.
LEMMA LastAt ==
    ASSUME NEW s \in Seq(Int), NEW at \in Nat, \A i \in at + 2..Len(s) : s[i] # Space
    PROVE  NextSimb(s, at, Space) = [word |-> SubSeq(s, at + 1, Len(s)), at |-> at]
  <1> DEFINE ends == {i \in Places(s, Space) : i > at + 1}
  <1>1. \A i \in ends : FALSE
    <2> SUFFICES ASSUME NEW i \in ends PROVE FALSE
      OBVIOUS
    <2>1. i \in 1..Len(s) /\ s[i] = Space /\ i > at + 1
      <3>1. DOMAIN s = 1..Len(s)
        OBVIOUS
      <3> QED
        BY <3>1 DEF Places
    <2>2. i \in at + 2..Len(s)
      BY <2>1
    <2> QED
      BY <2>1, <2>2
  <1> QED
    BY <1>1 DEF NextSimb

\* The word w stands in s behind the first `at' bytes.
Stands(s, at, w) == at + Len(w) <= Len(s) /\ \A i \in 1..Len(w) : s[at + i] = w[i]

\* Cut out of s, it is w.
LEMMA StandsIsPart ==
    ASSUME NEW s \in Seq(Int), NEW at \in Nat, NEW w \in Seq(Int), Stands(s, at, w)
    PROVE  SubSeq(s, at + 1, at + Len(w)) = w
  <1> DEFINE k == Len(w)
             p == SubSeq(s, at + 1, at + k)
  <1>1. k \in Nat /\ Len(s) \in Nat /\ at + k <= Len(s)
    BY DEF Stands
  <1>2. p \in Seq(Int) /\ Len(p) = k /\ \A i \in 1..k : p[i] = s[at + i]
    <2> HIDE DEF k
    <2>1. \A i \in at + 1..at + k : s[i] \in Int
      BY <1>1
    <2>2. p \in Seq(Int) /\ Len(p) = (IF at + 1 <= at + k THEN at + k - (at + 1) + 1 ELSE 0)
          /\ \A i \in 1..at + k - (at + 1) + 1 : p[i] = s[at + 1 + i - 1]
      BY <1>1, <2>1, SubSeqProperties
    <2>3. at + k - (at + 1) + 1 = k
      BY <1>1
    <2>4. \A i \in 1..k : at + 1 + i - 1 = at + i
      BY <1>1
    <2> HIDE DEF p
    <2>5. Len(p) = k
      BY <1>1, <2>2
    <2>6. ASSUME NEW i \in 1..k PROVE p[i] = s[at + i]
      <3>1. p[i] = s[at + 1 + i - 1]
        BY <2>2, <2>3
      <3> QED
        BY <2>4, <3>1
    <2> QED
      BY <2>2, <2>5, <2>6
  <1>3. \A i \in 1..k : p[i] = w[i]
    BY <1>2 DEF Stands
  <1> HIDE DEF p
  <1>4. p = w
    BY <1>2, <1>3, SeqEqual
  <1> QED
    BY <1>4 DEF p

\* A word that a space follows, and one that ends the text.
LEMMA NextWord ==
    ASSUME NEW s \in Seq(Int), NEW at \in Nat, NEW w, Word(w), Stands(s, at, w),
           at + Len(w) + 1 <= Len(s), s[at + Len(w) + 1] = Space
    PROVE  NextSimb(s, at, Space) = [word |-> w, at |-> at + Len(w) + 1]
  <1> DEFINE k == Len(w)
             e == at + k + 1
  <1>1. w \in Seq(Int) /\ k \in Nat /\ k # 0 /\ Len(s) \in Nat
    BY DEF Word
  <1> HIDE DEF k
  <1>2. e \in at + 2..Len(s) /\ s[e] = Space
    BY <1>1 DEF k
  <1>3. ASSUME NEW i \in at + 2..e - 1 PROVE s[i] # Space
    <2>1. i - at \in 1..k /\ at + (i - at) = i
      BY <1>1
    <2>2. s[at + (i - at)] = w[i - at] /\ w[i - at] # Space
      BY <2>1 DEF Stands, Word, k
    <2> QED
      BY <2>1, <2>2
  <1>4. NextSimb(s, at, Space) = [word |-> SubSeq(s, at + 1, e - 1), at |-> e]
    <2> HIDE DEF e
    <2> QED
      BY <1>2, <1>3, NextAt
  <1>5. e - 1 = at + Len(w)
    BY <1>1 DEF k
  <1> QED
    BY <1>1, <1>4, <1>5, StandsIsPart DEF k

\* next_simb at the last word: it is read, and the place stays.
LEMMA LastWord ==
    ASSUME NEW s \in Seq(Int), NEW at \in Nat, NEW w, Word(w), Stands(s, at, w),
           at + Len(w) = Len(s)
    PROVE  NextSimb(s, at, Space) = [word |-> w, at |-> at]
  <1> DEFINE k == Len(w)
  <1>1. w \in Seq(Int) /\ k \in Nat /\ k # 0 /\ Len(s) = at + k
    BY DEF Word
  <1> HIDE DEF k
  <1>2. ASSUME NEW i \in at + 2..Len(s) PROVE s[i] # Space
    <2>1. i - at \in 1..k /\ at + (i - at) = i
      BY <1>1
    <2>2. s[at + (i - at)] = w[i - at] /\ w[i - at] # Space
      BY <2>1 DEF Stands, Word, k
    <2> QED
      BY <2>1, <2>2
  <1>3. NextSimb(s, at, Space) = [word |-> SubSeq(s, at + 1, Len(s)), at |-> at]
    BY <1>2, LastAt
  <1> QED
    BY <1>1, <1>3, StandsIsPart

\* A negative number is printed with a minus before its digits.
LEMMA DecimalOfNegative ==
    ASSUME NEW n \in Int, n \notin Nat
    PROVE  Decimal(n) = <<Minus>> \o Decimal(-n)
  <1>1. n < 0 /\ ~(-n < 0)
    OBVIOUS
  <1> QED
    BY <1>1 DEF Decimal

\* What std::to_string writes is a word.
LEMMA DecimalIsWord ==
    ASSUME NEW n \in Int
    PROVE  Word(Decimal(n))
  <1>1. ASSUME NEW d \in Seq(Digit), d # <<>> PROVE Word(d) /\ Word(<<Minus>> \o d)
    <2>1. d \in Seq(Int) /\ \A i \in 1..Len(d) : d[i] # Space
      BY DecimalDigitsAreInt, DigitIsOther
    <2>2. Minus # Space /\ Minus \in Int
      BY DEF Minus, Space
    <2> DEFINE s == <<Minus>> \o d
    <2>3. s \in Seq(Int) /\ Len(s) = Len(d) + 1 /\ s[1] = Minus /\ \A i \in 1..Len(d) : s[i + 1] = d[i]
      BY <2>1, <2>2
    <2> HIDE DEF s
    <2>4. ASSUME NEW i \in 1..Len(s) PROVE s[i] # Space
      <3>1. CASE i = 1
        BY <2>2, <2>3, <3>1
      <3>2. CASE i # 1
        <4>1. i - 1 \in 1..Len(d) /\ (i - 1) + 1 = i
          BY <2>3, <3>2
        <4>2. s[i] = d[i - 1]
          BY <2>3, <4>1
        <4> QED
          BY <2>1, <4>1, <4>2
      <3> QED
        BY <3>1, <3>2
    <2>5. s # <<>>
      BY <2>3
    <2> QED
      BY <1>1, <2>1, <2>3, <2>4, <2>5 DEF Word, s
  <1>2. CASE n \in Nat
    BY <1>1, <1>2, DecimalOfNat
  <1>3. CASE n \notin Nat
    <2>1. -n \in Nat
      BY <1>3
    <2>2. Decimal(n) = <<Minus>> \o Decimal(-n)
      BY <1>3, DecimalOfNegative
    <2> QED
      BY <1>1, <2>1, <2>2, DecimalOfNat
  <1> QED
    BY <1>2, <1>3

\* get_next_simb returns a word and a place, whatever it reads.
LEMMA NextTyped ==
    ASSUME NEW s \in Seq(Int), NEW at \in Nat
    PROVE  NextSimb(s, at, Space) \in [word : Seq(Int), at : Nat]
  <1> DEFINE ends == {i \in Places(s, Space) : i > at + 1}
  <1>1. ASSUME NEW i \in Nat, i <= Len(s) PROVE SubSeq(s, at + 1, i) \in Seq(Int)
    BY <1>1, SubSeqProperties
  <1>2. \A i \in ends : i \in 1..Len(s) /\ i > at + 1
    <2>1. DOMAIN s = 1..Len(s)
      OBVIOUS
    <2> QED
      BY <2>1 DEF Places
  <1>3. NextSimb(s, at, Space) = IF ends = {}
                                 THEN [word |-> SubSeq(s, at + 1, Len(s)), at |-> at]
                                 ELSE [word |-> SubSeq(s, at + 1, Min(ends) - 1), at |-> Min(ends)]
    BY DEF NextSimb
  <1>4. Len(s) \in Nat
    OBVIOUS
  <1> HIDE DEF ends
  <1>5. ends \in SUBSET Nat
    BY <1>2
  <1>6. CASE ends = {}
    <2>1. SubSeq(s, at + 1, Len(s)) \in Seq(Int)
      BY <1>1, <1>4
    <2> QED
      BY <1>3, <1>6, <2>1
  <1>7. CASE ends # {}
    <2> DEFINE e == Min(ends)
    <2>1. e \in 1..Len(s)
      BY <1>2, <1>5, <1>7, MinIsLeast
    <2> HIDE DEF e
    <2>2. e - 1 \in Nat /\ e - 1 <= Len(s) /\ e \in Nat
      BY <1>4, <2>1
    <2>3. SubSeq(s, at + 1, e - 1) \in Seq(Int)
      BY <1>1, <2>2
    <2> QED
      BY <1>3, <1>7, <2>2, <2>3 DEF e
  <1> QED
    BY <1>6, <1>7

\* What deflect hands over when the arguments are all that is left.
LEMMA AllThatIsLeft ==
    ASSUME NEW s \in Seq(Int), NEW at \in Nat
    PROVE  ArgumentsAt(s, at, <<FALSE>>) = <<SubSeq(s, at + 1, Len(s))>>
  <1> DEFINE V == [word : Seq(Int), at : Nat]
             monos == <<FALSE>>
             first == [word |-> <<>>, at |-> at]
             left(x) == [word |-> SubSeq(s, x.at + 1, Len(s)), at |-> Len(s)]
             F == [nx \in Nat \X V |-> IF monos[nx[1] + 1] THEN NextSimb(s, nx[2].at, Space) ELSE left(nx[2])]
             Reads(f) == f = [i \in Nat |-> IF i = 0 THEN first
                                            ELSE IF monos[i] THEN NextSimb(s, f[i - 1].at, Space)
                                            ELSE left(f[i - 1])]
             read == CHOOSE f : Reads(f)
  <1>1. first \in V
    OBVIOUS
  <1>2. StepOf(F, V)
    <2>1. ASSUME NEW x \in V PROVE NextSimb(s, x.at, Space) \in V /\ left(x) \in V
      <3>1. x.at \in Nat /\ Len(s) \in Nat
        OBVIOUS
      <3>2. SubSeq(s, x.at + 1, Len(s)) \in Seq(Int)
        BY <3>1, SubSeqProperties
      <3>3. NextSimb(s, x.at, Space) \in V
        BY <3>1, NextTyped
      <3> QED
        BY <3>1, <3>2, <3>3
    <2> HIDE DEF V, left, monos
    <2> QED
      BY <2>1 DEF StepOf
  <1>3. PICK g : Goes(g, first, F, V)
    <2> HIDE DEF V, F, first
    <2> QED
      BY <1>1, <1>2, Recursion
  <1>4. Reads(g)
    <2>0. g \in [Nat -> V] /\ g[0] = first /\ \A i \in Nat : g[i + 1] = F[<<i, g[i]>>]
      <3> HIDE DEF V, F, first
      <3> QED
        BY <1>3 DEF Goes
    <2>1. ASSUME NEW i \in Nat, i # 0
          PROVE  g[i] = IF monos[i] THEN NextSimb(s, g[i - 1].at, Space) ELSE left(g[i - 1])
      <3>1. i - 1 \in Nat /\ (i - 1) + 1 = i
        BY <2>1
      <3>2. g[(i - 1) + 1] = F[<<i - 1, g[i - 1]>>]
        BY <2>0, <3>1
      <3>3. g[i - 1] \in V
        BY <2>0, <3>1
      <3> HIDE DEF V, left, monos
      <3> QED
        BY <3>1, <3>2, <3>3
    <2>2. g = [i \in Nat |-> g[i]]
      BY <2>0
    <2> HIDE DEF left, monos, first, V
    <2> QED
      BY <2>0, <2>1, <2>2
  <1>5. Reads(read)
    BY <1>4
  <1>6. ArgumentsAt(s, at, monos) =
          LET rest == {i \in DOMAIN monos : ~monos[i]}
          IN  [i \in 1..(IF rest = {} THEN Len(monos) ELSE Min(rest)) |-> read[i].word]
    BY DEF ArgumentsAt
  <1> HIDE DEF read
  <1>7. {i \in DOMAIN monos : ~monos[i]} = {1} /\ ~monos[1]
    <2>1. DOMAIN monos = {1} /\ monos[1] = FALSE
      OBVIOUS
    <2> HIDE DEF monos
    <2> QED
      BY <2>1
  <1>8. Min({1}) = 1
    <2>1. {1} \in SUBSET Nat /\ 1 \in {1} /\ \A y \in {1} : 1 <= y
      OBVIOUS
    <2> QED
      BY <2>1, MinIs
  <1>9. ArgumentsAt(s, at, monos) = [i \in 1..1 |-> read[i].word]
    <2> HIDE DEF monos
    <2> QED
      BY <1>6, <1>7, <1>8
  <1>10. read[1] = left(read[0]) /\ read[0] = first
    <2> HIDE DEF monos, first, left
    <2> QED
      BY <1>5, <1>7
  <1>11. read[1].word = SubSeq(s, at + 1, Len(s))
    BY <1>10
  <1> HIDE DEF first, left, V, F
  <1> QED
    BY <1>9, <1>11

-----------------------------------------------------------------------------
(* Requests: words with spaces between them *)

\* Another part is added with a space behind it.
LEMMA AddedAppend ==
    /\ Added(<<>>) = <<>>
    /\ \A ps \in Seq(Seq(Int)), p \in Seq(Int) :
            Added(ps) \in Seq(Int) /\ Added(Append(ps, p)) = Added(ps) \o (p \o <<Space>>)
  <1>1. Added(<<>>) = <<>>
    <2>1. [i \in DOMAIN <<>> |-> Append(<<>>[i], Space)] = <<>>
      OBVIOUS
    <2> QED
      BY <2>1, FlattenAppend DEF Added
  <1>2. ASSUME NEW ps \in Seq(Seq(Int)), NEW p \in Seq(Int)
        PROVE  Added(ps) \in Seq(Int) /\ Added(Append(ps, p)) = Added(ps) \o (p \o <<Space>>)
    <2> DEFINE n == Len(ps)
               q == Append(ps, p)
               spaced == [i \in DOMAIN ps |-> Append(ps[i], Space)]
               more == [i \in DOMAIN q |-> Append(q[i], Space)]
    <2>1. /\ n \in Nat /\ DOMAIN ps = 1..n /\ q \in Seq(Seq(Int)) /\ DOMAIN q = 1..n + 1
          /\ q[n + 1] = p /\ \A i \in 1..n : q[i] = ps[i]
      OBVIOUS
    <2>2. Space \in Int
      BY DEF Space
    <2>3. Append(p, Space) \in Seq(Int) /\ Append(p, Space) = p \o <<Space>>
      BY <2>2
    <2>4. \A i \in 1..n : ps[i] \in Seq(Int) /\ Append(ps[i], Space) \in Seq(Int)
      BY <2>1, <2>2
    <2>5. spaced \in Seq(Seq(Int)) /\ Len(spaced) = n /\ \A i \in 1..n : spaced[i] = Append(ps[i], Space)
      BY <2>1, <2>4
    <2>6. more = Append(spaced, Append(p, Space))
      <3> HIDE DEF spaced, q, n
      <3>1. Append(spaced, Append(p, Space)) =
              [i \in 1..n + 1 |-> IF i = n + 1 THEN Append(p, Space) ELSE spaced[i]]
        BY <2>1, <2>3, <2>5
      <3>2. ASSUME NEW i \in 1..n + 1
            PROVE  Append(q[i], Space) = IF i = n + 1 THEN Append(p, Space) ELSE spaced[i]
        <4>1. CASE i = n + 1
          BY <2>1, <4>1
        <4>2. CASE i # n + 1
          <5>1. i \in 1..n
            BY <2>1, <4>2
          <5> QED
            BY <2>1, <2>5, <4>2, <5>1
        <4> QED
          BY <4>1, <4>2
      <3> QED
        BY <2>1, <3>1, <3>2
    <2>7. Added(ps) = FlattenSeq(spaced) /\ Added(q) = FlattenSeq(more)
      BY DEF Added
    <2> HIDE DEF spaced, more, q
    <2>8. FlattenSeq(more) = FlattenSeq(spaced) \o Append(p, Space) /\ FlattenSeq(spaced) \in Seq(Int)
      BY <2>3, <2>5, <2>6, FlattenAppend
    <2> QED
      BY <2>3, <2>7, <2>8 DEF q
  <1> QED
    BY <1>1, <1>2

\* Sequences may be put together from either end.
LEMMA Reassociate ==
    ASSUME NEW x \in Seq(Int), NEW y \in Seq(Int), NEW z \in Seq(Int)
    PROVE  x \o (y \o z) = x \o y \o z
  OBVIOUS

\* A tuple with one more part.
LEMMA AppendPart ==
    ASSUME NEW a \in Seq(Int), NEW b \in Seq(Int), NEW c \in Seq(Int)
    PROVE  Append(<<a>>, b) = <<a, b>> /\ Append(<<a, b>>, c) = <<a, b, c>>
  <1>1. Append(<<a>>, b) = <<a, b>>
    <2> DEFINE s == Append(<<a>>, b)
               t == <<a, b>>
    <2>1. s \in Seq(Seq(Int)) /\ Len(s) = 2 /\ s[1] = a /\ s[2] = b
      OBVIOUS
    <2>2. t \in Seq(Seq(Int)) /\ Len(t) = 2 /\ t[1] = a /\ t[2] = b
      OBVIOUS
    <2> HIDE DEF s, t
    <2>3. \A i \in 1..2 : s[i] = t[i]
      <3>1. \A i \in 1..2 : i = 1 \/ i = 2
        OBVIOUS
      <3> QED
        BY <2>1, <2>2, <3>1
    <2>4. s = t
      <3>1. Len(s) = Len(t) /\ \A i \in 1..Len(s) : s[i] = t[i]
        BY <2>1, <2>2, <2>3
      <3> QED
        BY <2>1, <2>2, <3>1, SeqEqual, ZenonT(60)
    <2> QED
      BY <2>4 DEF s, t
  <1>2. Append(<<a, b>>, c) = <<a, b, c>>
    <2> DEFINE s == Append(<<a, b>>, c)
               t == <<a, b, c>>
    <2>1. s \in Seq(Seq(Int)) /\ Len(s) = 3 /\ s[1] = a /\ s[2] = b /\ s[3] = c
      OBVIOUS
    <2>2. t \in Seq(Seq(Int)) /\ Len(t) = 3 /\ t[1] = a /\ t[2] = b /\ t[3] = c
      OBVIOUS
    <2> HIDE DEF s, t
    <2>3. \A i \in 1..3 : s[i] = t[i]
      <3>1. \A i \in 1..3 : i = 1 \/ i = 2 \/ i = 3
        OBVIOUS
      <3> QED
        BY <2>1, <2>2, <3>1
    <2>4. s = t
      <3>1. Len(s) = Len(t) /\ \A i \in 1..Len(s) : s[i] = t[i]
        BY <2>1, <2>2, <2>3
      <3> QED
        BY <2>1, <2>2, <3>1, SeqEqual, ZenonT(60)
    <2> QED
      BY <2>4 DEF s, t
  <1> QED
    BY <1>1, <1>2

\* One, two and three parts.
LEMMA AddedParts ==
    ASSUME NEW a \in Seq(Int), NEW b \in Seq(Int), NEW c \in Seq(Int)
    PROVE  /\ Added(<<a>>) = a \o <<Space>>
           /\ Added(<<a, b>>) = a \o <<Space>> \o b \o <<Space>>
           /\ Added(<<a, b, c>>) = a \o <<Space>> \o b \o <<Space>> \o c \o <<Space>>
  <1> DEFINE none == <<>>
             sp == <<Space>>
  <1>1. none \in Seq(Seq(Int)) /\ <<a>> \in Seq(Seq(Int)) /\ <<a, b>> \in Seq(Seq(Int))
    OBVIOUS
  <1>2. Append(none, a) = <<a>> /\ Append(<<a>>, b) = <<a, b>> /\ Append(<<a, b>>, c) = <<a, b, c>>
    <2>1. Append(none, a) = <<a>>
      OBVIOUS
    <2> QED
      BY <2>1, AppendPart
  <1>3. Added(none) = <<>>
    BY AddedAppend
  <1>4. sp \in Seq(Int) /\ a \o sp \in Seq(Int) /\ b \o sp \in Seq(Int) /\ c \o sp \in Seq(Int)
    BY DEF Space
  <1>5. <<>> \o (a \o sp) = a \o sp
    BY <1>4
  <1>6. Added(<<a>>) = a \o sp
    <2> HIDE DEF none, sp
    <2>1. Added(Append(none, a)) = Added(none) \o (a \o <<Space>>)
      BY <1>1, AddedAppend
    <2> QED
      BY <1>2, <1>3, <1>5, <2>1 DEF sp
  <1>7. Added(<<a, b>>) = (a \o sp) \o (b \o sp)
    <2>1. Added(Append(<<a>>, b)) = Added(<<a>>) \o (b \o <<Space>>)
      BY <1>1, AddedAppend
    <2> QED
      BY <1>2, <1>6, <2>1
  <1>8. Added(<<a, b, c>>) = (a \o sp) \o (b \o sp) \o (c \o sp)
    <2>1. Added(Append(<<a, b>>, c)) = Added(<<a, b>>) \o (c \o <<Space>>)
      BY <1>1, AddedAppend
    <2> QED
      BY <1>2, <1>7, <2>1
  <1> HIDE DEF sp
  <1>9. (a \o sp) \o (b \o sp) = (a \o sp) \o b \o sp
    <2> DEFINE x == a \o sp
    <2>1. x \in Seq(Int)
      BY <1>4
    <2> HIDE DEF x
    <2>2. x \o (b \o sp) = x \o b \o sp
      BY <1>4, <2>1, Reassociate, ZenonT(60)
    <2> QED
      BY <2>2 DEF x
  <1>10. (a \o sp) \o b \o sp \in Seq(Int)
    BY <1>4, ConcatProperties
  <1>11. ((a \o sp) \o b \o sp) \o (c \o sp) = ((a \o sp) \o b \o sp) \o c \o sp
    BY <1>4, <1>10, Reassociate, ZenonT(60)
  <1> QED
    BY <1>6, <1>7, <1>8, <1>9, <1>11 DEF sp

\* Words in a row, the way a request carries them.
Line2(t, u)       == t \o <<Space>> \o u
Line3(t, u, v)    == Line2(t, Line2(u, v))
Line4(t, u, v, p) == Line2(t, Line3(u, v, p))

\* Added one by one or put together from the right, the line is the same.
LEMMA Line3Flat ==
    ASSUME NEW u \in Seq(Int), NEW v \in Seq(Int), NEW p \in Seq(Int)
    PROVE  u \o <<Space>> \o v \o <<Space>> \o p = Line3(u, v, p)
  <1> DEFINE x == u \o <<Space>>
             w == <<Space>>
  <1>1. x \in Seq(Int) /\ w \in Seq(Int)
    BY DEF Space
  <1>2. Line3(u, v, p) = x \o (v \o w \o p)
    BY DEF Line3, Line2
  <1>3. u \o <<Space>> \o v \o <<Space>> \o p = x \o v \o w \o p
    OBVIOUS
  <1> HIDE DEF x, w
  <1>4. x \o (v \o w \o p) = x \o v \o w \o p
    <2>1. x \in Seq(Int)
      BY <1>1
    <2>2. w \in Seq(Int)
      BY <1>1
    <2> QED
      BY <2>1, <2>2, SMTT(30)
  <1> QED
    BY <1>2, <1>3, <1>4

\* Lines written by NetRequest.
LEMMA RequestLines ==
    ASSUME NEW t \in Seq(Int), NEW u \in Seq(Int), NEW v \in Seq(Int), NEW p \in Seq(Int)
    PROVE  /\ NetRequest(t, <<u>>) = Line2(t, u)
           /\ NetRequest(t, <<u, v>>) = Line3(t, u, v)
           /\ NetRequest(t, <<u, v, p>>) = Line4(t, u, v, p)
  <1> DEFINE sp == <<Space>>
  <1>1. sp \in Seq(Int) /\ Append(t, Space) = t \o sp /\ t \o sp \in Seq(Int)
    BY DEF Space
  <1>2. ASSUME NEW parts, NEW x \in Seq(Int), Added(parts) = x \o sp
        PROVE  NetRequest(t, parts) = t \o sp \o x
    <2> DEFINE raw == x \o sp
    <2>1. raw # <<>> /\ Last(raw) = Space /\ Front(raw) = x
      BY DEF Last, Front, Space
    <2> HIDE DEF raw
    <2> QED
      BY <1>1, <1>2, <2>1 DEF NetRequest, raw
  <1>3. NetRequest(t, <<u>>) = Line2(t, u)
    BY <1>2, AddedParts, ZenonT(60) DEF Line2
  <1>4. NetRequest(t, <<u, v>>) = Line3(t, u, v)
    <2>1. u \o sp \o v \in Seq(Int)
      BY <1>1
    <2>2. Added(<<u, v>>) = (u \o sp \o v) \o sp
      BY AddedParts
    <2> QED
      BY <1>2, <2>1, <2>2 DEF Line3, Line2
  <1>5. NetRequest(t, <<u, v, p>>) = Line4(t, u, v, p)
    <2> DEFINE x == u \o sp \o v \o sp \o p
    <2>1. x \in Seq(Int)
      BY <1>1
    <2>2. Added(<<u, v, p>>) = x \o sp
      BY AddedParts, ZenonT(60)
    <2>3. x = Line3(u, v, p)
      BY Line3Flat
    <2> HIDE DEF x
    <2> QED
      BY <1>2, <2>1, <2>2, <2>3 DEF Line4, Line2
  <1> QED
    BY <1>3, <1>4, <1>5

\* Where the words of a line stand.
LEMMA LinePlaces ==
    ASSUME NEW t \in Seq(Int), NEW x \in Seq(Int)
    PROVE  /\ Line2(t, x) \in Seq(Int) /\ Len(Line2(t, x)) = Len(t) + 1 + Len(x)
           /\ Stands(Line2(t, x), 0, t) /\ Stands(Line2(t, x), Len(t) + 1, x)
           /\ Line2(t, x)[Len(t) + 1] = Space
  <1> Space \in Int
    BY DEF Space
  <1> QED
    BY DEF Line2, Stands

\* What stands in a part of the text stands in the text.
LEMMA StandsWithin ==
    ASSUME NEW s \in Seq(Int), NEW at \in Nat, NEW x \in Seq(Int), Stands(s, at, x),
           NEW k \in Nat, NEW w \in Seq(Int), Stands(x, k, w)
    PROVE  Stands(s, at + k, w)
  <1>1. at + k + Len(w) <= Len(s)
    BY DEF Stands
  <1>2. ASSUME NEW i \in 1..Len(w) PROVE s[at + k + i] = w[i]
    <2>1. k + i \in 1..Len(x) /\ at + (k + i) = at + k + i
      <3> DEFINE n == Len(x)
                 m == Len(w)
      <3>1. n \in Nat /\ m \in Nat /\ i \in 1..m
        OBVIOUS
      <3>2. k + m <= n
        BY Stands(x, k, w) DEF Stands
      <3> HIDE DEF n, m
      <3>3. k + i \in 1..n
        BY <3>1, <3>2
      <3> QED
        BY <3>1, <3>3 DEF n
    <2>2. x[k + i] = w[i] /\ s[at + (k + i)] = x[k + i]
      BY <2>1 DEF Stands
    <2> QED
      BY <2>1, <2>2
  <1> QED
    BY <1>1, <1>2 DEF Stands

\* A single byte of a part of the text.
LEMMA ByteWithin ==
    ASSUME NEW s \in Seq(Int), NEW at \in Nat, NEW x \in Seq(Int), Stands(s, at, x), NEW k \in 1..Len(x)
    PROVE  s[at + k] = x[k]
  BY DEF Stands

\* A text of one space, and one of more.
LEMMA CountOne ==
    ASSUME NEW t, Word(t), NEW u, Word(u)
    PROVE  Count(Line2(t, u), Space) = 1
  <1> DEFINE s == Line2(t, u)
             k == Len(t)
             m == Len(u)
  <1>1. t \in Seq(Int) /\ u \in Seq(Int) /\ k \in Nat /\ m \in Nat
    BY DEF Word
  <1>2. s \in Seq(Int) /\ Len(s) = k + 1 + m /\ Stands(s, 0, t) /\ Stands(s, k + 1, u) /\ s[k + 1] = Space
    BY <1>1, LinePlaces
  <1> HIDE DEF s, k, m
  <1>3. DOMAIN s = 1..k + 1 + m
    BY <1>2
  <1>4. ASSUME NEW i \in 1..k + 1 + m, i # k + 1 PROVE s[i] # Space
    <2>1. CASE i \in 1..k
      <3>1. s[0 + i] = t[i] /\ 0 + i = i
        BY <1>1, <1>2, <2>1, SMTT(30) DEF Stands, k
      <3> QED
        BY <2>1, <3>1 DEF Word, k
    <2>2. CASE i \notin 1..k
      <3>1. i - (k + 1) \in 1..m /\ (k + 1) + (i - (k + 1)) = i
        BY <1>1, <1>4, <2>2
      <3>2. s[(k + 1) + (i - (k + 1))] = u[i - (k + 1)]
        BY <1>2, <3>1 DEF Stands, m
      <3> QED
        BY <3>1, <3>2 DEF Word, m
    <2> QED
      BY <2>1, <2>2
  <1>5. k + 1 \in 1..k + 1 + m
    BY <1>1
  <1>6. Places(s, Space) = {k + 1}
    BY <1>2, <1>3, <1>4, <1>5 DEF Places
  <1> QED
    BY <1>6, FS_Singleton DEF Count, s

\* Spaces at two places are more than one.
LEMMA CountMore ==
    ASSUME NEW s \in Seq(Int), NEW i \in 1..Len(s), NEW j \in 1..Len(s), i # j,
           s[i] = Space, s[j] = Space
    PROVE  Count(s, Space) > 1
  <1> DEFINE P == Places(s, Space)
  <1>1. P \subseteq 1..Len(s) /\ {i, j} \subseteq P
    <2>1. DOMAIN s = 1..Len(s)
      OBVIOUS
    <2> QED
      BY <2>1 DEF Places
  <1>2. IsFiniteSet(1..Len(s))
    BY FS_Interval
  <1>3. IsFiniteSet(P)
    BY <1>1, <1>2, FS_Subset
  <1>4. IsFiniteSet({i}) /\ Cardinality({i}) = 1
    BY FS_Singleton
  <1>5. Cardinality({i} \cup {j}) = 1 + 1
    <2>1. j \notin {i}
      OBVIOUS
    <2> QED
      BY <1>4, <2>1, FS_AddElement
  <1>6. {i} \cup {j} \in SUBSET P
    BY <1>1
  <1>7. Cardinality({i} \cup {j}) <= Cardinality(P) /\ Cardinality(P) \in Nat
    <2> HIDE DEF P
    <2>1. Cardinality({i} \cup {j}) <= Cardinality(P)
      BY <1>3, <1>6, FS_Subset
    <2>2. Cardinality(P) \in Nat
      BY <1>3, FS_CardinalityType
    <2> QED
      BY <2>1, <2>2
  <1> QED
    BY <1>5, <1>7 DEF Count

\* deflect reads the type, the uid and the tunnel, and hands over what is left.
LEMMA DeflectWithTunnel ==
    ASSUME NEW s \in Seq(Int), NEW t, Word(t), t \in DOMAIN Arguments, NEW u \in Int, NEW v \in Int,
           Stands(s, 0, t), s[Len(t) + 1] = Space,
           Stands(s, Len(t) + 1, Decimal(u)), s[Len(t) + 1 + Len(Decimal(u)) + 1] = Space,
           Len(t) + 1 + Len(Decimal(u)) + 1 <= Len(s), NEW e,
           NextSimb(s, Len(t) + 1 + Len(Decimal(u)) + 1, Space) = [word |-> Decimal(v), at |-> e]
    PROVE  Deflect(s) = [type |-> t, uid |-> u, tunnel |-> v, args |-> ArgumentsAt(s, e, Arguments[t])]
  <1> DEFINE du == Decimal(u)
             dv == Decimal(v)
             i == Len(t) + 1
             j == Len(t) + 1 + Len(du) + 1
  <1>1. Word(du) /\ Stoll(du) = {u} /\ Stoll(dv) = {v}
    BY DecimalIsWord, StollDecimal
  <1> HIDE DEF du, dv
  <1>2. Len(t) \in Nat /\ Len(du) \in Nat /\ t \in Seq(Int) /\ du \in Seq(Int)
    BY <1>1, SMTT(30) DEF Word
  <1>3. 0 \in Nat /\ 0 + Len(t) + 1 = i /\ i \in Nat /\ i + Len(du) + 1 = j /\ j \in Nat
        /\ i \in 1..Len(s) /\ j \in 1..Len(s) /\ i # j
    BY <1>2 DEF du
  <1>4. NextSimb(s, 0, Space) = [word |-> t, at |-> i]
    <2>1. s[0 + Len(t) + 1] = Space /\ 0 + Len(t) + 1 <= Len(s)
      BY <1>3
    <2> QED
      BY <1>3, <2>1, NextWord
  <1>5. NextSimb(s, i, Space) = [word |-> du, at |-> j]
    <2>1. s[i + Len(du) + 1] = Space /\ i + Len(du) + 1 <= Len(s) /\ Stands(s, i, du)
      BY <1>3 DEF du
    <2> HIDE DEF i
    <2>2. NextSimb(s, i, Space) = [word |-> du, at |-> i + Len(du) + 1]
      BY <1>1, <1>3, <2>1, NextWord
    <2> HIDE DEF j
    <2> QED
      BY <1>3, <2>2
  <1>6. NextSimb(s, j, Space) = [word |-> dv, at |-> e]
    BY DEF du, dv
  <1>7. Count(s, Space) > 1
    <2>1. s[i] = Space /\ s[j] = Space
      BY DEF du
    <2> HIDE DEF i, j
    <2> QED
      BY <1>3, <2>1, CountMore
  <1>8. (CHOOSE x \in {u} : TRUE) = u /\ (CHOOSE x \in {v} : TRUE) = v
    OBVIOUS
  <1> DEFINE type   == NextSimb(s, 0, Space)
             uidAt  == NextSimb(s, type.at, Space)
             tunAt  == NextSimb(s, uidAt.at, Space)
  <1> HIDE DEF i, j
  <1>9. type.word = t /\ type.at = i
    BY <1>4
  <1>10. uidAt.word = du /\ uidAt.at = j
    <2> HIDE DEF type
    <2> QED
      BY <1>5, <1>9
  <1>11. tunAt.word = dv /\ tunAt.at = e
    <2> HIDE DEF type, uidAt
    <2> QED
      BY <1>6, <1>10
  <1>12. Deflect(s) =
           LET more   == Count(s, Space) > 1
               at     == IF more THEN tunAt.at ELSE uidAt.at
               uid    == Stoll(uidAt.word)
               tunnel == IF more THEN Stoll(tunAt.word) ELSE {-1}
           IN  IF uid = {} \/ tunnel = {}               THEN [error |-> ParseError]
               ELSE IF type.word \notin DOMAIN Arguments THEN [error |-> UnregisteredError]
               ELSE [type   |-> type.word,
                     uid    |-> CHOOSE x \in uid : TRUE,
                     tunnel |-> CHOOSE x \in tunnel : TRUE,
                     args   |-> ArgumentsAt(s, at, Arguments[type.word])]
    BY DEF Deflect
  <1> HIDE DEF type, uidAt, tunAt
  <1> QED
    BY <1>1, <1>7, <1>8, <1>9, <1>10, <1>11, <1>12

\* With one space only there is no tunnel: deflect takes -1.
LEMMA DeflectWithout ==
    ASSUME NEW t, Word(t), t \in DOMAIN Arguments, NEW u \in Int
    PROVE  LET s == Line2(t, Decimal(u))
           IN  Deflect(s) = [type |-> t, uid |-> u, tunnel |-> -1,
                             args |-> ArgumentsAt(s, Len(t) + 1, Arguments[t])]
  <1> DEFINE du == Decimal(u)
             s == Line2(t, du)
             i == Len(t) + 1
  <1>1. Word(du) /\ Stoll(du) = {u}
    BY DecimalIsWord, StollDecimal
  <1> HIDE DEF du
  <1>2. Len(t) \in Nat /\ Len(du) \in Nat /\ t \in Seq(Int) /\ du \in Seq(Int)
    BY <1>1 DEF Word
  <1>3. s \in Seq(Int) /\ Len(s) = i + Len(du) /\ Stands(s, 0, t) /\ Stands(s, i, du) /\ s[i] = Space
    BY <1>2, LinePlaces
  <1>4. Count(s, Space) = 1
    BY <1>1, CountOne
  <1> HIDE DEF s
  <1>5. NextSimb(s, 0, Space) = [word |-> t, at |-> i]
    <2>1. s[0 + Len(t) + 1] = Space /\ 0 + Len(t) + 1 <= Len(s) /\ 0 \in Nat /\ 0 + Len(t) + 1 = i
      BY <1>2, <1>3
    <2> QED
      BY <1>3, <2>1, NextWord
  <1>6. NextSimb(s, i, Space) = [word |-> du, at |-> i]
    <2>1. i \in Nat /\ i + Len(du) = Len(s)
      BY <1>2, <1>3
    <2> HIDE DEF i
    <2> QED
      BY <1>1, <1>3, <2>1, LastWord
  <1>7. (CHOOSE x \in {u} : TRUE) = u /\ (CHOOSE x \in {-1} : TRUE) = -1
    OBVIOUS
  <1> HIDE DEF i
  <1>8. Deflect(s) = [type |-> t, uid |-> u, tunnel |-> -1, args |-> ArgumentsAt(s, i, Arguments[t])]
    BY <1>1, <1>4, <1>5, <1>6, <1>7 DEF Deflect
  <1> QED
    BY <1>8 DEF s, du, i

-----------------------------------------------------------------------------
(* The messenger's line of uids *)

\* What split reads: word after word, each where the one before has ended.
Reader(s, read) ==
    /\ read[0] = NextSimb(s, 0, Space)
    /\ \A n \in Nat : read[n + 1] = NextSimb(s, read[n].at, Space)

\* Split has such a reader, and its words.
LEMMA SplitReads ==
    ASSUME NEW s \in Seq(Int)
    PROVE  \E read : /\ Reader(s, read)
                     /\ Split(s, Space) = [i \in 1..Count(s, Space) + 1 |-> read[i - 1].word]
  <1> DEFINE V == [word : Seq(Int), at : Nat]
             first == NextSimb(s, 0, Space)
             F == [nx \in Nat \X V |-> NextSimb(s, nx[2].at, Space)]
             Reads(f) == f = [n \in Nat |-> NextSimb(s, IF n = 0 THEN 0 ELSE f[n - 1].at, Space)]
             read == CHOOSE f : Reads(f)
  <1>1. first \in V
    BY NextTyped
  <1>2. StepOf(F, V)
    <2>1. ASSUME NEW y \in V PROVE NextSimb(s, y.at, Space) \in V
      <3>1. y.at \in Nat
        OBVIOUS
      <3> QED
        BY <3>1, NextTyped
    <2> HIDE DEF V
    <2> QED
      BY <2>1 DEF StepOf
  <1>3. PICK g : Goes(g, first, F, V)
    <2> HIDE DEF V, F, first
    <2> QED
      BY <1>1, <1>2, Recursion
  <1>4. Reads(g)
    <2>1. g \in [Nat -> V] /\ g[0] = first /\ \A n \in Nat : g[n + 1] = F[<<n, g[n]>>]
      <3> HIDE DEF V, F, first
      <3> QED
        BY <1>3 DEF Goes
    <2>2. ASSUME NEW n \in Nat, n # 0 PROVE g[n] = NextSimb(s, g[n - 1].at, Space)
      <3>1. n - 1 \in Nat /\ (n - 1) + 1 = n
        BY <2>2
      <3>2. g[(n - 1) + 1] = F[<<n - 1, g[n - 1]>>]
        BY <2>1, <3>1
      <3>3. g[n - 1] \in V
        BY <2>1, <3>1
      <3> HIDE DEF V
      <3> QED
        BY <3>1, <3>2, <3>3
    <2>3. g = [n \in Nat |-> g[n]]
      BY <2>1
    <2> HIDE DEF V
    <2> QED
      BY <2>1, <2>2, <2>3
  <1>5. Reads(read)
    BY <1>4
  <1>6. Split(s, Space) = [i \in 1..Count(s, Space) + 1 |-> read[i - 1].word]
    BY DEF Split
  <1>7. Reader(s, read)
    <2>1. \A n \in Nat : read[n] = NextSimb(s, IF n = 0 THEN 0 ELSE read[n - 1].at, Space)
      BY <1>5
    <2> HIDE DEF read, Reads
    <2>2. read[0] = NextSimb(s, 0, Space)
      BY <2>1
    <2>3. ASSUME NEW n \in Nat PROVE read[n + 1] = NextSimb(s, read[n].at, Space)
      <3>1. n + 1 \in Nat /\ n + 1 # 0 /\ (n + 1) - 1 = n
        OBVIOUS
      <3> QED
        BY <2>1, <3>1
    <2> QED
      BY <2>2, <2>3 DEF Reader
  <1> HIDE DEF read
  <1> QED
    BY <1>6, <1>7

\* Word by word, the three words of a line.
LEMMA SplitLine ==
    ASSUME NEW a, Word(a), NEW b, Word(b), NEW c, Word(c)
    PROVE  LET words == Split(Line3(a, b, c), Space)
           IN  words[1] = a /\ words[2] = b /\ words[3] = c
  <1> DEFINE s == Line3(a, b, c)
             x == Line2(b, c)
             i == Len(a) + 1
             j == i + Len(b) + 1
  <1>1. /\ a \in Seq(Int) /\ b \in Seq(Int) /\ c \in Seq(Int)
        /\ Len(a) \in Nat /\ Len(b) \in Nat /\ Len(c) \in Nat /\ Len(c) # 0
    BY DEF Word
  <1>2. /\ x \in Seq(Int) /\ Len(x) = Len(b) + 1 + Len(c)
        /\ Stands(x, 0, b) /\ Stands(x, Len(b) + 1, c) /\ x[Len(b) + 1] = Space
    BY <1>1, LinePlaces
  <1>3. s = Line2(a, x)
    BY DEF Line3
  <1> HIDE DEF x, s
  <1>4. s \in Seq(Int) /\ Len(s) = Len(a) + 1 + Len(x) /\ Stands(s, 0, a) /\ Stands(s, i, x) /\ s[i] = Space
    BY <1>1, <1>2, <1>3, LinePlaces
  <1>5. i \in Nat /\ j \in Nat /\ i + 0 = i /\ i + (Len(b) + 1) = j /\ Len(b) + 1 \in Nat
        /\ Len(b) + 1 \in 1..Len(x) /\ 0 + Len(a) + 1 = i /\ 0 \in Nat
        /\ i <= Len(s) /\ j <= Len(s) /\ j + Len(c) = Len(s) /\ i # j /\ i \in 1..Len(s) /\ j \in 1..Len(s)
    <2> DEFINE k == Len(a)
               l == Len(b)
               m == Len(c)
               n == Len(s)
               o == Len(x)
    <2>1. k \in Nat /\ l \in Nat /\ m \in Nat /\ o = l + 1 + m /\ n = k + 1 + o
      BY <1>1, <1>2, <1>4
    <2> HIDE DEF k, l, m, n, o
    <2>2. /\ (k + 1) \in Nat /\ (k + 1 + l + 1) \in Nat /\ (k + 1) + 0 = k + 1
          /\ (k + 1) + (l + 1) = k + 1 + l + 1 /\ l + 1 \in Nat /\ l + 1 \in 1..o
          /\ 0 + k + 1 = k + 1 /\ k + 1 <= n /\ k + 1 + l + 1 <= n /\ k + 1 + l + 1 + m = n
          /\ k + 1 # k + 1 + l + 1 /\ k + 1 \in 1..n /\ k + 1 + l + 1 \in 1..n
      BY <2>1
    <2> QED
      BY <2>2 DEF k, l, m, n, o
  <1>6. i + Len(b) + 1 = j
    OBVIOUS
  <1> HIDE DEF i, j
  <1>7. Stands(s, i + 0, b) /\ Stands(s, i + (Len(b) + 1), c) /\ s[i + (Len(b) + 1)] = x[Len(b) + 1]
    <2>1. Stands(s, i + 0, b)
      BY <1>1, <1>2, <1>4, <1>5, StandsWithin
    <2>2. Stands(s, i + (Len(b) + 1), c)
      BY <1>1, <1>2, <1>4, <1>5, StandsWithin
    <2>3. s[i + (Len(b) + 1)] = x[Len(b) + 1]
      BY <1>2, <1>4, <1>5, ByteWithin, ZenonT(60)
    <2> QED
      BY <2>1, <2>2, <2>3
  <1>8. Stands(s, i, b) /\ Stands(s, j, c) /\ s[j] = Space
    BY <1>2, <1>5, <1>7
  <1>9. NextSimb(s, 0, Space) = [word |-> a, at |-> i]
    BY <1>4, <1>5, NextWord
  <1>10. NextSimb(s, i, Space) = [word |-> b, at |-> j]
    BY <1>4, <1>5, <1>6, <1>8, NextWord
  <1>11. NextSimb(s, j, Space) = [word |-> c, at |-> j]
    BY <1>4, <1>5, <1>8, LastWord
  <1>12. Count(s, Space) > 1 /\ Count(s, Space) \in Nat
    <2>1. Count(s, Space) > 1
      BY <1>4, <1>5, <1>8, CountMore
    <2>2. Places(s, Space) \in SUBSET (1..Len(s))
      <3>1. DOMAIN s = 1..Len(s)
        BY <1>4
      <3> QED
        BY <3>1 DEF Places
    <2>3. Len(s) \in Nat
      BY <1>4
    <2>4. IsFiniteSet(Places(s, Space))
      <3>1. IsFiniteSet(1..Len(s))
        BY <2>3, FS_Interval
      <3> QED
        BY <2>2, <3>1, FS_Subset
    <2> QED
      BY <2>1, <2>4, FS_CardinalityType DEF Count
  <1>13. PICK read : Reader(s, read) /\ Split(s, Space) = [n \in 1..Count(s, Space) + 1 |-> read[n - 1].word]
    BY <1>4, SplitReads
  <1>14. read[0] = NextSimb(s, 0, Space) /\ read[1] = NextSimb(s, read[0].at, Space)
         /\ read[2] = NextSimb(s, read[1].at, Space)
    <2>1. 0 \in Nat /\ 1 \in Nat /\ 0 + 1 = 1 /\ 1 + 1 = 2
      OBVIOUS
    <2> QED
      BY <1>13, <2>1 DEF Reader
  <1>15. read[0].word = a /\ read[1].word = b /\ read[2].word = c
    BY <1>9, <1>10, <1>11, <1>14
  <1>16. LET words == Split(s, Space)
         IN  words[1] = read[0].word /\ words[2] = read[1].word /\ words[3] = read[2].word
    <2> DEFINE k == Count(s, Space)
    <2>1. 1 \in 1..k + 1 /\ 2 \in 1..k + 1 /\ 3 \in 1..k + 1 /\ 1 - 1 = 0 /\ 2 - 1 = 1 /\ 3 - 1 = 2
      BY <1>12
    <2> HIDE DEF k
    <2> QED
      BY <1>13, <2>1 DEF k
  <1> QED
    BY <1>15, <1>16 DEF s

\* regme reads back the three uids that dump printed.
THEOREM RegmeDump ==
    ASSUME NEW info \in Int \X Int \X Int
    PROVE  Regme(Dump(info)) = [i \in 1..3 |-> {info[i]}]
  <1> DEFINE a == Decimal(info[1])
             b == Decimal(info[2])
             c == Decimal(info[3])
             s == Line3(a, b, c)
  <1>1. info[1] \in Int /\ info[2] \in Int /\ info[3] \in Int
    OBVIOUS
  <1>2. /\ Word(a) /\ Word(b) /\ Word(c)
        /\ Stoll(a) = {info[1]} /\ Stoll(b) = {info[2]} /\ Stoll(c) = {info[3]}
    BY <1>1, DecimalIsWord, StollDecimal
  <1>3. [i \in DOMAIN info |-> Decimal(info[i])] = <<a, b, c>>
    <2>1. DOMAIN info = 1..3
      OBVIOUS
    <2>2. [i \in 1..3 |-> Decimal(info[i])] = <<a, b, c>>
      OBVIOUS
    <2> QED
      BY <2>1, <2>2
  <1> HIDE DEF a, b, c
  <1>4. a \in Seq(Int) /\ b \in Seq(Int) /\ c \in Seq(Int) /\ <<Space>> \in Seq(Int)
    BY <1>2 DEF Word, Space
  <1> DEFINE x == a \o <<Space>> \o b \o <<Space>> \o c
  <1>5. Added(<<a, b, c>>) = x \o <<Space>>
    BY <1>4, AddedParts, ZenonT(60)
  <1>6. x \in Seq(Int)
    BY <1>4
  <1>7. x = s
    BY <1>4, Line3Flat
  <1> HIDE DEF x
  <1>8. Front(x \o <<Space>>) = x
    BY <1>6 DEF Front, Space
  <1>9. Dump(info) = s
    BY <1>3, <1>5, <1>7, <1>8 DEF Dump
  <1> DEFINE words == Split(s, Space)
  <1>10. words[1] = a /\ words[2] = b /\ words[3] = c
    <2> HIDE DEF words
    <2>1. LET split == Split(Line3(a, b, c), Space)
          IN  split[1] = a /\ split[2] = b /\ split[3] = c
      BY <1>2, SplitLine
    <2> QED
      BY <2>1 DEF words
  <1>11. Regme(s) = [i \in 1..3 |-> Stoll(words[i])]
    BY DEF Regme
  <1> HIDE DEF words, s
  <1>12. ASSUME NEW i \in 1..3 PROVE Stoll(words[i]) = {info[i]}
    <2>1. i = 1 \/ i = 2 \/ i = 3
      OBVIOUS
    <2> QED
      BY <1>2, <1>10, <2>1
  <1> QED
    BY <1>9, <1>11, <1>12

-----------------------------------------------------------------------------
(* Requests are understood *)

\* A request as ClientProto makes it.
Request(r) ==
    /\ r.type \in DOMAIN Arguments /\ r.uid \in Int /\ r.tunnel \in Int
    /\ r.payload \in Seq(Int)
    /\ r.tunnel = -1 <=> Arguments[r.type] = <<TRUE>>

\* What deflect should make of it.
Understood(r, g) ==
    /\ {"type", "uid", "tunnel", "args"} = DOMAIN g
    /\ g.type = r.type /\ g.uid = r.uid /\ g.tunnel = r.tunnel
    /\ Arguments[g.type] = <<FALSE>> => g.args = <<r.payload>>

\* A registered type is a word, with one argument at most.
LEMMA TypeIsWord ==
    ASSUME NEW type \in DOMAIN Arguments
    PROVE  Word(type) /\ Arguments[type] \in {<<>>, <<TRUE>>, <<FALSE>>}
  BY RequestAssumption DEF Word

\* The line of a type, a word and whatever follows: where everything stands.
LEMMA ThreeParts ==
    ASSUME NEW a, Word(a), NEW b, Word(b), NEW c \in Seq(Int)
    PROVE  LET s == Line3(a, b, c)
           IN  /\ s \in Seq(Int) /\ Len(s) = Len(a) + 1 + Len(b) + 1 + Len(c)
               /\ Stands(s, 0, a) /\ s[Len(a) + 1] = Space
               /\ Stands(s, Len(a) + 1, b) /\ s[Len(a) + 1 + Len(b) + 1] = Space
               /\ Stands(s, Len(a) + 1 + Len(b) + 1, c)
  <1> DEFINE s == Line3(a, b, c)
             x == Line2(b, c)
             i == Len(a) + 1
             j == Len(a) + 1 + Len(b) + 1
  <1>1. /\ a \in Seq(Int) /\ b \in Seq(Int) /\ c \in Seq(Int)
        /\ Len(a) \in Nat /\ Len(b) \in Nat /\ Len(c) \in Nat
    BY DEF Word
  <1>2. /\ x \in Seq(Int) /\ Len(x) = Len(b) + 1 + Len(c)
        /\ Stands(x, 0, b) /\ Stands(x, Len(b) + 1, c) /\ x[Len(b) + 1] = Space
    BY <1>1, LinePlaces
  <1>3. s = Line2(a, x)
    BY DEF Line3
  <1> HIDE DEF x, s
  <1>4. s \in Seq(Int) /\ Len(s) = Len(a) + 1 + Len(x) /\ Stands(s, 0, a) /\ Stands(s, i, x) /\ s[i] = Space
    BY <1>1, <1>2, <1>3, LinePlaces
  <1>5. i \in Nat /\ i + 0 = i /\ i + (Len(b) + 1) = j /\ Len(b) + 1 \in Nat
        /\ Len(b) + 1 \in 1..Len(x) /\ 0 \in Nat /\ Len(s) = Len(a) + 1 + Len(b) + 1 + Len(c)
    <2> DEFINE k == Len(a)
               l == Len(b)
               m == Len(c)
               n == Len(s)
               o == Len(x)
    <2>1. k \in Nat /\ l \in Nat /\ m \in Nat /\ o = l + 1 + m /\ n = k + 1 + o
      BY <1>1, <1>2, <1>4
    <2> HIDE DEF k, l, m, n, o
    <2>2. /\ (k + 1) \in Nat /\ (k + 1) + 0 = k + 1
          /\ (k + 1) + (l + 1) = k + 1 + l + 1 /\ l + 1 \in Nat /\ l + 1 \in 1..o
          /\ n = k + 1 + l + 1 + m
      BY <2>1
    <2> QED
      BY <2>2 DEF k, l, m, n, o
  <1> HIDE DEF i, j
  <1>6. Stands(s, i + 0, b)
    BY <1>1, <1>2, <1>4, <1>5, StandsWithin
  <1>7. Stands(s, i + (Len(b) + 1), c)
    BY <1>1, <1>2, <1>4, <1>5, StandsWithin
  <1>8. s[i + (Len(b) + 1)] = x[Len(b) + 1]
    BY <1>2, <1>4, <1>5, ByteWithin
  <1>9. Stands(s, i, b) /\ Stands(s, j, c) /\ s[j] = Space
    BY <1>2, <1>5, <1>6, <1>7, <1>8
  <1> QED
    BY <1>4, <1>5, <1>9 DEF s, i, j

\* A request with a tunnel and no payload.
LEMMA DeflectTunnelOnly ==
    ASSUME NEW t, Word(t), t \in DOMAIN Arguments, NEW u \in Int, NEW v \in Int
    PROVE  LET g == Deflect(Line3(t, Decimal(u), Decimal(v)))
           IN  \E args : g = [type |-> t, uid |-> u, tunnel |-> v, args |-> args]
  <1> DEFINE du == Decimal(u)
             dv == Decimal(v)
             s == Line3(t, du, dv)
             j == Len(t) + 1 + Len(du) + 1
  <1>1. Word(du) /\ Word(dv)
    BY DecimalIsWord
  <1> HIDE DEF du, dv
  <1>2. t \in Seq(Int) /\ Len(t) \in Nat /\ Len(du) \in Nat /\ Len(dv) \in Nat /\ dv \in Seq(Int) /\ j \in Nat
    BY <1>1 DEF Word
  <1>3. /\ s \in Seq(Int) /\ Len(s) = j + Len(dv)
        /\ Stands(s, 0, t) /\ s[Len(t) + 1] = Space
        /\ Stands(s, Len(t) + 1, du) /\ s[j] = Space
        /\ Stands(s, j, dv)
    BY <1>1, <1>2, ThreeParts
  <1> HIDE DEF s
  <1>4. j <= Len(s) /\ j + Len(dv) = Len(s)
    BY <1>2, <1>3
  <1>5. NextSimb(s, j, Space) = [word |-> dv, at |-> j]
    <2> HIDE DEF j
    <2> QED
      BY <1>1, <1>2, <1>3, <1>4, LastWord
  <1>6. Deflect(s) = [type |-> t, uid |-> u, tunnel |-> v, args |-> ArgumentsAt(s, j, Arguments[t])]
    BY <1>3, <1>4, <1>5, DeflectWithTunnel DEF du, dv
  <1> QED
    BY <1>6 DEF s, du, dv

\* A request with a tunnel and a payload of any bytes.
LEMMA DeflectPayload ==
    ASSUME NEW t, Word(t), t \in DOMAIN Arguments, Arguments[t] = <<FALSE>>,
           NEW u \in Int, NEW v \in Int, NEW p \in Seq(Int)
    PROVE  Deflect(Line4(t, Decimal(u), Decimal(v), p))
             = [type |-> t, uid |-> u, tunnel |-> v, args |-> <<p>>]
  <1> DEFINE du == Decimal(u)
             dv == Decimal(v)
             x == Line2(dv, p)
             s == Line3(t, du, x)
             j == Len(t) + 1 + Len(du) + 1
             e == j + Len(dv) + 1
  <1>1. Word(du) /\ Word(dv)
    BY DecimalIsWord
  <1>2. Line4(t, du, dv, p) = s
    BY DEF Line4, Line3
  <1> HIDE DEF du, dv
  <1>3. t \in Seq(Int) /\ Len(t) \in Nat /\ Len(du) \in Nat /\ Len(dv) \in Nat /\ Len(p) \in Nat
        /\ dv \in Seq(Int) /\ j \in Nat /\ e \in Nat
    BY <1>1 DEF Word
  <1>4. /\ x \in Seq(Int) /\ Len(x) = Len(dv) + 1 + Len(p)
        /\ Stands(x, 0, dv) /\ Stands(x, Len(dv) + 1, p) /\ x[Len(dv) + 1] = Space
    BY <1>3, LinePlaces
  <1> HIDE DEF x
  <1>5. /\ s \in Seq(Int) /\ Len(s) = j + Len(x)
        /\ Stands(s, 0, t) /\ s[Len(t) + 1] = Space
        /\ Stands(s, Len(t) + 1, du) /\ s[j] = Space
        /\ Stands(s, j, x)
    BY <1>1, <1>4, ThreeParts
  <1> HIDE DEF s
  <1>6. /\ j <= Len(s) /\ e + Len(p) = Len(s) /\ e <= Len(s) /\ j + 0 = j /\ j + (Len(dv) + 1) = e
        /\ Len(dv) + 1 \in Nat /\ Len(dv) + 1 \in 1..Len(x) /\ 0 \in Nat
    <2> DEFINE k == Len(x)
               l == Len(dv)
               m == Len(p)
               n == Len(s)
    <2>1. l \in Nat /\ m \in Nat /\ k = l + 1 + m /\ n = j + k /\ j \in Nat
      BY <1>3, <1>4, <1>5
    <2> HIDE DEF k, l, m, n, j
    <2>2. /\ j <= n /\ (j + l + 1) + m = n /\ j + l + 1 <= n /\ j + 0 = j /\ j + (l + 1) = j + l + 1
          /\ l + 1 \in Nat /\ l + 1 \in 1..k
      BY <2>1
    <2> QED
      BY <2>2 DEF k, l, m, n
  <1>7. /\ Stands(s, j, dv) /\ Stands(s, e, p) /\ s[e] = Space
    <2> HIDE DEF j, e
    <2>1. Stands(s, j + 0, dv)
      BY <1>3, <1>4, <1>5, <1>6, StandsWithin
    <2>2. Stands(s, j + (Len(dv) + 1), p)
      BY <1>3, <1>4, <1>5, <1>6, StandsWithin
    <2>3. s[j + (Len(dv) + 1)] = x[Len(dv) + 1]
      <3> DEFINE k == Len(dv) + 1
      <3>1. k \in 1..Len(x) /\ s \in Seq(Int) /\ x \in Seq(Int) /\ j \in Nat /\ Stands(s, j, x)
        BY <1>3, <1>4, <1>5, <1>6
      <3> HIDE DEF k
      <3>2. s[j + k] = x[k]
        BY <3>1, ByteWithin
      <3> QED
        BY <3>2 DEF k
    <2> QED
      BY <1>4, <1>6, <2>1, <2>2, <2>3
  <1>8. NextSimb(s, j, Space) = [word |-> dv, at |-> e]
    <2> HIDE DEF j
    <2>1. s[j + Len(dv) + 1] = Space /\ j + Len(dv) + 1 <= Len(s)
      BY <1>6, <1>7
    <2>2. s \in Seq(Int) /\ j \in Nat /\ Stands(s, j, dv)
      BY <1>3, <1>5, <1>7
    <2> QED
      BY <1>1, <2>1, <2>2, NextWord
  <1> HIDE DEF e
  <1>9. Deflect(s) = [type |-> t, uid |-> u, tunnel |-> v, args |-> ArgumentsAt(s, e, Arguments[t])]
    <2>1. s \in Seq(Int) /\ Stands(s, 0, t) /\ s[Len(t) + 1] = Space /\ Stands(s, Len(t) + 1, Decimal(u))
      BY <1>5 DEF du
    <2>2. s[Len(t) + 1 + Len(Decimal(u)) + 1] = Space /\ Len(t) + 1 + Len(Decimal(u)) + 1 <= Len(s)
      BY <1>5, <1>6 DEF du
    <2>3. NextSimb(s, Len(t) + 1 + Len(Decimal(u)) + 1, Space) = [word |-> Decimal(v), at |-> e]
      BY <1>8 DEF du, dv
    <2> QED
      BY <2>1, <2>2, <2>3, DeflectWithTunnel, ZenonT(60)
  <1>10. ArgumentsAt(s, e, <<FALSE>>) = <<p>>
    <2>1. ArgumentsAt(s, e, <<FALSE>>) = <<SubSeq(s, e + 1, Len(s))>>
      BY <1>3, <1>5, AllThatIsLeft
    <2>2. SubSeq(s, e + 1, e + Len(p)) = p
      BY <1>3, <1>5, <1>7, StandsIsPart
    <2> QED
      BY <1>6, <2>1, <2>2
  <1> QED
    BY <1>2, <1>9, <1>10 DEF du, dv

\* One by one into a tuple.
LEMMA Rows ==
    ASSUME NEW a, NEW b, NEW c
    PROVE  <<a>> \o <<b>> \o <<>> = <<a, b>> /\ <<a>> \o <<b>> \o <<c>> = <<a, b, c>>
  <1> DEFINE S == {a, b, c}
             x == <<a>>
             y == <<b>>
             z == <<c>>
             xy == x \o y
             xyz == xy \o z
  <1>1. x \in Seq(S) /\ y \in Seq(S) /\ z \in Seq(S) /\ Len(x) = 1 /\ Len(y) = 1 /\ Len(z) = 1
        /\ x[1] = a /\ y[1] = b /\ z[1] = c
    OBVIOUS
  <1> HIDE DEF S, x, y, z
  <1>2. xy \in Seq(S) /\ Len(xy) = 2 /\ xy[1] = a /\ xy[2] = b
    <2>1. x \in Seq(S)
      BY <1>1
    <2>2. y \in Seq(S)
      BY <1>1
    <2>3. xy \in Seq(S) /\ Len(xy) = Len(x) + Len(y)
          /\ \A i \in 1..Len(x) + Len(y) : xy[i] = IF i <= Len(x) THEN x[i] ELSE y[i - Len(x)]
      BY <2>1, <2>2, ConcatProperties
    <2> HIDE DEF xy
    <2> QED
      BY <1>1, <2>3
  <1> HIDE DEF xy
  <1>3. xyz \in Seq(S) /\ Len(xyz) = 3 /\ xyz[1] = a /\ xyz[2] = b /\ xyz[3] = c
    <2>1. xy \in Seq(S)
      BY <1>2
    <2>2. z \in Seq(S)
      BY <1>1
    <2>3. xyz \in Seq(S) /\ Len(xyz) = Len(xy) + Len(z)
          /\ \A i \in 1..Len(xy) + Len(z) : xyz[i] = IF i <= Len(xy) THEN xy[i] ELSE z[i - Len(xy)]
      BY <2>1, <2>2, ConcatProperties
    <2> HIDE DEF xyz
    <2> QED
      BY <1>1, <1>2, <2>3
  <1>4. xy \o <<>> = xy
    BY <1>2
  <1>5. xy = <<a, b>>
    <2>1. xy = [i \in 1..2 |-> xy[i]]
      BY <1>2
    <2> QED
      BY <1>2, <2>1
  <1>6. xyz = <<a, b, c>>
    <2> HIDE DEF xyz
    <2>1. xyz = [i \in 1..3 |-> xyz[i]]
      BY <1>3
    <2> QED
      BY <1>3, <2>1
  <1> QED
    BY <1>4, <1>5, <1>6 DEF xyz, xy, x, y, z

\* What has been read of a request whose parts deflect has told apart.
LEMMA ReadIsUnderstood ==
    ASSUME NEW r, NEW args, Arguments[r.type] = <<FALSE>> => args = <<r.payload>>
    PROVE  Understood(r, [type |-> r.type, uid |-> r.uid, tunnel |-> r.tunnel, args |-> args])
  <1> DEFINE g == [type |-> r.type, uid |-> r.uid, tunnel |-> r.tunnel, args |-> args]
  <1>1. DOMAIN g = {"type", "uid", "tunnel", "args"}
    OBVIOUS
  <1>2. g.type = r.type /\ g.uid = r.uid /\ g.tunnel = r.tunnel /\ g.args = args
    OBVIOUS
  <1> HIDE DEF g
  <1>3. Arguments[g.type] = <<FALSE>> => g.args = <<r.payload>>
    BY <1>2
  <1>4. Understood(r, g)
    BY <1>1, <1>2, <1>3 DEF Understood
  <1> QED
    BY <1>4 DEF g

\* deflect understands every request of every client: its type, its uids, and
\* a payload of any bytes and any length.
THEOREM DeflectNetRequest ==
    ASSUME NEW r, Request(r)
    PROVE  Understood(r, Deflect(NetRequest(r.type, Parts(r))))
  <1> DEFINE t == r.type
             u == r.uid
             v == r.tunnel
             du == Decimal(u)
             dv == Decimal(v)
             p == r.payload
             mono == Arguments[t]
  <1>1. /\ Word(t) /\ t \in DOMAIN Arguments /\ t \in Seq(Int) /\ u \in Int /\ v \in Int
        /\ p \in Seq(Int) /\ Word(du) /\ du \in Seq(Int) /\ Word(dv) /\ dv \in Seq(Int)
    BY TypeIsWord, DecimalIsWord DEF Request, Word
  <1>2. Parts(r) = <<du>> \o (IF v = -1 THEN <<>> ELSE <<dv>>)
                          \o (IF mono = <<FALSE>> THEN <<p>> ELSE <<>>)
    BY DEF Parts
  <1>3. v = -1 => mono # <<FALSE>>
    <2>1. <<TRUE>> # <<FALSE>>
      <3>1. <<TRUE>>[1] = TRUE /\ <<FALSE>>[1] = FALSE
        OBVIOUS
      <3> QED
        BY <3>1
    <2> QED
      BY <2>1 DEF Request
  <1>4. CASE v = -1
    <2>1. Parts(r) = <<du>>
      <3>1. <<du>> \o <<>> \o <<>> = <<du>>
        BY <1>1
      <3> QED
        BY <1>2, <1>3, <1>4, <3>1
    <2>2. NetRequest(t, <<du>>) = Line2(t, du)
      BY <1>1, RequestLines
    <2>3. Deflect(Line2(t, Decimal(u))) =
            [type |-> t, uid |-> u, tunnel |-> -1,
             args |-> ArgumentsAt(Line2(t, Decimal(u)), Len(t) + 1, Arguments[t])]
      BY <1>1, DeflectWithout
    <2>4. PICK args : Deflect(NetRequest(t, Parts(r))) = [type |-> t, uid |-> u, tunnel |-> v, args |-> args]
      BY <1>4, <2>1, <2>2, <2>3
    <2> QED
      BY <1>3, <1>4, <2>4, ReadIsUnderstood
  <1>5. CASE v # -1 /\ mono # <<FALSE>>
    <2>1. Parts(r) = <<du, dv>>
      <3>1. <<du>> \o <<dv>> \o <<>> = <<du, dv>>
        BY Rows
      <3> QED
        BY <1>2, <1>5, <3>1
    <2>2. NetRequest(t, <<du, dv>>) = Line3(t, du, dv)
      BY <1>1, RequestLines, ZenonT(60)
    <2>3. PICK args : Deflect(Line3(t, Decimal(u), Decimal(v))) = [type |-> t, uid |-> u, tunnel |-> v, args |-> args]
      BY <1>1, DeflectTunnelOnly
    <2>4. Deflect(NetRequest(t, Parts(r))) = [type |-> t, uid |-> u, tunnel |-> v, args |-> args]
      BY <2>1, <2>2, <2>3
    <2> QED
      BY <1>5, <2>4, ReadIsUnderstood
  <1>6. CASE v # -1 /\ mono = <<FALSE>>
    <2>1. Parts(r) = <<du, dv, p>>
      <3>1. <<du>> \o <<dv>> \o <<p>> = <<du, dv, p>>
        BY Rows
      <3> QED
        BY <1>2, <1>6, <3>1
    <2>2. NetRequest(t, <<du, dv, p>>) = Line4(t, du, dv, p)
      BY <1>1, RequestLines, ZenonT(60)
    <2>3. Deflect(Line4(t, Decimal(u), Decimal(v), p)) = [type |-> t, uid |-> u, tunnel |-> v, args |-> <<p>>]
      BY <1>1, <1>6, DeflectPayload
    <2>4. Deflect(NetRequest(t, Parts(r))) = [type |-> t, uid |-> u, tunnel |-> v, args |-> <<p>>]
      BY <2>1, <2>2, <2>3
    <2> QED
      BY <2>4, ReadIsUnderstood
  <1> QED
    BY <1>4, <1>5, <1>6

-----------------------------------------------------------------------------
(* What is hashed *)

\* The zeros between the mark and the length, as the standard reckons them.
Zeros(len) == Min({k \in 0..HashBlock : (len + 1 + k + LengthBytes) % HashBlock = 0})

\* digest_final makes room for so many zeros, and there is no smaller number that
\* fills a block.
LEMMA ZerosAre ==
    ASSUME NEW len \in Nat
    PROVE  LET L == LastBlocks(Kept(len)) * HashBlock - Kept(len)
           IN  Zeros(len) \in Nat /\ L = 1 + Zeros(len) + LengthBytes
  <1> DEFINE b == HashBlock
             n == LengthBytes
             rest == Kept(len)
             end == LastBlocks(rest) * b
             z == end - rest - 1 - n
             q == len \div b
             K == {k \in 0..b : (len + 1 + k + n) % b = 0}
  <1>1. b \in Nat \ {0} /\ n \in Nat
    BY SealAssumption
  <1>2. rest + 1 + n <= end /\ end - b < rest + 1 + n
    BY LengthHasRoom
  <1>3. PICK l \in {1, 2} : end = l * b
    BY DEF LastBlocks
  <1>4. q \in Nat /\ rest \in Nat /\ rest < b /\ len = b * q + rest
    <2>1. q \in Nat /\ len % b \in 0..b - 1 /\ len = b * q + (len % b)
      BY <1>1
    <2>2. rest = len % b
      <3>1. CASE len < b
        <4>1. len % b = len
          BY <1>1, <3>1
        <4> QED
          BY <3>1, <4>1 DEF Kept
      <3>2. CASE ~(len < b)
        <4>1. rest = (len - b) % b
          BY <3>2 DEF Kept
        <4> DEFINE d == (len - b) \div b
                   e == (len - b) % b
        <4>2. d \in Nat /\ e \in 0..b - 1 /\ len - b = b * d + e
          <5>1. len - b \in Nat
            BY <1>1, <3>2
          <5> QED
            BY <1>1, <5>1
        <4> HIDE DEF d, e
        <4>3. (d + 1) * b + e = len
          <5>1. (d + 1) * b = b * d + b
            BY <1>1, <4>2
          <5> QED
            BY <1>1, <4>2, <5>1
        <4>4. ((d + 1) * b + e) % b = e
          BY <1>1, <4>2, Multiples
        <4> QED
          BY <4>1, <4>3, <4>4 DEF e
      <3> QED
        BY <3>1, <3>2
    <2> QED
      BY <1>1, <2>1, <2>2
  <1> HIDE DEF rest, end, q, b, n
  <1>5. end \in Nat
    BY <1>1, <1>3
  <1>6. z \in 0..b - 1
    BY <1>1, <1>2, <1>4, <1>5
  <1>7. z \in K
    <2>1. len + 1 + z + n = b * q + end
      BY <1>1, <1>4, <1>5
    <2>2. b * q + end = (q + l) * b + 0
      <3>1. (q + l) * b = b * q + l * b
        BY <1>1, <1>4
      <3> QED
        BY <1>1, <1>3, <1>4, <3>1
    <2>3. ((q + l) * b + 0) % b = 0
      <3> DEFINE m == q + l
      <3>1. m \in Int /\ 0 \in 0..b - 1
        BY <1>1, <1>4
      <3> HIDE DEF m
      <3>2. (m * b + 0) % b = 0
        BY <1>1, <3>1, Multiples
      <3> QED
        BY <3>2 DEF m
    <2>4. z \in 0..b
      BY <1>1, <1>6
    <2> HIDE DEF z
    <2> QED
      BY <2>1, <2>2, <2>3, <2>4
  <1>8. ASSUME NEW k \in K, k < z PROVE FALSE
    <2> DEFINE d == (len + 1 + k + n) \div b
    <2>1. k \in 0..b /\ (len + 1 + k + n) % b = 0
      OBVIOUS
    <2>2. d \in Nat /\ len + 1 + k + n = b * d
      <3> DEFINE x == len + 1 + k + n
      <3>1. x \in Nat /\ x % b = 0
        BY <1>1, <2>1
      <3> HIDE DEF x
      <3>2. x \div b \in Nat /\ x = b * (x \div b) + (x % b)
        BY <1>1, <3>1
      <3>3. b * (x \div b) + 0 = b * (x \div b)
        BY <1>1, <3>2
      <3> QED
        BY <3>1, <3>2, <3>3 DEF x
    <2> HIDE DEF d
    <2>3. len + 1 + z + n = b * (q + l)
      <3>1. b * (q + l) = b * q + l * b
        BY <1>1, <1>4
      <3> QED
        BY <1>1, <1>3, <1>4, <1>5, <3>1
    <2>4. b * (q + l) - b * d = z - k
      BY <1>1, <1>4, <1>6, <2>1, <2>2, <2>3
    <2> HIDE DEF z, K
    <2>5. 0 < z - k /\ z - k < b
      BY <1>1, <1>6, <1>8, <2>1
    <2>6. b * (q + l) - b * d = b * (q + l - d)
      BY <1>1, <1>4, <2>2
    <2>7. q + l - d >= 1 \/ q + l - d <= 0
      BY <1>4, <2>2
    <2>8. CASE q + l - d >= 1
      <3>1. b * (q + l - d) >= b
        BY <1>1, <1>4, <2>2, <2>8
      <3> QED
        BY <1>1, <1>6, <2>1, <2>4, <2>5, <2>6, <3>1
    <2>9. CASE q + l - d <= 0
      <3>1. b * (q + l - d) <= 0
        BY <1>1, <1>4, <2>2, <2>9
      <3> QED
        BY <1>1, <1>6, <2>1, <2>4, <2>5, <2>6, <3>1
    <2> QED
      BY <2>7, <2>8, <2>9
  <1>9. K \subseteq Nat
    BY <1>1
  <1> HIDE DEF z
  <1>10. Min(K) = z
    <2>1. Min(K) \in K /\ \A y \in K : Min(K) <= y
      <3> HIDE DEF K
      <3> QED
        BY <1>7, <1>9, MinIsLeast
    <2> HIDE DEF K
    <2>2. ~(Min(K) < z)
      BY <1>8, <2>1
    <2>3. z \in Nat /\ Min(K) <= z
      BY <1>1, <1>6, <1>7, <2>1
    <2>4. Min(K) \in Nat
      BY <1>9, <2>1
    <2> DEFINE x == Min(K)
    <2> HIDE DEF x
    <2>5. x \in Nat /\ x <= z /\ ~(x < z)
      BY <2>2, <2>3, <2>4 DEF x
    <2>6. x = z
      BY <2>3, <2>5
    <2> QED
      BY <2>6 DEF x
  <1>11. Zeros(len) = z
    BY <1>10 DEF Zeros, b, n
  <1> QED
    BY <1>1, <1>4, <1>5, <1>6, <1>11 DEF z, end, rest, b, n

\* The bytes that close the data, one by one: the mark, zeros, and the number of
\* bits, whose upper half is zero.
LEMMA ClosingIs ==
    ASSUME NEW bits \in Nat, NEW z \in Nat, NEW half \in Nat, half <= LengthBytes,
           \A e \in half..LengthBytes - 1 : bits < Power[e]
    PROVE  LET L == 1 + z + LengthBytes
               closing == [i \in 1..L |->
                             IF i > L - half THEN (bits \div Power[L - i]) % Base
                             ELSE IF i = 1 THEN Base \div 2 ELSE 0]
           IN  closing = <<Base \div 2>> \o [i \in 1..z |-> 0] \o Field(bits, LengthBytes)
               /\ [i \in 1..z |-> 0] \in Seq(Int) /\ Field(bits, LengthBytes) \in Seq(Int)
               /\ Base \div 2 \in Int
  <1> DEFINE n == LengthBytes
             L == 1 + z + n
             byte(e) == (bits \div Power[e]) % Base
             closing == [i \in 1..L |-> IF i > L - half THEN byte(L - i)
                                        ELSE IF i = 1 THEN Base \div 2 ELSE 0]
             mark == <<Base \div 2>>
             zs == [i \in 1..z |-> 0]
             field == Field(bits, n)
             u == mark \o zs
             w == u \o field
  <1>1. n \in Nat /\ ByteBits \in Nat /\ Base \in Nat /\ Base # 0 /\ Base \div 2 \in Int
    <2>1. n \in Nat /\ ByteBits \in Nat
      BY SealAssumption
    <2>2. Base \in Nat /\ BlockLen \in Nat \ {0}
      BY BlockTyped
    <2>3. BlockLen \in 1..Base - 1
      BY SealAssumption
    <2> QED
      BY <2>1, <2>2, <2>3
  <1>2. ASSUME NEW e \in Nat PROVE byte(e) \in Int /\ Power[e] \in Nat
    <2>1. Power[e] \in Nat /\ Power[e] # 0
      BY PowerIs
    <2>2. bits \div Power[e] \in Int
      BY <2>1
    <2> QED
      BY <1>1, <2>1, <2>2
  <1>3. ASSUME NEW e \in half..n - 1 PROVE byte(e) = 0
    <2> DEFINE x == Power[e]
    <2>1. x \in Nat /\ bits < x
      BY <1>1, <1>2
    <2> HIDE DEF x
    <2>2. bits \div x = 0
      BY <2>1
    <2>3. 0 % Base = 0
      BY <1>1
    <2> QED
      BY <2>2, <2>3 DEF x
  <1> HIDE DEF byte
  <1>4. field = [j \in 1..n |-> byte(n - j)]
    BY DEF Field, byte
  <1> HIDE DEF field
  <1>5. mark \in Seq(Int) /\ Len(mark) = 1 /\ mark[1] = Base \div 2
    BY <1>1
  <1>6. zs \in Seq(Int) /\ Len(zs) = z /\ \A i \in 1..z : zs[i] = 0
    OBVIOUS
  <1>7. field \in Seq(Int) /\ Len(field) = n /\ \A j \in 1..n : field[j] = byte(n - j)
    <2>1. \A j \in 1..n : byte(n - j) \in Int
      BY <1>1, <1>2
    <2> QED
      BY <1>1, <1>4, <2>1
  <1> HIDE DEF mark, zs
  <1>8. /\ u \in Seq(Int) /\ Len(u) = 1 + z
        /\ u[1] = Base \div 2 /\ \A i \in 2..1 + z : u[i] = 0
    <2>1. mark \in Seq(Int)
      BY <1>5
    <2>2. zs \in Seq(Int)
      BY <1>6
    <2>3. /\ u \in Seq(Int) /\ Len(u) = Len(mark) + Len(zs)
          /\ \A i \in 1..Len(mark) + Len(zs) : u[i] = IF i <= Len(mark) THEN mark[i] ELSE zs[i - Len(mark)]
      BY <2>1, <2>2, ConcatProperties
    <2> HIDE DEF u
    <2>4. Len(u) = 1 + z /\ u[1] = Base \div 2
      BY <1>5, <1>6, <2>3
    <2>5. ASSUME NEW i \in 2..1 + z PROVE u[i] = 0
      <3>1. i - 1 \in 1..z /\ ~(i <= 1) /\ i \in 1..1 + z
        OBVIOUS
      <3>2. u[i] = zs[i - 1]
        BY <1>5, <1>6, <2>3, <3>1
      <3> QED
        BY <1>6, <3>1, <3>2
    <2> QED
      BY <2>3, <2>4, <2>5
  <1> HIDE DEF u
  <1>9. /\ w \in Seq(Int) /\ Len(w) = 1 + z + n
        /\ \A i \in 1..1 + z : w[i] = u[i]
        /\ \A j \in 1..n : w[1 + z + j] = byte(n - j)
    <2>1. u \in Seq(Int)
      BY <1>8
    <2>2. field \in Seq(Int)
      BY <1>7
    <2>3. /\ w \in Seq(Int) /\ Len(w) = Len(u) + Len(field)
          /\ \A i \in 1..Len(u) + Len(field) : w[i] = IF i <= Len(u) THEN u[i] ELSE field[i - Len(u)]
      BY <2>1, <2>2, ConcatProperties
    <2> HIDE DEF w
    <2>4. \A j \in 1..n : 1 + z + j \in 1..1 + z + n /\ ~(1 + z + j <= 1 + z) /\ 1 + z + j - (1 + z) = j
      BY <1>1
    <2> QED
      BY <1>1, <1>7, <1>8, <2>3, <2>4
  <1> HIDE DEF w
  <1>10. ASSUME NEW i \in 1..L PROVE w[i] = closing[i]
    <2>1. closing[i] = IF i > L - half THEN byte(L - i) ELSE IF i = 1 THEN Base \div 2 ELSE 0
      OBVIOUS
    <2> HIDE DEF closing
    <2>2. CASE i <= 1 + z
      <3>1. ~(i > L - half) /\ i \in 1..1 + z
        BY <1>1, <2>2
      <3>2. CASE i = 1
        BY <1>8, <1>9, <2>1, <3>1, <3>2
      <3>3. CASE i # 1
        <4>1. i \in 2..1 + z
          BY <3>1, <3>3
        <4> QED
          BY <1>8, <1>9, <2>1, <3>1, <3>3, <4>1
      <3> QED
        BY <3>2, <3>3
    <2>3. CASE ~(i <= 1 + z)
      <3> DEFINE j == i - (1 + z)
      <3>1. j \in 1..n /\ i = 1 + z + j /\ L - i = n - j /\ i # 1
        BY <1>1, <2>3
      <3>2. (i > L - half) <=> (n - j < half)
        BY <1>1, <3>1
      <3>3. w[i] = byte(n - j)
        <4> HIDE DEF j
        <4> QED
          BY <1>9, <3>1
      <3>4. CASE n - j < half
        BY <2>1, <3>1, <3>2, <3>3, <3>4
      <3>5. CASE ~(n - j < half)
        <4>1. n - j \in half..n - 1
          BY <1>1, <3>1, <3>5
        <4>2. byte(n - j) = 0
          BY <1>3, <4>1
        <4> QED
          BY <2>1, <3>1, <3>2, <3>3, <3>5, <4>2
      <3> QED
        BY <3>4, <3>5
    <2> QED
      BY <2>2, <2>3
  <1>11. w = closing
    <2>1. closing = [i \in 1..L |-> closing[i]]
      OBVIOUS
    <2>2. w = [i \in 1..L |-> w[i]]
      BY <1>1, <1>9
    <2> HIDE DEF closing
    <2> QED
      BY <1>10, <2>1, <2>2
  <1> QED
    BY <1>1, <1>6, <1>7, <1>11 DEF w, u, mark, zs, field, byte

\* The hash is fed what its standard says, for data of every length whose number
\* of bits fits the half that is written of it.
THEOREM HashInputIsStandard ==
    ASSUME NEW data \in Seq(Byte),
           \A e \in LengthBytes \div 2..LengthBytes - 1 : ByteBits * Len(data) < Power[e]
    PROVE  HashInput(data) = data \o <<Base \div 2>> \o [i \in 1..Zeros(Len(data)) |-> 0]
                                  \o Field(ByteBits * Len(data), LengthBytes)
  <1> DEFINE n == LengthBytes
             half == n \div 2
             bits == ByteBits * Len(data)
             len == Len(data)
             z == Zeros(len)
             L == LastBlocks(Kept(len)) * HashBlock - Kept(len)
             closing == [i \in 1..L |->
                           IF i > L - half THEN (bits \div Power[L - i]) % Base
                           ELSE IF i = 1 THEN Base \div 2 ELSE 0]
             mark == <<Base \div 2>>
             zs == [i \in 1..z |-> 0]
             field == Field(bits, n)
  <1>1. n \in Nat /\ half \in Nat /\ half <= n
    <2>1. n \in Nat
      BY SealAssumption
    <2> HIDE DEF n
    <2> QED
      BY <2>1
  <1>2. len \in Nat /\ bits \in Nat
    <2>1. len \in Nat /\ ByteBits \in Nat
      BY SealAssumption
    <2> HIDE DEF len
    <2> QED
      BY <2>1 DEF len
  <1>3. z \in Nat /\ L = 1 + z + n
    BY <1>2, ZerosAre
  <1>4. HashInput(data) = data \o closing
    BY DEF HashInput
  <1>5. closing = mark \o zs \o field /\ zs \in Seq(Int) /\ field \in Seq(Int) /\ Base \div 2 \in Int
    <2>1. \A e \in half..LengthBytes - 1 : bits < Power[e]
      OBVIOUS
    <2>2. L = 1 + z + LengthBytes /\ half <= LengthBytes
      BY <1>1, <1>3
    <2> HIDE DEF half, bits, z, L
    <2> DEFINE M == 1 + z + LengthBytes
               other == [i \in 1..M |->
                           IF i > M - half THEN (bits \div Power[M - i]) % Base
                           ELSE IF i = 1 THEN Base \div 2 ELSE 0]
    <2>3. other = mark \o zs \o field /\ zs \in Seq(Int) /\ field \in Seq(Int) /\ Base \div 2 \in Int
      BY <1>1, <1>2, <1>3, <2>1, <2>2, ClosingIs
    <2>4. other = closing
      <3> HIDE DEF M
      <3>1. L = M
        BY <2>2 DEF M
      <3> QED
        BY <3>1
    <2> HIDE DEF other, closing
    <2> QED
      BY <2>3, <2>4
  <1>6. data \in Seq(Int)
    BY BlockTyped
  <1>7. mark \in Seq(Int)
    BY <1>5
  <1> HIDE DEF closing, mark, zs, field
  <1>8. data \o (mark \o zs \o field) = data \o (mark \o zs) \o field
    <2>1. mark \o zs \in Seq(Int)
      BY <1>5, <1>7, ConcatProperties
    <2> QED
      BY <1>5, <1>6, <2>1, Reassociate, ZenonT(60)
  <1>9. data \o (mark \o zs) = data \o mark \o zs
    BY <1>5, <1>6, <1>7, Reassociate
  <1>10. HashInput(data) = data \o mark \o zs \o field
    BY <1>4, <1>5, <1>8, <1>9
  <1> QED
    BY <1>10 DEF mark, zs, field

-----------------------------------------------------------------------------
(* Every text that is read was written by its writer *)

\* A request on its way, and what was made of it.
AskInv ==
    job.kind = "ask" =>
        /\ Request(job.parts)
        /\ wire = NetRequest(job.parts.type, Parts(job.parts))
        /\ got = <<>> \/ got = <<Deflect(wire)>>

\* The messenger's line between two starts.
InfoInv ==
    job.kind = "info" =>
        /\ job.parts \in Int \X Int \X Int
        /\ wire = Dump(job.parts)
        /\ got = <<>> \/ got = <<Regme(wire)>>

\* A message under AES.
CipherInv ==
    job.kind = "cipher" =>
        /\ job.parts.data \in Seq(Byte) /\ job.parts.key \in AesKeys
        /\ \E iv \in Block : wire = Encrypt(job.parts.data, job.parts.key, iv)
        /\ got = <<>> \/ got = <<Decrypt(wire, job.parts.key)>>

\* What the hash is fed.
HashInv ==
    job.kind = "hash" =>
        /\ job.parts \in Hashed
        /\ wire = HashInput(job.parts)
        /\ got = <<>> \/ got = <<wire>>

\* A packet, whole or without its end.
PacketInv ==
    job.kind = "packet" =>
        /\ \E p \in Packets : job.parts = Counted(p)
        /\ job.sent = PacketBytes(job.parts)
        /\ wire = job.sent \/ \E n \in DOMAIN job.sent : n < Len(job.sent) /\ wire = SubSeq(job.sent, 1, n)
        /\ got = <<>> \/ got = <<PacketOf(wire)>>

\* A peer, or that there is none, and a list of uids.
PeerInv ==
    job.kind = "peer" =>
        /\ job.parts = {} \/ \E u \in Int : job.parts = {u}
        /\ wire = PeerText(job.parts)
        /\ got = <<>> \/ got = <<PeerRead(wire)>>

FoundInv ==
    job.kind = "found" =>
        /\ job.parts.list \in Lists /\ job.parts.own \in Int
        /\ wire = FoundText(job.parts.list)
        /\ got = <<>> \/ got = <<FoundRead(wire, job.parts.own)>>

TextInv == AskInv /\ InfoInv /\ CipherInv /\ HashInv /\ PacketInv /\ PeerInv /\ FoundInv

\* The kinds of texts it speaks of.
KeptKinds == {"ask", "info", "cipher", "hash", "packet", "peer", "found"}

\* The rest of the texts are nothing to it.
LEMMA OtherKinds ==
    ASSUME job.kind \notin KeptKinds
    PROVE  TextInv
  BY DEF TextInv, AskInv, InfoInv, CipherInv, HashInv, PacketInv, PeerInv, FoundInv, KeptKinds

\* The same, after a step.
LEMMA OtherKindsNext ==
    ASSUME job'.kind \notin KeptKinds
    PROVE  TextInv'
  BY DEF TextInv, AskInv, InfoInv, CipherInv, HashInv, PacketInv, PeerInv, FoundInv, KeptKinds

\* What a writer leaves behind.
LEMMA Written ==
    ASSUME NEW kind, NEW parts, NEW bytes, Write(kind, parts, bytes)
    PROVE  job'.kind = kind /\ job'.parts = parts /\ job'.sent = bytes /\ wire' = bytes /\ got' = <<>>
  BY DEF Write

\* Each kind is written by its own writer.
LEMMA WritingKeepsTexts ==
    ASSUME Writing
    PROVE  TextInv'
  <1>1. ASSUME NEW type \in DOMAIN Arguments, NEW uid \in Uids, NEW tunnel \in Uids \cup {-1},
               NEW payload \in Payloads, tunnel = -1 <=> Arguments[type] = <<TRUE>>,
               Ask([type |-> type, uid |-> uid, tunnel |-> tunnel, payload |-> payload])
        PROVE  TextInv'
    <2> DEFINE r == [type |-> type, uid |-> uid, tunnel |-> tunnel, payload |-> payload]
    <2>1. Request(r)
      <3>1. uid \in Int /\ payload \in Seq(Int) /\ -1 \in Int
        <4>1. uid \in Int /\ payload \in Seq(Int)
          BY RequestAssumption, Zenon
        <4> QED
          BY <4>1
      <3>2. tunnel \in Int
        BY <3>1, RequestAssumption
      <3>3. r.type = type /\ r.uid = uid /\ r.tunnel = tunnel /\ r.payload = payload
        OBVIOUS
      <3> HIDE DEF r
      <3> QED
        BY <1>1, <3>1, <3>2, <3>3 DEF Request
    <2>2. Write("ask", r, NetRequest(r.type, Parts(r)))
      BY <1>1 DEF Ask
    <2> HIDE DEF r
    <2>3. /\ job'.kind = "ask" /\ job'.parts = r /\ wire' = NetRequest(r.type, Parts(r)) /\ got' = <<>>
      BY <2>2, Written
    <2> QED
      BY <2>1, <2>3 DEF TextInv, AskInv, InfoInv, CipherInv, HashInv, PacketInv, PeerInv, FoundInv
  <1>2. ASSUME NEW info \in Infos, SaveInfo(info)
        PROVE  TextInv'
    <2>1. job'.kind = "info" /\ job'.parts = info /\ wire' = Dump(info) /\ got' = <<>>
      BY <1>2, Written DEF SaveInfo
    <2>2. info \in Int \X Int \X Int
      BY InfoAssumption
    <2> QED
      BY <2>1, <2>2 DEF TextInv, AskInv, InfoInv, CipherInv, HashInv, PacketInv, PeerInv, FoundInv
  <1>3. ASSUME NEW kind, NEW parts, NEW bytes, kind \notin KeptKinds, Write(kind, parts, bytes)
        PROVE  TextInv'
    <2>1. job'.kind = kind
      BY <1>3, Written
    <2> QED
      BY <1>3, <2>1, OtherKindsNext
  <1>4. ASSUME NEW peers \in {{}} \cup {{u} : u \in Uids}, TellPeer(peers)
        PROVE  TextInv'
    <2>1. job'.kind = "peer" /\ job'.parts = peers /\ wire' = PeerText(peers) /\ got' = <<>>
      BY <1>4, Written DEF TellPeer
    <2>2. peers = {} \/ \E u \in Int : peers = {u}
      BY RequestAssumption
    <2> QED
      BY <2>1, <2>2 DEF TextInv, AskInv, InfoInv, CipherInv, HashInv, PacketInv, PeerInv, FoundInv
  <1>5. ASSUME NEW list \in Lists, NEW own \in Uids, TellFound(list, own)
        PROVE  TextInv'
    <2> DEFINE parts == [list |-> list, own |-> own]
    <2>1. Write("found", parts, FoundText(list))
      BY <1>5 DEF TellFound
    <2>2. parts.list = list /\ parts.own = own /\ own \in Int
      BY RequestAssumption
    <2> HIDE DEF parts
    <2>3. job'.kind = "found" /\ job'.parts = parts /\ wire' = FoundText(list) /\ got' = <<>>
      BY <2>1, Written
    <2> QED
      BY <2>2, <2>3 DEF TextInv, AskInv, InfoInv, CipherInv, HashInv, PacketInv, PeerInv, FoundInv
  <1>6. ASSUME NEW uid, NEW data, Send(uid, data) PROVE TextInv'
    BY <1>3, <1>6 DEF Send, KeptKinds
  <1>7. ASSUME NEW data, Reply(data) PROVE TextInv'
    BY <1>3, <1>7 DEF Reply, KeptKinds
  <1>8. ASSUME NEW data \in Plains, NEW key \in AesKeys, NEW iv \in Ivs, Encipher(data, key, iv)
        PROVE  TextInv'
    <2> DEFINE parts == [data |-> data, key |-> key]
    <2>1. data \in Seq(Byte) /\ iv \in Block
      BY CipherAssumption
    <2>2. parts.data = data /\ parts.key = key
      OBVIOUS
    <2>3. Write("cipher", parts, Encrypt(data, key, iv))
      BY <1>8 DEF Encipher
    <2> HIDE DEF parts
    <2>4. job'.kind = "cipher" /\ job'.parts = parts /\ wire' = Encrypt(data, key, iv) /\ got' = <<>>
      BY <2>3, Written
    <2> QED
      BY <2>1, <2>2, <2>4 DEF TextInv, AskInv, InfoInv, CipherInv, HashInv, PacketInv, PeerInv, FoundInv
  <1>9. ASSUME NEW own, NEW other, NEW text, NEW seed, SealFor(text, own, other, seed) PROVE TextInv'
    BY <1>3, <1>9 DEF SealFor, KeptKinds
  <1>10. ASSUME NEW data \in Hashed, Digests(data) PROVE TextInv'
    <2>1. job'.kind = "hash" /\ job'.parts = data /\ wire' = HashInput(data) /\ got' = <<>>
      BY <1>10, Written DEF Digests
    <2> QED
      BY <2>1 DEF TextInv, AskInv, InfoInv, CipherInv, HashInv, PacketInv, PeerInv, FoundInv
  <1>11. ASSUME NEW p \in Packets, Wrap(p) PROVE TextInv'
    <2>1. /\ job'.kind = "packet" /\ job'.parts = Counted(p) /\ job'.sent = PacketBytes(Counted(p))
          /\ wire' = PacketBytes(Counted(p)) /\ got' = <<>>
      BY <1>11, Written DEF Wrap
    <2> QED
      BY <2>1 DEF TextInv, AskInv, InfoInv, CipherInv, HashInv, PacketInv, PeerInv, FoundInv
  <1> QED
    BY <1>1, <1>2, <1>4, <1>5, <1>6, <1>7, <1>8, <1>9, <1>10, <1>11 DEF Writing

\* Of these texts only a packet loses anything on its way, and once.
LEMMA CarryingKeepsTexts ==
    ASSUME TextInv, Carrying
    PROVE  TextInv'
  <1>1. ASSUME NEW kinds, NEW bytes, kinds \cap KeptKinds = {}, Carry(kinds, bytes)
        PROVE  TextInv'
    <2>1. job'.kind \notin KeptKinds
      BY <1>1 DEF Carry
    <2> QED
      BY <2>1, OtherKindsNext
  <1>2. CASE Clear
    BY <1>1, <1>2 DEF Clear, KeptKinds
  <1>3. ASSUME NEW n \in DOMAIN wire, CutOff(n) PROVE TextInv'
    <2>1. /\ job.kind \in {"send", "reply", "packet"} /\ got = <<>> /\ wire = job.sent
          /\ wire' = SubSeq(wire, 1, n) /\ job' = job /\ got' = got /\ n < Len(wire)
      BY <1>3 DEF CutOff, Carry
    <2>2. CASE job.kind = "packet"
      <3>1. /\ \E p \in Packets : job.parts = Counted(p)
            /\ job.sent = PacketBytes(job.parts)
        BY <2>2 DEF TextInv, PacketInv
      <3>2. PacketInv'
        BY <2>1, <3>1 DEF PacketInv
      <3> QED
        BY <2>1, <2>2, <3>2 DEF TextInv, AskInv, InfoInv, CipherInv, HashInv, PeerInv, FoundInv
    <2>3. CASE job.kind # "packet"
      <3>1. job'.kind \notin KeptKinds
        BY <2>1, <2>3 DEF KeptKinds
      <3> QED
        BY <3>1, OtherKindsNext
    <2> QED
      BY <2>2, <2>3
  <1>4. ASSUME NEW i, NEW c, Damage(i, c) PROVE TextInv'
    BY <1>1, <1>4 DEF Damage, KeptKinds
  <1> QED
    BY <1>2, <1>3, <1>4 DEF Carrying

\* Each is read by its own reader.
LEMMA ReadingKeepsTexts ==
    ASSUME TextInv, Reading
    PROVE  TextInv'
  <1>1. CASE Hear
    BY <1>1 DEF Hear, Read, TextInv, AskInv, InfoInv, CipherInv, HashInv, PacketInv, PeerInv, FoundInv
  <1>2. CASE LoadInfo
    BY <1>2 DEF LoadInfo, Read, TextInv, AskInv, InfoInv, CipherInv, HashInv, PacketInv, PeerInv, FoundInv
  <1>3. ASSUME NEW kind, NEW result, kind \notin KeptKinds, Read(kind, result)
        PROVE  TextInv'
    <2>1. job'.kind \notin KeptKinds
      BY <1>3 DEF Read
    <2> QED
      BY <2>1, OtherKindsNext
  <1>4. CASE HearPeer
    BY <1>4 DEF HearPeer, Read, TextInv, AskInv, InfoInv, CipherInv, HashInv, PacketInv, PeerInv, FoundInv
  <1>5. CASE HearFound
    BY <1>5 DEF HearFound, Read, TextInv, AskInv, InfoInv, CipherInv, HashInv, PacketInv, PeerInv, FoundInv
  <1>6. CASE Receive
    BY <1>3, <1>6 DEF Receive, KeptKinds
  <1>7. CASE Accept
    BY <1>3, <1>7 DEF Accept, KeptKinds
  <1>8. CASE Unlock
    BY <1>8 DEF Unlock, Read, TextInv, AskInv, InfoInv, CipherInv, HashInv, PacketInv, PeerInv, FoundInv
  <1>9. CASE OpenSeal
    BY <1>3, <1>9 DEF OpenSeal, KeptKinds
  <1>10. CASE Compress
    BY <1>10 DEF Compress, Read, TextInv, AskInv, InfoInv, CipherInv, HashInv, PacketInv, PeerInv, FoundInv
  <1>11. CASE Unwrap
    BY <1>11 DEF Unwrap, Read, TextInv, AskInv, InfoInv, CipherInv, HashInv, PacketInv, PeerInv, FoundInv
  <1> QED
    BY <1>1, <1>2, <1>4, <1>5, <1>6, <1>7, <1>8, <1>9, <1>10, <1>11 DEF Reading

\* What was written stays what is read, in every state.
THEOREM TextsAreKept == Spec => []TextInv
  <1>1. Init => TextInv
    BY DEF Init, NoJob, TextInv, AskInv, InfoInv, CipherInv, HashInv, PacketInv, PeerInv, FoundInv
  <1>2. TextInv /\ [Next]_vars => TextInv'
    <2> SUFFICES ASSUME TextInv, [Next]_vars PROVE TextInv'
      OBVIOUS
    <2>1. CASE Writing
      BY <2>1, WritingKeepsTexts
    <2>2. CASE Carrying
      BY <2>2, CarryingKeepsTexts
    <2>3. CASE Reading
      BY <2>3, ReadingKeepsTexts
    <2>4. CASE Forget
      BY <2>4 DEF Forget, NoJob, TextInv, AskInv, InfoInv, CipherInv, HashInv, PacketInv, PeerInv, FoundInv
    <2>5. CASE UNCHANGED vars
      BY <2>5 DEF vars, TextInv, AskInv, InfoInv, CipherInv, HashInv, PacketInv, PeerInv, FoundInv
    <2> QED
      BY <2>1, <2>2, <2>3, <2>4, <2>5 DEF Next
  <1> QED
    BY <1>1, <1>2, PTL DEF Spec

\* deflect reads out of every request what the client wrote into it, whatever
\* its uids and its payload.
THEOREM RequestsAreUnderstood == Spec => []RequestUnderstood
  <1>1. TextInv => RequestUnderstood
    <2> SUFFICES ASSUME TextInv, Made("ask") PROVE RequestUnderstood
      BY DEF RequestUnderstood
    <2>1. Request(job.parts) /\ got[1] = Deflect(NetRequest(job.parts.type, Parts(job.parts)))
      BY DEF Made, TextInv, AskInv
    <2>2. Understood(job.parts, got[1])
      BY <2>1, DeflectNetRequest
    <2> QED
      BY <2>2 DEF Understood, RequestUnderstood
  <1> QED
    BY <1>1, TextsAreKept, PTL

\* The messenger finds its three uids again at the next start, whatever they are.
THEOREM InfosAreRestored == Spec => []InfoRestored
  <1>1. TextInv => InfoRestored
    <2> SUFFICES ASSUME TextInv, Made("info") PROVE InfoRestored
      BY DEF InfoRestored
    <2>1. job.parts \in Int \X Int \X Int /\ got[1] = Regme(Dump(job.parts))
      BY DEF Made, TextInv, InfoInv
    <2>2. got[1] = [i \in 1..3 |-> {job.parts[i]}]
      BY <2>1, RegmeDump
    <2> QED
      BY <2>2 DEF InfoRestored
  <1> QED
    BY <1>1, TextsAreKept, PTL

\* What AES encrypted it decrypts, with every key and initial block.
THEOREM MessagesAreDeciphered == Spec => []MessageDeciphered
  <1>1. TextInv => MessageDeciphered
    <2> SUFFICES ASSUME TextInv, Made("cipher") PROVE MessageDeciphered
      BY DEF MessageDeciphered
    <2>1. job.parts.data \in Seq(Byte) /\ job.parts.key \in AesKeys /\ got[1] = Decrypt(wire, job.parts.key)
      BY DEF Made, TextInv, CipherInv
    <2>2. PICK iv \in Block : wire = Encrypt(job.parts.data, job.parts.key, iv)
      BY DEF Made, TextInv, CipherInv
    <2>3. Permutes(job.parts.key)
      BY <2>1, CipherAssumption DEF Permutes
    <2>4. Decrypt(wire, job.parts.key) = {job.parts.data}
      BY <2>1, <2>2, <2>3, DecryptEncrypt
    <2> QED
      BY <2>1, <2>4 DEF MessageDeciphered
  <1> QED
    BY <1>1, TextsAreKept, PTL

\* The hash is fed what its standard says.
THEOREM HashingIsAsSpecified == Spec => []HashedAsSpecified
  <1>1. TextInv => HashedAsSpecified
    <2> SUFFICES ASSUME TextInv, Made("hash") PROVE HashedAsSpecified
      BY DEF HashedAsSpecified
    <2> DEFINE data == job.parts
    <2>1. data \in Hashed /\ got[1] = HashInput(data)
      BY DEF Made, TextInv, HashInv
    <2>2. data \in Seq(Byte) /\ \A e \in LengthBytes \div 2..LengthBytes - 1 : ByteBits * Len(data) < Power[e]
      BY <2>1, HashedAssumption
    <2> HIDE DEF data
    <2>3. HashInput(data) = data \o <<Base \div 2>> \o [i \in 1..Zeros(Len(data)) |-> 0]
                                 \o Field(ByteBits * Len(data), LengthBytes)
      BY <2>2, HashInputIsStandard
    <2> QED
      BY <2>1, <2>3 DEF HashedAsSpecified, Zeros, data
  <1> QED
    BY <1>1, TextsAreKept, PTL

-----------------------------------------------------------------------------
(* The stable layer's packets *)

\* The bytes of a number.
LEMMA FieldTyped ==
    ASSUME NEW n \in Int, NEW k \in Nat
    PROVE  /\ Field(n, k) \in Seq(Int) /\ Len(Field(n, k)) = k
           /\ \A i \in 1..k : Field(n, k)[i] = (n \div Power[k - i]) % Base /\ Field(n, k)[i] \in Int
  <1>1. Base \in Nat \ {0}
    <2>1. Base \in Nat /\ BlockLen \in Nat \ {0} /\ BlockLen \in 1..Base - 1
      BY BlockTyped, SealAssumption
    <2> QED
      BY <2>1
  <1>2. ASSUME NEW i \in 1..k PROVE (n \div Power[k - i]) % Base \in Int
    <2>1. k - i \in Nat
      OBVIOUS
    <2> DEFINE p == Power[k - i]
    <2>2. p \in Nat \ {0}
      BY <2>1, PowerIs
    <2> HIDE DEF p
    <2>3. n \div p \in Int
      BY <2>2
    <2>4. (n \div p) % Base \in Int
      BY <1>1, <2>3
    <2> QED
      BY <2>4 DEF p
  <1> QED
    BY <1>2 DEF Field

\* A longer field is the rest of the number, and its lowest byte behind it.
LEMMA FieldGrows ==
    ASSUME NEW n \in Int, NEW k \in Nat
    PROVE  /\ n \div Base \in Int /\ n % Base \in Int
           /\ Field(n, k + 1) = Append(Field(n \div Base, k), n % Base)
  <1> DEFINE m == n \div Base
             r == n % Base
             f == Field(n, k + 1)
             g == Field(m, k)
             h == Append(g, r)
  <1>1. Base \in Nat \ {0}
    <2>1. Base \in Nat /\ BlockLen \in Nat \ {0} /\ BlockLen \in 1..Base - 1
      BY BlockTyped, SealAssumption
    <2> QED
      BY <2>1
  <1>2. m \in Int /\ r \in Int
    BY <1>1
  <1>3. f \in Seq(Int) /\ Len(f) = k + 1 /\ \A i \in 1..k + 1 : f[i] = (n \div Power[k + 1 - i]) % Base
    <2> DEFINE l == k + 1
    <2>1. l \in Nat
      OBVIOUS
    <2> HIDE DEF l
    <2>2. Field(n, l) \in Seq(Int) /\ Len(Field(n, l)) = l /\ \A i \in 1..l : Field(n, l)[i] = (n \div Power[l - i]) % Base
      BY <2>1, FieldTyped
    <2> QED
      BY <2>2 DEF l
  <1> HIDE DEF m, r
  <1>4. g \in Seq(Int) /\ Len(g) = k /\ \A i \in 1..k : g[i] = (m \div Power[k - i]) % Base
    BY <1>2, FieldTyped
  <1> HIDE DEF f, g
  <1>5. h \in Seq(Int) /\ Len(h) = k + 1 /\ h[k + 1] = r /\ \A i \in 1..k : h[i] = g[i]
    BY <1>2, <1>4
  <1> HIDE DEF h
  <1>6. ASSUME NEW i \in 1..k PROVE f[i] = h[i]
    <2>1. k - i \in Nat /\ k + 1 - i = (k - i) + 1 /\ i \in 1..k + 1
      OBVIOUS
    <2> DEFINE p == Power[k - i]
    <2>2. p \in Nat \ {0} /\ Power[k + 1 - i] = Base * p
      BY <2>1, PowerIs
    <2> HIDE DEF p
    <2>3. n \div (Base * p) = m \div p
      BY <1>1, <2>2, DividedTwice DEF m
    <2>4. f[i] = (m \div p) % Base
      BY <1>3, <2>1, <2>2, <2>3
    <2>5. g[i] = (m \div p) % Base
      BY <1>4 DEF p
    <2> QED
      BY <1>5, <2>4, <2>5
  <1>7. f[k + 1] = h[k + 1]
    <2>1. k + 1 \in 1..k + 1 /\ k + 1 - (k + 1) = 0
      OBVIOUS
    <2>2. f[k + 1] = (n \div Power[0]) % Base
      BY <1>3, <2>1
    <2>3. Power[0] = 1 /\ n \div 1 = n
      BY PowerIs
    <2> QED
      BY <1>5, <2>2, <2>3 DEF r
  <1>8. f = h
    <2>1. \A i \in 1..k + 1 : i \in 1..k \/ i = k + 1
      OBVIOUS
    <2>2. \A i \in 1..k + 1 : f[i] = h[i]
      BY <1>6, <1>7, <2>1
    <2> QED
      BY <1>3, <1>5, <2>2, SeqEqual
  <1> QED
    BY <1>2, <1>8 DEF f, g, h, m, r

\* Read as a number, a field is the number cut to so many bytes.
LEMMA NumberOfField ==
    ASSUME NEW k \in Nat, NEW n \in Int
    PROVE  NumberOf(Field(n, k)) = n % Power[k]
  <1> DEFINE G == {l \in Nat : \A m \in Int : NumberOf(Field(m, l)) = m % Power[l]}
  <1>1. Base \in Nat \ {0}
    <2>1. Base \in Nat /\ BlockLen \in Nat \ {0} /\ BlockLen \in 1..Base - 1
      BY BlockTyped, SealAssumption
    <2> QED
      BY <2>1
  <1>2. \A s : NumberOf(s) = Worth(Base, s)
    BY DEF NumberOf, Worth
  <1>3. 0 \in G
    <2> SUFFICES ASSUME NEW m \in Int PROVE NumberOf(Field(m, 0)) = m % Power[0]
      OBVIOUS
    <2>1. Field(m, 0) = <<>>
      BY FieldTyped
    <2>2. Worth(Base, <<>>) = 0
      BY <1>1, WorthAppend
    <2>3. Power[0] = 1 /\ m % 1 = 0
      BY PowerIs
    <2> QED
      BY <1>2, <2>1, <2>2, <2>3
  <1>4. ASSUME NEW l \in Nat, l \in G PROVE l + 1 \in G
    <2> SUFFICES ASSUME NEW m \in Int PROVE NumberOf(Field(m, l + 1)) = m % Power[l + 1]
      OBVIOUS
    <2> DEFINE q == m \div Base
               r == m % Base
               g == Field(q, l)
               p == Power[l]
    <2>1. q \in Int /\ r \in Int /\ Field(m, l + 1) = Append(g, r)
      BY FieldGrows
    <2>2. g \in Seq(Int)
      <3> HIDE DEF q
      <3> QED
        BY <2>1, FieldTyped
    <2>3. NumberOf(g) = q % p
      <3> HIDE DEF q
      <3> QED
        BY <1>4, <2>1
    <2>4. p \in Nat \ {0} /\ Power[l + 1] = Base * p
      BY PowerIs
    <2>5. m % (Base * p) = Base * (q % p) + r
      <3> HIDE DEF p
      <3> QED
        BY <1>1, <2>4, DividedTwice
    <2> HIDE DEF q, r, g, p
    <2>6. Worth(Base, Append(g, r)) = Base * Worth(Base, g) + r
      BY <1>1, <2>1, <2>2, WorthAppend
    <2> QED
      BY <1>2, <2>1, <2>3, <2>4, <2>5, <2>6
  <1>5. Nat \subseteq G
    <2> HIDE DEF G
    <2> QED
      BY <1>3, <1>4, Induction
  <1> QED
    BY <1>5

\* What a signed type of k bytes holds.
SignedType(k) == Power[k] \div 2 - Power[k]..Power[k] \div 2 - 1

\* A number of the type is restored from its lower bytes, and whatever the lower
\* bytes are, they make one of the type.
LEMMA SignedAgain ==
    ASSUME NEW k \in Nat
    PROVE  /\ \A n \in SignedType(k) : n \in Int /\ Signed(n % Power[k], k) = n
           /\ \A n \in Int : Signed(n % Power[k], k) \in SignedType(k)
  <1> DEFINE p == Power[k]
  <1>1. p \in Nat \ {0}
    BY PowerIs
  <1> HIDE DEF p
  <1>2. p \div 2 \in Nat /\ p \div 2 <= p
    BY <1>1
  <1>3. ASSUME NEW n \in p \div 2 - p..p \div 2 - 1
        PROVE  n \in Int /\ (IF n % p < p \div 2 THEN n % p ELSE (n % p) - p) = n
    <2>1. n \in Int
      BY <1>1, <1>2
    <2>2. CASE n >= 0
      <3>1. (0 * p + n) % p = n
        BY <1>1, <1>2, <2>1, <2>2, Multiples
      <3>2. 0 * p + n = n
        BY <1>1, <2>1
      <3>3. n % p = n
        BY <3>1, <3>2
      <3>4. n < p \div 2
        BY <1>1, <1>2, <2>1
      <3> QED
        BY <2>1, <3>3, <3>4
    <2>3. CASE n < 0
      <3> DEFINE r == n + p
      <3>1. r \in 0..p - 1
        BY <1>1, <1>2, <2>1, <2>3
      <3>2. (-1 * p + r) % p = r
        <4> HIDE DEF r
        <4>1. -1 \in Int
          OBVIOUS
        <4> QED
          BY <1>1, <3>1, <4>1, Multiples
      <3>3. -1 * p + r = n
        BY <1>1, <2>1
      <3>4. n % p = r
        BY <3>2, <3>3
      <3>5. ~(r < p \div 2) /\ r - p = n
        BY <1>1, <1>2, <2>1
      <3> HIDE DEF r
      <3> QED
        BY <2>1, <3>4, <3>5
    <2> QED
      BY <2>1, <2>2, <2>3
  <1>4. ASSUME NEW n \in Int
        PROVE  (IF n % p < p \div 2 THEN n % p ELSE (n % p) - p) \in p \div 2 - p..p \div 2 - 1
    <2>1. n % p \in 0..p - 1
      BY <1>1
    <2> QED
      BY <1>1, <1>2, <2>1
  <1> QED
    BY <1>3, <1>4 DEF SignedType, Signed, p

\* A field read where it stands.
LEMMA FieldRead ==
    ASSUME NEW s \in Seq(Int), NEW at \in Nat, NEW n \in Int, NEW k \in Nat, Stands(s, at, Field(n, k))
    PROVE  NumberOf(SubSeq(s, at + 1, at + k)) = n % Power[k]
  <1> DEFINE f == Field(n, k)
  <1>1. f \in Seq(Int) /\ Len(f) = k
    BY FieldTyped
  <1>2. NumberOf(f) = n % Power[k]
    BY NumberOfField
  <1>3. Stands(s, at, f)
    OBVIOUS
  <1> HIDE DEF f
  <1>4. SubSeq(s, at + 1, at + Len(f)) = f
    BY <1>1, <1>3, StandsIsPart
  <1> QED
    BY <1>1, <1>2, <1>4

\* What is put behind a text stands there, and disturbs nothing.
LEMMA PutBehind ==
    ASSUME NEW s \in Seq(Int), NEW w \in Seq(Int), NEW u, u = s \o w
    PROVE  /\ u \in Seq(Int) /\ Len(u) = Len(s) + Len(w)
           /\ Stands(u, Len(s), w)
           /\ \A at \in Nat, x \in Seq(Int) : Stands(s, at, x) => Stands(u, at, x)
  <1>1. /\ u \in Seq(Int) /\ Len(u) = Len(s) + Len(w)
        /\ \A i \in 1..Len(s) + Len(w) : u[i] = IF i <= Len(s) THEN s[i] ELSE w[i - Len(s)]
    BY ConcatProperties
  <1>2. Len(s) \in Nat /\ Len(w) \in Nat
    OBVIOUS
  <1>3. Stands(u, Len(s), w)
    <2>1. ASSUME NEW i \in 1..Len(w) PROVE u[Len(s) + i] = w[i]
      <3>1. Len(s) + i \in 1..Len(s) + Len(w) /\ ~(Len(s) + i <= Len(s)) /\ Len(s) + i - Len(s) = i
        BY <1>2
      <3> QED
        BY <1>1, <3>1
    <2> QED
      BY <1>1, <1>2, <2>1 DEF Stands
  <1>4. ASSUME NEW at \in Nat, NEW x \in Seq(Int), Stands(s, at, x) PROVE Stands(u, at, x)
    <2>1. at + Len(x) <= Len(s) /\ Len(x) \in Nat
      BY <1>4 DEF Stands
    <2>2. ASSUME NEW i \in 1..Len(x) PROVE u[at + i] = x[i]
      <3>1. at + i \in 1..Len(s) + Len(w) /\ at + i <= Len(s)
        BY <1>2, <2>1
      <3>2. u[at + i] = s[at + i]
        BY <1>1, <3>1
      <3>3. s[at + i] = x[i]
        BY <1>4 DEF Stands
      <3> QED
        BY <3>2, <3>3
    <2> QED
      BY <1>1, <1>2, <2>1, <2>2 DEF Stands
  <1> QED
    BY <1>1, <1>3, <1>4

\* What stands in the first n bytes of a text stands in them alone.
LEMMA StandsBefore ==
    ASSUME NEW s \in Seq(Int), NEW n \in 0..Len(s)
    PROVE  LET c == SubSeq(s, 1, n)
           IN  /\ c \in Seq(Int) /\ Len(c) = n
               /\ \A at \in Nat, x \in Seq(Int) : Stands(s, at, x) /\ at + Len(x) <= n => Stands(c, at, x)
  <1> DEFINE c == SubSeq(s, 1, n)
  <1>1. c \in Seq(Int) /\ Len(c) = n /\ \A i \in 1..n : c[i] = s[i]
    OBVIOUS
  <1> HIDE DEF c
  <1>2. ASSUME NEW at \in Nat, NEW x \in Seq(Int), Stands(s, at, x), at + Len(x) <= n
        PROVE  Stands(c, at, x)
    <2>1. ASSUME NEW i \in 1..Len(x) PROVE c[at + i] = x[i]
      <3>1. Len(x) \in Nat
        OBVIOUS
      <3>2. at + i \in 1..n
        BY <1>2, <3>1
      <3>3. s[at + i] = x[i]
        BY <1>2 DEF Stands
      <3> QED
        BY <1>1, <3>2, <3>3
    <2> QED
      BY <1>1, <1>2, <2>1 DEF Stands
  <1> QED
    BY <1>1, <1>2 DEF c

\* A packet whose counts and uids fit their types, and its length its four bytes.
Fits(p) ==
    /\ p \in [even : SignedType(2), odd : SignedType(2), flag : Byte,
              con : SignedType(8), pack : SignedType(8), body : Seq(Int)]
    /\ Len(p.body) < Power[4]

\* The header of a packet stands at the front of a text.
Headed(s, p) ==
    /\ Stands(s, 0, Field(p.even, 2)) /\ Stands(s, 2, Field(p.odd, 2)) /\ Stands(s, 4, Field(p.flag, 1))
    /\ Stands(s, 5, Field(p.con, 8)) /\ Stands(s, 13, Field(p.pack, 8))
    /\ Stands(s, 21, Field(Len(p.body), 4))

\* The members of the types are integers.
LEMMA FitsTyped ==
    ASSUME NEW p, Fits(p)
    PROVE  /\ p.even \in Int /\ p.odd \in Int /\ p.con \in Int /\ p.pack \in Int /\ p.flag \in Int
           /\ p.flag \in 0..Base - 1 /\ Base \in Nat
           /\ p.body \in Seq(Int) /\ Len(p.body) \in Nat /\ Len(p.body) < Power[4]
  <1>1. p.even \in Int /\ p.odd \in Int
    <2>1. 2 \in Nat /\ p.even \in SignedType(2) /\ p.odd \in SignedType(2)
      BY DEF Fits
    <2> QED
      BY <2>1, SignedAgain
  <1>2. p.con \in Int /\ p.pack \in Int
    <2>1. 8 \in Nat /\ p.con \in SignedType(8) /\ p.pack \in SignedType(8)
      BY DEF Fits
    <2> QED
      BY <2>1, SignedAgain
  <1>3. p.flag \in 0..Base - 1 /\ Base \in Nat
    BY BlockTyped DEF Fits, Byte
  <1> QED
    BY <1>1, <1>2, <1>3 DEF Fits

\* Where create puts everything.
LEMMA PacketPlaces ==
    ASSUME NEW p, Fits(p)
    PROVE  LET s == PacketBytes(p)
           IN  /\ s \in Seq(Int) /\ Len(s) = HeaderLen + Len(p.body)
               /\ Headed(s, p) /\ Stands(s, HeaderLen, p.body)
  <1> DEFINE f1 == Field(p.even, 2)
             f2 == Field(p.odd, 2)
             f3 == Field(p.flag, 1)
             f4 == Field(p.con, 8)
             f5 == Field(p.pack, 8)
             f6 == Field(Len(p.body), 4)
             f7 == p.body
             s2 == f1 \o f2
             s3 == s2 \o f3
             s4 == s3 \o f4
             s5 == s4 \o f5
             s6 == s5 \o f6
             s7 == s6 \o f7
  <1>1. /\ f1 \in Seq(Int) /\ Len(f1) = 2 /\ f2 \in Seq(Int) /\ Len(f2) = 2
        /\ f3 \in Seq(Int) /\ Len(f3) = 1 /\ f4 \in Seq(Int) /\ Len(f4) = 8
        /\ f5 \in Seq(Int) /\ Len(f5) = 8 /\ f6 \in Seq(Int) /\ Len(f6) = 4
        /\ f7 \in Seq(Int) /\ Len(f7) \in Nat
    <2>1. /\ p.even \in Int /\ p.odd \in Int /\ p.con \in Int /\ p.pack \in Int /\ p.flag \in Int
          /\ p.body \in Seq(Int) /\ Len(p.body) \in Nat
      BY FitsTyped
    <2>2. 1 \in Nat /\ 2 \in Nat /\ 4 \in Nat /\ 8 \in Nat /\ Len(p.body) \in Int
      BY <2>1
    <2>3. f1 \in Seq(Int) /\ Len(f1) = 2
      BY <2>1, <2>2, FieldTyped
    <2>4. f2 \in Seq(Int) /\ Len(f2) = 2
      BY <2>1, <2>2, FieldTyped
    <2>5. f3 \in Seq(Int) /\ Len(f3) = 1
      BY <2>1, <2>2, FieldTyped
    <2>6. f4 \in Seq(Int) /\ Len(f4) = 8
      BY <2>1, <2>2, FieldTyped
    <2>7. f5 \in Seq(Int) /\ Len(f5) = 8
      BY <2>1, <2>2, FieldTyped
    <2>8. f6 \in Seq(Int) /\ Len(f6) = 4
      BY <2>2, FieldTyped
    <2> QED
      BY <2>1, <2>3, <2>4, <2>5, <2>6, <2>7, <2>8
  <1>2. PacketBytes(p) = s7
    BY DEF PacketBytes
  <1> HIDE DEF f1, f2, f3, f4, f5, f6, f7, s2, s3, s4, s5, s6, s7
  <1>3. Stands(f1, 0, f1)
    BY <1>1 DEF Stands
  <1>4. /\ s2 \in Seq(Int) /\ Len(s2) = 4
        /\ Stands(s2, 0, f1) /\ Stands(s2, 2, f2)
    <2>1. s2 = f1 \o f2
      BY DEF s2
    <2>2. 0 \in Nat /\ 2 \in Nat
      OBVIOUS
    <2>3. f1 \in Seq(Int)
      BY <1>1, <1>3
    <2>4. f2 \in Seq(Int)
      BY <1>1
    <2>5. /\ s2 \in Seq(Int) /\ Len(s2) = Len(f1) + Len(f2) /\ Stands(s2, Len(f1), f2)
          /\ \A at \in Nat, x \in Seq(Int) : Stands(f1, at, x) => Stands(s2, at, x)
      BY <2>1, <2>3, <2>4, PutBehind
    <2> QED
      BY <1>1, <1>3, <2>2, <2>5
  <1>5. /\ s3 \in Seq(Int) /\ Len(s3) = 5
        /\ Stands(s3, 0, f1) /\ Stands(s3, 2, f2) /\ Stands(s3, 4, f3)
    <2>1. s3 = s2 \o f3
      BY DEF s3
    <2>2. 0 \in Nat /\ 2 \in Nat /\ 4 \in Nat
      OBVIOUS
    <2>3. s2 \in Seq(Int)
      BY <1>1, <1>4
    <2>4. f3 \in Seq(Int)
      BY <1>1
    <2>5. /\ s3 \in Seq(Int) /\ Len(s3) = Len(s2) + Len(f3) /\ Stands(s3, Len(s2), f3)
          /\ \A at \in Nat, x \in Seq(Int) : Stands(s2, at, x) => Stands(s3, at, x)
      BY <2>1, <2>3, <2>4, PutBehind
    <2> QED
      BY <1>1, <1>4, <2>2, <2>5
  <1>6. /\ s4 \in Seq(Int) /\ Len(s4) = 13
        /\ Stands(s4, 0, f1) /\ Stands(s4, 2, f2) /\ Stands(s4, 4, f3) /\ Stands(s4, 5, f4)
    <2>1. s4 = s3 \o f4
      BY DEF s4
    <2>2. 0 \in Nat /\ 2 \in Nat /\ 4 \in Nat /\ 5 \in Nat
      OBVIOUS
    <2>3. s3 \in Seq(Int)
      BY <1>1, <1>5
    <2>4. f4 \in Seq(Int)
      BY <1>1
    <2>5. /\ s4 \in Seq(Int) /\ Len(s4) = Len(s3) + Len(f4) /\ Stands(s4, Len(s3), f4)
          /\ \A at \in Nat, x \in Seq(Int) : Stands(s3, at, x) => Stands(s4, at, x)
      BY <2>1, <2>3, <2>4, PutBehind
    <2> QED
      BY <1>1, <1>5, <2>2, <2>5
  <1>7. /\ s5 \in Seq(Int) /\ Len(s5) = 21
        /\ Stands(s5, 0, f1) /\ Stands(s5, 2, f2) /\ Stands(s5, 4, f3) /\ Stands(s5, 5, f4)
        /\ Stands(s5, 13, f5)
    <2>1. s5 = s4 \o f5
      BY DEF s5
    <2>2. 0 \in Nat /\ 2 \in Nat /\ 4 \in Nat /\ 5 \in Nat /\ 13 \in Nat
      OBVIOUS
    <2>3. s4 \in Seq(Int)
      BY <1>1, <1>6
    <2>4. f5 \in Seq(Int)
      BY <1>1
    <2>5. /\ s5 \in Seq(Int) /\ Len(s5) = Len(s4) + Len(f5) /\ Stands(s5, Len(s4), f5)
          /\ \A at \in Nat, x \in Seq(Int) : Stands(s4, at, x) => Stands(s5, at, x)
      BY <2>1, <2>3, <2>4, PutBehind
    <2> QED
      BY <1>1, <1>6, <2>2, <2>5
  <1>8. /\ s6 \in Seq(Int) /\ Len(s6) = 25
        /\ Stands(s6, 0, f1) /\ Stands(s6, 2, f2) /\ Stands(s6, 4, f3) /\ Stands(s6, 5, f4)
        /\ Stands(s6, 13, f5) /\ Stands(s6, 21, f6)
    <2>1. s6 = s5 \o f6
      BY DEF s6
    <2>2. 0 \in Nat /\ 2 \in Nat /\ 4 \in Nat /\ 5 \in Nat /\ 13 \in Nat /\ 21 \in Nat
      OBVIOUS
    <2>3. s5 \in Seq(Int)
      BY <1>1, <1>7
    <2>4. f6 \in Seq(Int)
      BY <1>1
    <2>5. /\ s6 \in Seq(Int) /\ Len(s6) = Len(s5) + Len(f6) /\ Stands(s6, Len(s5), f6)
          /\ \A at \in Nat, x \in Seq(Int) : Stands(s5, at, x) => Stands(s6, at, x)
      BY <2>1, <2>3, <2>4, PutBehind
    <2> QED
      BY <1>1, <1>7, <2>2, <2>5
  <1>9. /\ s7 \in Seq(Int) /\ Len(s7) = 25 + Len(f7)
        /\ Stands(s7, 0, f1) /\ Stands(s7, 2, f2) /\ Stands(s7, 4, f3) /\ Stands(s7, 5, f4)
        /\ Stands(s7, 13, f5) /\ Stands(s7, 21, f6) /\ Stands(s7, 25, f7)
    <2>1. s7 = s6 \o f7
      BY DEF s7
    <2>2. 0 \in Nat /\ 2 \in Nat /\ 4 \in Nat /\ 5 \in Nat /\ 13 \in Nat /\ 21 \in Nat /\ 25 \in Nat
      OBVIOUS
    <2>3. s6 \in Seq(Int)
      BY <1>1, <1>8
    <2>4. f7 \in Seq(Int)
      BY <1>1
    <2>5. /\ s7 \in Seq(Int) /\ Len(s7) = Len(s6) + Len(f7) /\ Stands(s7, Len(s6), f7)
          /\ \A at \in Nat, x \in Seq(Int) : Stands(s6, at, x) => Stands(s7, at, x)
      BY <2>1, <2>3, <2>4, PutBehind
    <2> QED
      BY <1>1, <1>8, <2>2, <2>5
  <1>10. HeaderLen = 25
    BY DEF HeaderLen
  <1> QED
    BY <1>2, <1>9, <1>10 DEF Headed, f1, f2, f3, f4, f5, f6, f7

\* What the other create makes of a text with a packet's header at the front.
LEMMA PacketRead ==
    ASSUME NEW p, Fits(p), NEW s \in Seq(Int), Headed(s, p), Len(s) >= HeaderLen
    PROVE  PacketOf(s) = {[p EXCEPT !.body = IF HeaderLen + Len(p.body) > Len(s) THEN <<>>
                                             ELSE SubSeq(s, HeaderLen + 1, HeaderLen + Len(p.body))]}
  <1> DEFINE At(i, k) == NumberOf(SubSeq(s, i + 1, i + k))
             n == Len(p.body)
  <1>1. 0 \in Nat /\ 2 \in Nat /\ 4 \in Nat /\ 5 \in Nat /\ 13 \in Nat /\ 21 \in Nat /\ 1 \in Nat /\ 8 \in Nat
    OBVIOUS
  <1>2. At(0, 2) = p.even % Power[2]
    BY <1>1, FitsTyped, FieldRead, SMTT(30) DEF Headed
  <1>3. At(2, 2) = p.odd % Power[2]
    BY <1>1, FitsTyped, FieldRead, SMTT(30) DEF Headed
  <1>4. At(4, 1) = p.flag % Power[1]
    BY <1>1, FitsTyped, FieldRead, SMTT(30) DEF Headed
  <1>5. At(5, 8) = p.con % Power[8]
    BY <1>1, FitsTyped, FieldRead, SMTT(30) DEF Headed
  <1>6. At(13, 8) = p.pack % Power[8]
    BY <1>1, FitsTyped, FieldRead, SMTT(30) DEF Headed
  <1>7. At(21, 4) = n % Power[4]
    BY <1>1, FitsTyped, FieldRead, SMTT(30) DEF Headed
  <1> HIDE DEF At
  <1>8. Signed(At(0, 2), 2) = p.even /\ Signed(At(2, 2), 2) = p.odd
    BY <1>1, <1>2, <1>3, SignedAgain DEF Fits
  <1>9. Signed(At(5, 8), 8) = p.con /\ Signed(At(13, 8), 8) = p.pack
    BY <1>1, <1>5, <1>6, SignedAgain DEF Fits
  <1>10. At(4, 1) = p.flag
    <2>1. Power[1] = Base * Power[0] /\ Power[0] = 1
      <3>1. 0 + 1 = 1
        OBVIOUS
      <3> QED
        BY <1>1, <3>1, PowerIs
    <2>2. p.flag \in 0..Base - 1 /\ Base \in Nat
      BY FitsTyped
    <2>3. Power[1] = Base /\ Base # 0
      BY <2>1, <2>2
    <2> DEFINE x == p.flag
    <2>4. x \in 0..Base - 1 /\ Base \in Nat \ {0} /\ x \in Int
      BY <2>2, <2>3
    <2> HIDE DEF x
    <2>5. (0 * Base + x) % Base = x
      BY <2>4, Multiples, SMTT(30)
    <2>6. 0 * Base + x = x
      BY <2>4
    <2> QED
      BY <1>4, <2>3, <2>5, <2>6 DEF x
  <1>11. At(21, 4) = n
    <2> DEFINE q == Power[4]
    <2>1. q \in Nat \ {0}
      BY <1>1, PowerIs
    <2>2. n \in 0..q - 1
      BY <2>1, FitsTyped
    <2> HIDE DEF q, n
    <2>3. (0 * q + n) % q = n
      BY <2>1, <2>2, Multiples
    <2>4. 0 * q + n = n
      BY <2>1, <2>2
    <2> QED
      BY <1>7, <2>3, <2>4 DEF q
  <1> DEFINE b == IF HeaderLen + n > Len(s) THEN <<>> ELSE SubSeq(s, HeaderLen + 1, HeaderLen + n)
             r == [even |-> p.even, odd |-> p.odd, flag |-> p.flag, con |-> p.con, pack |-> p.pack, body |-> b]
  <1>12. PacketOf(s) = {r}
    <2>1. ~(Len(s) < HeaderLen)
      <3>1. Len(s) \in Nat /\ HeaderLen \in Nat
        BY DEF HeaderLen
      <3> QED
        BY <3>1
    <2> HIDE DEF n
    <2> QED
      BY <1>8, <1>9, <1>10, <1>11, <2>1 DEF PacketOf, At
  <1>13. r = [p EXCEPT !.body = b]
    <2> HIDE DEF b
    <2> QED
      BY SMTT(30) DEF Fits
  <1> QED
    BY <1>12, <1>13

\* With its counts every packet fits.
LEMMA CountedFits ==
    ASSUME NEW p \in Packets
    PROVE  Fits(Counted(p))
  <1> DEFINE c == CountBytes(p.body)
             odds == {i \in DOMAIN p.body : p.body[i] % 2 = 1}
             odd == Cardinality(odds)
  <1>1. /\ p.flag \in Byte /\ p.body \in Seq(Byte) /\ Len(p.body) < Power[4]
        /\ p.con \in SignedType(8) /\ p.pack \in SignedType(8)
    BY PacketAssumption DEF SignedType
  <1>2. p.body \in Seq(Int) /\ Len(p.body) \in Nat /\ DOMAIN p.body = 1..Len(p.body)
    BY <1>1, BlockTyped
  <1>3. odd \in Nat
    <2>1. IsFiniteSet(1..Len(p.body))
      BY <1>2, FS_Interval
    <2>2. odds \in SUBSET (1..Len(p.body))
      BY <1>2
    <2> HIDE DEF odds
    <2>3. IsFiniteSet(odds)
      BY <2>1, <2>2, FS_Subset
    <2> QED
      BY <2>3, FS_CardinalityType
  <1>4. c.even \in SignedType(2) /\ c.odd \in SignedType(2)
    <2>1. c.even = Signed((Len(p.body) - odd) % Power[2], 2) /\ c.odd = Signed(odd % Power[2], 2)
      BY DEF CountBytes
    <2>2. 2 \in Nat /\ Len(p.body) - odd \in Int /\ odd \in Int
      BY <1>2, <1>3
    <2> HIDE DEF c, odd
    <2>3. Signed((Len(p.body) - odd) % Power[2], 2) \in SignedType(2)
      BY <2>2, SignedAgain
    <2>4. Signed(odd % Power[2], 2) \in SignedType(2)
      BY <2>2, SignedAgain
    <2> QED
      BY <2>1, <2>3, <2>4
  <1>5. Counted(p) = [even |-> c.even, odd |-> c.odd, flag |-> p.flag, con |-> p.con, pack |-> p.pack, body |-> p.body]
    BY DEF Counted
  <1> HIDE DEF c
  <1> QED
    BY <1>1, <1>2, <1>4, <1>5 DEF Fits

\* A packet comes out as it was, and one that lost the end of its body with no
\* body and everything else as it was.
THEOREM PacketsAreRestored == Spec => []PacketRestored
  <1>1. TextInv => PacketRestored
    <2> SUFFICES ASSUME TextInv, Made("packet"), Len(wire) >= HeaderLen
                 PROVE  got[1] = {[job.parts EXCEPT !.body = IF wire = job.sent THEN @ ELSE <<>>]}
      BY DEF PacketRestored
    <2> DEFINE p == job.parts
               s == job.sent
               n == Len(p.body)
    <2>1. /\ s = PacketBytes(p) /\ got[1] = PacketOf(wire)
          /\ \E q \in Packets : p = Counted(q)
          /\ wire = s \/ \E k \in DOMAIN s : k < Len(s) /\ wire = SubSeq(s, 1, k)
      BY DEF Made, TextInv, PacketInv
    <2>2. Fits(p)
      BY <2>1, CountedFits
    <2>3. n \in Nat /\ HeaderLen = 25 /\ p.body \in Seq(Int)
      BY <2>2, FitsTyped DEF HeaderLen
    <2> HIDE DEF p, s
    <2>4. s \in Seq(Int) /\ Len(s) = HeaderLen + n /\ Headed(s, p) /\ Stands(s, HeaderLen, p.body)
      BY <2>1, <2>2, PacketPlaces
    <2>5. CASE wire = s
      <3>1. got[1] = {[p EXCEPT !.body = IF HeaderLen + n > Len(wire) THEN <<>>
                                         ELSE SubSeq(wire, HeaderLen + 1, HeaderLen + n)]}
        BY <2>1, <2>2, <2>4, <2>5, PacketRead
      <3>2. ~(HeaderLen + n > Len(wire))
        BY <2>3, <2>4, <2>5
      <3>3. SubSeq(wire, HeaderLen + 1, HeaderLen + n) = p.body
        <4>1. HeaderLen \in Nat
          BY <2>3
        <4> QED
          BY <2>3, <2>4, <2>5, <4>1, StandsIsPart
      <3>4. got[1] = {[p EXCEPT !.body = p.body]}
        BY <3>1, <3>2, <3>3
      <3> QED
        BY <2>5, <3>4 DEF p, s
    <2>6. CASE \E k \in DOMAIN s : k < Len(s) /\ wire = SubSeq(s, 1, k)
      <3>1. PICK k \in DOMAIN s : k < Len(s) /\ wire = SubSeq(s, 1, k)
        BY <2>6
      <3>2. k \in 0..Len(s) /\ k \in Nat
        BY <2>4, <3>1
      <3>3. /\ wire \in Seq(Int) /\ Len(wire) = k
            /\ \A at \in Nat, x \in Seq(Int) : Stands(s, at, x) /\ at + Len(x) <= k => Stands(wire, at, x)
        BY <2>4, <3>1, <3>2, StandsBefore
      <3>4. Headed(wire, p)
        <4> DEFINE Holds(at, m, l) == Stands(s, at, Field(m, l)) => Stands(wire, at, Field(m, l))
        <4>1. ASSUME NEW at \in Nat, NEW m \in Int, NEW l \in Nat, at + l <= 25 PROVE Holds(at, m, l)
          <5>1. Field(m, l) \in Seq(Int) /\ Len(Field(m, l)) = l
            BY FieldTyped
          <5>2. at + Len(Field(m, l)) <= k
            BY <2>3, <3>2, <3>3, <4>1, <5>1
          <5> QED
            BY <3>3, <5>1, <5>2
        <4>2. p.even \in Int /\ p.odd \in Int /\ p.con \in Int /\ p.pack \in Int /\ p.flag \in Int /\ n \in Int
          BY <2>2, <2>3, FitsTyped
        <4>3. /\ 0 + 2 <= 25 /\ 2 + 2 <= 25 /\ 4 + 1 <= 25 /\ 5 + 8 <= 25 /\ 13 + 8 <= 25 /\ 21 + 4 <= 25
              /\ 0 \in Nat /\ 1 \in Nat /\ 2 \in Nat /\ 4 \in Nat /\ 5 \in Nat /\ 8 \in Nat /\ 13 \in Nat /\ 21 \in Nat
          OBVIOUS
        <4>4. Holds(0, p.even, 2) /\ Holds(2, p.odd, 2) /\ Holds(4, p.flag, 1)
          <5> HIDE DEF Holds
          <5> QED
            BY <4>1, <4>2, <4>3
        <4>5. Holds(5, p.con, 8) /\ Holds(13, p.pack, 8) /\ Holds(21, n, 4)
          <5> HIDE DEF Holds, n
          <5> QED
            BY <4>1, <4>2, <4>3
        <4> QED
          BY <2>4, <4>4, <4>5 DEF Headed
      <3>5. got[1] = {[p EXCEPT !.body = IF HeaderLen + n > Len(wire) THEN <<>>
                                         ELSE SubSeq(wire, HeaderLen + 1, HeaderLen + n)]}
        BY <2>1, <2>2, <3>3, <3>4, PacketRead
      <3>6. HeaderLen + n > Len(wire) /\ wire # s
        BY <2>3, <2>4, <3>1, <3>3, SMTT(30)
      <3>7. got[1] = {[p EXCEPT !.body = <<>>]}
        BY <3>5, <3>6
      <3> QED
        BY <3>6, <3>7 DEF p, s
    <2> QED
      BY <2>1, <2>5, <2>6
  <1> QED
    BY <1>1, TextsAreKept, PTL

-----------------------------------------------------------------------------
(* Lists of uids *)

\* A word and the space behind it stand where the word stands, and the space
\* after it.
LEMMA WordAndSpace ==
    ASSUME NEW s \in Seq(Int), NEW at \in Nat, NEW w \in Seq(Int), Stands(s, at, w \o <<Space>>)
    PROVE  Stands(s, at, w) /\ at + Len(w) + 1 <= Len(s) /\ s[at + Len(w) + 1] = Space
  <1> DEFINE k == Len(w)
             x == w \o <<Space>>
  <1>1. k \in Nat /\ Len(x) = k + 1 /\ x[k + 1] = Space /\ \A i \in 1..k : x[i] = w[i]
    BY DEF Space
  <1>2. at + Len(x) <= Len(s) /\ \A i \in 1..Len(x) : s[at + i] = x[i]
    BY DEF Stands
  <1>3. Len(s) \in Nat
    OBVIOUS
  <1> HIDE DEF x, k
  <1>4. at + k + 1 <= Len(s) /\ at + k <= Len(s)
    BY <1>1, <1>2, <1>3
  <1>5. at + (k + 1) = at + k + 1 /\ k + 1 \in 1..Len(x) /\ \A i \in 1..k : i \in 1..Len(x)
    BY <1>1
  <1>6. s[at + k + 1] = Space
    BY <1>1, <1>2, <1>5
  <1>7. \A i \in 1..k : s[at + i] = w[i]
    BY <1>1, <1>2, <1>5
  <1> QED
    BY <1>4, <1>6, <1>7 DEF Stands, k

\* A word with a space behind it adds one space to a text.
LEMMA CountAppend ==
    ASSUME NEW s \in Seq(Int), NEW w, Word(w)
    PROVE  Count(s, Space) \in Nat /\ Count(s \o (w \o <<Space>>), Space) = Count(s, Space) + 1
  <1> DEFINE x == w \o <<Space>>
             u == s \o x
             k == Len(s)
             m == Len(w)
             P == Places(s, Space)
  <1>1. w \in Seq(Int) /\ k \in Nat /\ m \in Nat /\ \A i \in 1..m : w[i] # Space
    BY DEF Word
  <1>2. x \in Seq(Int) /\ Len(x) = m + 1 /\ x[m + 1] = Space /\ \A i \in 1..m : x[i] = w[i]
    BY <1>1 DEF Space
  <1> HIDE DEF x, m
  <1>3. /\ u \in Seq(Int) /\ Len(u) = k + Len(x)
        /\ \A i \in 1..k + Len(x) : u[i] = IF i <= k THEN s[i] ELSE x[i - k]
    BY <1>2, ConcatProperties
  <1>4. P = {i \in 1..k : s[i] = Space}
    <2>1. DOMAIN s = 1..k
      OBVIOUS
    <2> QED
      BY <2>1 DEF Places
  <1> HIDE DEF u, k, P
  <1>5. Places(u, Space) = P \cup {k + m + 1}
    <2>1. DOMAIN u = 1..k + m + 1
      BY <1>1, <1>2, <1>3
    <2>2. Places(u, Space) = {i \in 1..k + m + 1 : u[i] = Space}
      BY <2>1 DEF Places
    <2>3. ASSUME NEW i \in 1..k + m + 1
          PROVE  u[i] = Space <=> i \in P \cup {k + m + 1}
      <3>1. CASE i <= k
        <4>1. u[i] = s[i] /\ i \in 1..k /\ i # k + m + 1
          BY <1>1, <1>2, <1>3, <3>1
        <4> QED
          BY <1>4, <4>1
      <3>2. CASE i = k + m + 1
        <4>1. i - k = m + 1 /\ ~(i <= k)
          BY <1>1, <3>2
        <4>2. u[i] = x[i - k]
          BY <1>1, <1>2, <1>3, <4>1
        <4> QED
          BY <1>2, <3>2, <4>1, <4>2
      <3>3. CASE i > k /\ i # k + m + 1
        <4>1. u[i] = x[i - k] /\ i - k \in 1..m /\ i \notin 1..k
          BY <1>1, <1>2, <1>3, <3>3
        <4> QED
          BY <1>1, <1>2, <1>4, <3>3, <4>1
      <3> QED
        BY <1>1, <3>1, <3>2, <3>3
    <2>4. P \cup {k + m + 1} \subseteq 1..k + m + 1
      BY <1>1, <1>4
    <2> QED
      BY <2>2, <2>3, <2>4
  <1>6. IsFiniteSet(P)
    <2>1. IsFiniteSet(1..k)
      BY <1>1, FS_Interval
    <2>2. P \in SUBSET (1..k)
      BY <1>4
    <2> QED
      BY <2>1, <2>2, FS_Subset
  <1>7. Cardinality(P) \in Nat
    BY <1>6, FS_CardinalityType
  <1>8. k + m + 1 \notin P
    BY <1>1, <1>4
  <1>9. Cardinality(P \cup {k + m + 1}) = Cardinality(P) + 1
    BY <1>6, <1>8, FS_AddElement
  <1> QED
    BY <1>5, <1>7, <1>9 DEF Count, P, u, x

\* Where the words of a text stand, each with a space behind it: e[i] is the
\* place of the i-th space.
Edged(ws, s, e) ==
    /\ s \in Seq(Int) /\ Count(s, Space) = Len(ws)
    /\ e \in [0..Len(ws) -> Nat] /\ e[0] = 0 /\ Len(s) = e[Len(ws)]
    /\ \A i \in 1..Len(ws) : /\ e[i] = e[i - 1] + Len(ws[i]) + 1
                             /\ Stands(s, e[i - 1], ws[i] \o <<Space>>)

\* A sequence of words.
Words(ws) == ws \in Seq(Seq(Int)) /\ \A i \in 1..Len(ws) : Word(ws[i])

\* Words that are added one by one stand one behind the other.
LEMMA AddedPlaces ==
    ASSUME NEW ws, Words(ws)
    PROVE  \E e : Edged(ws, Added(ws), e)
  <1> DEFINE G == {n \in Nat : \A v : Words(v) /\ Len(v) = n => \E e : Edged(v, Added(v), e)}
  <1>1. 0 \in G
    <2> SUFFICES ASSUME NEW v, Words(v), Len(v) = 0 PROVE \E e : Edged(v, Added(v), e)
      OBVIOUS
    <2>1. v = <<>>
      BY DEF Words
    <2>2. Added(v) = <<>>
      BY <2>1, AddedAppend
    <2> DEFINE none == <<>>
               e == [i \in 0..0 |-> 0]
    <2>3. none \in Seq(Int) /\ Len(none) = 0 /\ DOMAIN none = {}
      OBVIOUS
    <2>4. Count(none, Space) = 0
      <3> HIDE DEF none
      <3>1. Places(none, Space) = {}
        BY <2>3 DEF Places
      <3> QED
        BY <3>1, FS_EmptySet DEF Count
    <2>5. e \in [0..0 -> Nat] /\ e[0] = 0
      OBVIOUS
    <2> HIDE DEF none, e
    <2>6. \A i \in 1..0 : FALSE
      OBVIOUS
    <2>7. Edged(v, none, e)
      BY <2>3, <2>4, <2>5, <2>6 DEF Edged
    <2> QED
      BY <2>2, <2>7 DEF none
  <1>2. ASSUME NEW n \in Nat, n \in G PROVE n + 1 \in G
    <2> SUFFICES ASSUME NEW v, Words(v), Len(v) = n + 1 PROVE \E e : Edged(v, Added(v), e)
      BY DEF G
    <2> DEFINE p == [i \in 1..n |-> v[i]]
               w == v[n + 1]
               s == Added(p)
               x == w \o <<Space>>
    <2>1. v \in Seq(Seq(Int)) /\ w \in Seq(Int) /\ Word(w) /\ \A i \in 1..n : v[i] \in Seq(Int) /\ Word(v[i])
      BY DEF Words
    <2>2. p \in Seq(Seq(Int)) /\ Len(p) = n /\ \A i \in 1..n : p[i] = v[i]
      BY <2>1
    <2>3. v = Append(p, w)
      <3> DEFINE q == Append(p, w)
      <3> HIDE DEF p, w
      <3>1. q \in Seq(Seq(Int)) /\ Len(q) = n + 1 /\ q[n + 1] = w /\ \A i \in 1..n : q[i] = p[i]
        BY <2>1, <2>2
      <3> HIDE DEF q
      <3>2. \A i \in 1..n + 1 : i = n + 1 \/ i \in 1..n
        OBVIOUS
      <3>3. \A i \in 1..n + 1 : v[i] = q[i]
        BY <2>2, <3>1, <3>2 DEF w
      <3>4. v = q
        BY <2>1, <3>1, <3>3, SeqEqual
      <3> QED
        BY <3>4 DEF q
    <2> HIDE DEF p, w
    <2>4. Words(p)
      BY <2>1, <2>2 DEF Words
    <2>5. PICK f : Edged(p, s, f)
      BY <1>2, <2>2, <2>4
    <2>6. Added(v) = s \o x
      BY <2>1, <2>2, <2>3, AddedAppend
    <2>7. s \in Seq(Int) /\ Count(s, Space) = n /\ f \in [0..n -> Nat] /\ f[0] = 0 /\ Len(s) = f[n]
          /\ \A i \in 1..n : f[i] = f[i - 1] + Len(v[i]) + 1 /\ Stands(s, f[i - 1], v[i] \o <<Space>>)
      BY <2>2, <2>5 DEF Edged
    <2>8. x \in Seq(Int) /\ Len(x) = Len(w) + 1 /\ Len(w) \in Nat
      BY <2>1 DEF Space
    <2> DEFINE u == s \o x
               e == [i \in 0..n + 1 |-> IF i = n + 1 THEN f[n] + Len(w) + 1 ELSE f[i]]
    <2>9. Count(u, Space) = n + 1
      BY <2>1, <2>7, CountAppend
    <2> HIDE DEF s, x
    <2>10. /\ u \in Seq(Int) /\ Len(u) = Len(s) + Len(x) /\ Stands(u, Len(s), x)
           /\ \A at \in Nat, y \in Seq(Int) : Stands(s, at, y) => Stands(u, at, y)
      BY <2>7, <2>8, PutBehind
    <2>11. f[n] \in Nat
      BY <2>7
    <2>12. e[n + 1] = f[n] + Len(w) + 1 /\ \A i \in 0..n : e[i] = f[i]
      BY <2>11
    <2>13. e \in [0..n + 1 -> Nat]
      <3>1. ASSUME NEW i \in 0..n + 1, i # n + 1 PROVE f[i] \in Nat
        <4>1. i \in 0..n
          BY <3>1
        <4> QED
          BY <2>7, <4>1
      <3>2. f[n] + Len(w) + 1 \in Nat
        BY <2>8, <2>11
      <3> QED
        BY <3>1, <3>2
    <2> HIDE DEF e, u
    <2>14. Len(u) = e[n + 1] /\ e[0] = 0
      <3>1. Len(s) + Len(x) = f[n] + Len(w) + 1
        BY <2>7, <2>8, <2>11
      <3>2. 0 \in 0..n
        OBVIOUS
      <3> QED
        BY <2>7, <2>10, <2>12, <3>1, <3>2
    <2>15. ASSUME NEW i \in 1..n + 1
           PROVE  e[i] = e[i - 1] + Len(v[i]) + 1 /\ Stands(u, e[i - 1], v[i] \o <<Space>>)
      <3>1. CASE i = n + 1
        <4>1. i - 1 = n /\ n \in 0..n
          BY <3>1
        <4>2. e[i - 1] = Len(s) /\ v[i] = w /\ e[i - 1] = f[n]
          BY <2>7, <2>12, <3>1, <4>1 DEF w
        <4> QED
          BY <2>10, <2>12, <3>1, <4>2 DEF x
      <3>2. CASE i # n + 1
        <4>1. i \in 1..n /\ i \in 0..n /\ i - 1 \in 0..n
          BY <3>2
        <4>2. e[i] = f[i] /\ e[i - 1] = f[i - 1] /\ f[i - 1] \in Nat
          BY <2>7, <2>12, <4>1
        <4>3. f[i] = f[i - 1] + Len(v[i]) + 1 /\ Stands(s, f[i - 1], v[i] \o <<Space>>)
          BY <2>7, <4>1
        <4>4. v[i] \o <<Space>> \in Seq(Int)
          <5>1. v[i] \in Seq(Int) /\ <<Space>> \in Seq(Int)
            BY <2>1, <4>1 DEF Space
          <5> QED
            BY <5>1, ConcatProperties
        <4>5. Stands(u, f[i - 1], v[i] \o <<Space>>)
          BY <2>10, <4>2, <4>3, <4>4
        <4> QED
          BY <4>2, <4>3, <4>5
      <3> QED
        BY <3>1, <3>2
    <2>16. Edged(v, u, e)
      BY <2>9, <2>10, <2>13, <2>14, <2>15 DEF Edged
    <2> QED
      BY <2>6, <2>16 DEF u
  <1>3. Nat \subseteq G
    <2> HIDE DEF G
    <2> QED
      BY <1>1, <1>2, Induction
  <1>4. Len(ws) \in Nat
    BY DEF Words
  <1> QED
    BY <1>3, <1>4

\* As many words as there are spaces: split reads each that was added.
LEMMA SplitAdded ==
    ASSUME NEW ws, Words(ws)
    PROVE  /\ Count(Added(ws), Space) = Len(ws)
           /\ \A i \in 1..Len(ws) : Split(Added(ws), Space)[i] = ws[i]
  <1> DEFINE s == Added(ws)
             n == Len(ws)
  <1>1. PICK e : Edged(ws, s, e)
    BY AddedPlaces
  <1>2. ws \in Seq(Seq(Int)) /\ n \in Nat /\ \A i \in 1..n : Word(ws[i]) /\ ws[i] \in Seq(Int)
    BY DEF Words
  <1> HIDE DEF s, n
  <1>3. s \in Seq(Int) /\ Count(s, Space) = n /\ e \in [0..n -> Nat] /\ e[0] = 0 /\ Len(s) = e[n]
        /\ \A i \in 1..n : e[i] = e[i - 1] + Len(ws[i]) + 1 /\ Stands(s, e[i - 1], ws[i] \o <<Space>>)
    BY <1>1 DEF Edged, n
  <1>4. PICK read : Reader(s, read) /\ Split(s, Space) = [i \in 1..n + 1 |-> read[i - 1].word]
    BY <1>3, SplitReads
  <1>5. ASSUME NEW i \in 1..n PROVE NextSimb(s, e[i - 1], Space) = [word |-> ws[i], at |-> e[i]]
    <2>1. i - 1 \in 0..n
      BY <1>2
    <2>2. e[i - 1] \in Nat
      BY <1>3, <2>1
    <2>3. Stands(s, e[i - 1], ws[i] \o <<Space>>) /\ e[i] = e[i - 1] + Len(ws[i]) + 1
      BY <1>3
    <2>4. Stands(s, e[i - 1], ws[i]) /\ e[i - 1] + Len(ws[i]) + 1 <= Len(s)
          /\ s[e[i - 1] + Len(ws[i]) + 1] = Space
      BY <1>2, <1>3, <2>2, <2>3, WordAndSpace
    <2> DEFINE w == ws[i]
               at == e[i - 1]
    <2>5. Word(w) /\ s \in Seq(Int) /\ at \in Nat /\ Stands(s, at, w)
          /\ at + Len(w) + 1 <= Len(s) /\ s[at + Len(w) + 1] = Space
      BY <1>2, <1>3, <2>2, <2>4
    <2> HIDE DEF w, at
    <2>6. NextSimb(s, at, Space) = [word |-> w, at |-> at + Len(w) + 1]
      BY <2>5, NextWord
    <2> QED
      BY <2>3, <2>6 DEF w, at
  <1> DEFINE G == {k \in Nat : k < n => read[k] = [word |-> ws[k + 1], at |-> e[k + 1]]}
  <1>6. 0 \in G
    <2> SUFFICES ASSUME 0 < n PROVE read[0] = [word |-> ws[0 + 1], at |-> e[0 + 1]]
      OBVIOUS
    <2>1. 1 \in 1..n /\ 1 - 1 = 0 /\ 0 + 1 = 1
      BY <1>2
    <2>2. read[0] = NextSimb(s, e[1 - 1], Space)
      BY <1>3, <1>4, <2>1 DEF Reader
    <2> QED
      BY <1>5, <2>1, <2>2
  <1>7. ASSUME NEW k \in Nat, k \in G PROVE k + 1 \in G
    <2> SUFFICES ASSUME k + 1 < n PROVE read[k + 1] = [word |-> ws[k + 1 + 1], at |-> e[k + 1 + 1]]
      OBVIOUS
    <2>1. k + 1 + 1 \in 1..n /\ (k + 1 + 1) - 1 = k + 1 /\ k < n
      BY <1>2
    <2>2. read[k].at = e[k + 1]
      BY <1>7, <2>1
    <2>3. read[k + 1] = NextSimb(s, e[k + 1], Space)
      BY <1>4, <2>2 DEF Reader
    <2>4. NextSimb(s, e[(k + 1 + 1) - 1], Space) = [word |-> ws[k + 1 + 1], at |-> e[k + 1 + 1]]
      BY <1>5, <2>1
    <2> QED
      BY <2>1, <2>3, <2>4
  <1>8. Nat \subseteq G
    <2> HIDE DEF G
    <2> QED
      BY <1>6, <1>7, Induction
  <1>9. ASSUME NEW i \in 1..n PROVE Split(s, Space)[i] = ws[i]
    <2>1. i \in 1..n + 1 /\ i - 1 \in Nat /\ i - 1 < n /\ (i - 1) + 1 = i
      BY <1>2
    <2>2. read[i - 1] = [word |-> ws[(i - 1) + 1], at |-> e[(i - 1) + 1]]
      BY <1>8, <2>1
    <2>3. Split(s, Space)[i] = read[i - 1].word
      BY <1>4, <2>1
    <2> QED
      BY <2>1, <2>2, <2>3
  <1> QED
    BY <1>3, <1>9 DEF s, n

\* What is left of a list without a uid.
Without(list, own) ==
    FlattenSeq([i \in DOMAIN list |-> IF {list[i]} = {own} THEN <<>> ELSE <<{list[i]}>>])

\* A list with one more uid loses it if it is that one.
LEMMA WithoutAppend ==
    ASSUME NEW own \in Int
    PROVE  /\ Without(<<>>, own) = <<>>
           /\ \A list \in Seq(Int), u \in Int :
                /\ Without(list, own) \in Seq(SUBSET Int)
                /\ Without(Append(list, u), own) =
                      IF u = own THEN Without(list, own) ELSE Append(Without(list, own), {u})
  <1> DEFINE S == SUBSET Int
             One(u) == IF {u} = {own} THEN <<>> ELSE <<{u}>>
  <1>1. Without(<<>>, own) = <<>>
    <2>1. [i \in DOMAIN <<>> |-> One(<<>>[i])] = <<>>
      OBVIOUS
    <2> QED
      BY <2>1, FlattenAppendOf DEF Without
  <1>2. ASSUME NEW u \in Int PROVE One(u) \in Seq(S)
    <2>1. {u} \in S
      OBVIOUS
    <2> DEFINE y == {u}
    <2> HIDE DEF S, y
    <2>2. <<>> \in Seq(S) /\ <<y>> \in Seq(S)
      BY <2>1 DEF y
    <2> QED
      BY <2>2 DEF y
  <1>3. ASSUME NEW list \in Seq(Int), NEW u \in Int
        PROVE  /\ Without(list, own) \in Seq(S)
               /\ Without(Append(list, u), own) =
                     IF u = own THEN Without(list, own) ELSE Append(Without(list, own), {u})
    <2> DEFINE n == Len(list)
               more == Append(list, u)
               ss == [i \in DOMAIN list |-> One(list[i])]
               tt == [i \in DOMAIN more |-> One(more[i])]
    <2>1. /\ n \in Nat /\ DOMAIN list = 1..n /\ DOMAIN more = 1..n + 1
          /\ more[n + 1] = u /\ \A i \in 1..n : more[i] = list[i] /\ list[i] \in Int
      OBVIOUS
    <2>2. Without(list, own) = FlattenSeq(ss) /\ Without(more, own) = FlattenSeq(tt)
      BY DEF Without
    <2> HIDE DEF n, more, S
    <2>3. ss = [i \in 1..n |-> One(list[i])] /\ tt = [i \in 1..n + 1 |-> One(more[i])]
      BY <2>1
    <2> HIDE DEF ss, tt
    <2> DEFINE x == One(u)
    <2>4. x \in Seq(S) /\ \A i \in 1..n : One(list[i]) \in Seq(S)
      BY <1>2, <2>1
    <2> HIDE DEF One, x
    <2>5. ss \in Seq(Seq(S)) /\ Len(ss) = n
      BY <2>1, <2>3, <2>4
    <2>6. tt = Append(ss, x)
      <3> DEFINE Q == Seq(S)
      <3>1. ss \in Seq(Q) /\ x \in Q /\ Len(ss) = n /\ n \in Nat
        BY <2>1, <2>4, <2>5
      <3> HIDE DEF Q
      <3> DEFINE uu == Append(ss, x)
      <3>2. uu \in Seq(Q) /\ Len(uu) = n + 1 /\ uu[n + 1] = x /\ \A i \in 1..n : uu[i] = ss[i]
        BY <3>1
      <3> HIDE DEF uu
      <3>3. ASSUME NEW i \in 1..n + 1 PROVE One(more[i]) \in Q /\ One(more[i]) = uu[i]
        <4>1. CASE i = n + 1
          BY <2>1, <3>1, <3>2, <4>1 DEF x
        <4>2. CASE i # n + 1
          <5>1. i \in 1..n
            BY <2>1, <4>2
          <5>2. ss[i] = One(list[i]) /\ more[i] = list[i] /\ One(list[i]) \in Q
            BY <2>1, <2>3, <2>4, <5>1 DEF Q
          <5> QED
            BY <3>2, <5>1, <5>2
        <4> QED
          BY <4>1, <4>2
      <3>4. tt \in Seq(Q) /\ Len(tt) = n + 1 /\ \A i \in 1..n + 1 : tt[i] = uu[i]
        BY <2>3, <3>1, <3>3
      <3> QED
        BY <3>2, <3>4, SeqEqual DEF uu
    <2>7. FlattenSeq(tt) = FlattenSeq(ss) \o x /\ FlattenSeq(ss) \in Seq(S)
      BY <2>4, <2>5, <2>6, FlattenAppendOf
    <2>8. CASE u = own
      <3>1. x = <<>>
        BY <2>8 DEF x, One
      <3> DEFINE f == FlattenSeq(ss)
      <3>2. f \in Seq(S)
        BY <2>7
      <3> HIDE DEF f
      <3>3. f \o <<>> = f
        BY <3>2
      <3> QED
        BY <2>2, <2>7, <2>8, <3>1, <3>3 DEF f, more, S
    <2>9. CASE u # own
      <3>1. x = <<{u}>> /\ {u} \in S
        BY <2>9 DEF x, One, S
      <3> DEFINE f == FlattenSeq(ss)
                 y == {u}
      <3>2. f \in Seq(S) /\ y \in S
        BY <2>7, <3>1
      <3> HIDE DEF f, y
      <3>3. f \o <<y>> = Append(f, y)
        BY <3>2
      <3> QED
        BY <2>2, <2>7, <2>9, <3>1, <3>3 DEF f, y, more, S
    <2> QED
      BY <2>8, <2>9
  <1> QED
    BY <1>1, <1>3

\* What is left of an ascending list are its other uids, ascending still.
LEMMA WithoutKeeps ==
    ASSUME NEW own \in Int, NEW list \in Seq(Int), Ascending([i \in DOMAIN list |-> {list[i]}])
    PROVE  /\ ToSet(Without(list, own)) = {{u} : u \in ToSet(list) \ {own}}
           /\ Ascending(Without(list, own))
  <1> DEFINE n == Len(list)
             kept(k) == Without(SubSeq(list, 1, k), own)
             Others(k) ==
               /\ kept(k) \in Seq(SUBSET Int)
               /\ \A j \in 1..Len(kept(k)) : \E i \in 1..k : list[i] # own /\ kept(k)[j] = {list[i]}
               /\ \A i \in 1..k : list[i] # own => \E j \in 1..Len(kept(k)) : kept(k)[j] = {list[i]}
               /\ Ascending(kept(k))
             G == {k \in Nat : k <= n => Others(k)}
  <1>1. n \in Nat /\ DOMAIN list = 1..n /\ \A i \in 1..n : list[i] \in Int
    OBVIOUS
  <1>2. \A i, j \in 1..n : i < j => list[i] < list[j]
    BY <1>1 DEF Ascending
  <1>3. 0 \in G
    <2>1. SubSeq(list, 1, 0) = <<>>
      OBVIOUS
    <2>2. kept(0) = <<>>
      BY <2>1, WithoutAppend
    <2> DEFINE f == kept(0)
    <2>3. f \in Seq(SUBSET Int) /\ Len(f) = 0 /\ DOMAIN f = {}
      <3> HIDE DEF f
      <3>1. f = <<>>
        BY <2>2 DEF f
      <3> QED
        BY <3>1
    <2>4. Others(0)
      <3> HIDE DEF f, kept
      <3>1. Ascending(f)
        BY <2>3 DEF Ascending
      <3>2. 1..0 = {} /\ 1..Len(f) = {}
        BY <2>3
      <3> QED
        BY <2>3, <3>1, <3>2 DEF f
    <2> HIDE DEF Others, kept
    <2> QED
      BY <2>4
  <1>4. ASSUME NEW k \in Nat, k \in G PROVE k + 1 \in G
    <2> HIDE DEF Others
    <2> SUFFICES ASSUME k + 1 <= n PROVE Others(k + 1)
      OBVIOUS
    <2> USE DEF Others
    <2> DEFINE p == SubSeq(list, 1, k)
               u == list[k + 1]
    <2>1. k + 1 \in 1..n /\ k <= n
      BY <1>1
    <2>2. p \in Seq(Int) /\ u \in Int
      BY <1>1, <2>1
    <2>3. SubSeq(list, 1, k + 1) = Append(p, u)
      BY <1>1, <2>1
    <2> HIDE DEF p, u
    <2> DEFINE f == Without(p, own)
               g == Without(Append(p, u), own)
    <2>4. f \in Seq(SUBSET Int) /\ g = IF u = own THEN f ELSE Append(f, {u})
      BY <2>2, WithoutAppend
    <2>5. kept(k) = f /\ kept(k + 1) = g
      BY <2>3 DEF p
    <2> HIDE DEF f, g, kept
    <2>6. /\ \A j \in 1..Len(f) : \E i \in 1..k : list[i] # own /\ f[j] = {list[i]}
          /\ \A i \in 1..k : list[i] # own => \E j \in 1..Len(f) : f[j] = {list[i]}
          /\ Ascending(f)
      BY <1>4, <2>1, <2>5
    <2>7. \A i \in 1..k + 1 : i \in 1..k \/ i = k + 1
      OBVIOUS
    <2>8. \A i \in 1..k : i \in 1..k + 1 /\ list[i] < u
      <3>1. \A i \in 1..k : i \in 1..n /\ i < k + 1
        BY <1>1, <2>1
      <3> QED
        BY <1>2, <2>1, <3>1 DEF u
    <2>9. CASE u = own
      <3>1. g = f
        BY <2>4, <2>9
      <3>2. \A i \in 1..k + 1 : list[i] # own => i \in 1..k
        BY <2>7, <2>9 DEF u
      <3>3. \A j \in 1..Len(g) : \E i \in 1..k + 1 : list[i] # own /\ g[j] = {list[i]}
        BY <2>6, <2>8, <3>1
      <3>4. \A i \in 1..k + 1 : list[i] # own => \E j \in 1..Len(g) : g[j] = {list[i]}
        BY <2>6, <3>1, <3>2
      <3>5. kept(k + 1) = g /\ g \in Seq(SUBSET Int) /\ Ascending(g)
        BY <2>4, <2>5, <2>6, <3>1
      <3> QED
        BY <3>3, <3>4, <3>5
    <2>10. CASE u # own
      <3> DEFINE m == Len(f)
                 y == {u}
      <3>1. y \in SUBSET Int /\ g = Append(f, y)
        BY <2>2, <2>4, <2>10
      <3> HIDE DEF y
      <3>2. g \in Seq(SUBSET Int) /\ Len(g) = m + 1 /\ m \in Nat /\ g[m + 1] = y /\ \A j \in 1..m : g[j] = f[j]
        <4> DEFINE Q == SUBSET Int
        <4>1. f \in Seq(Q) /\ y \in Q
          BY <2>4, <3>1
        <4> HIDE DEF Q
        <4>2. Append(f, y) \in Seq(Q) /\ Len(Append(f, y)) = m + 1 /\ m \in Nat /\ Append(f, y)[m + 1] = y
              /\ \A j \in 1..m : Append(f, y)[j] = f[j]
          BY <4>1
        <4> HIDE DEF m
        <4> QED
          BY <3>1, <4>2 DEF Q
      <3> HIDE DEF m
      <3>3. \A j \in 1..m + 1 : j \in 1..m \/ j = m + 1
        BY <3>2
      <3>4. DOMAIN g = 1..m + 1 /\ DOMAIN f = 1..m
        <4>1. Len(f) = m
          BY DEF m
        <4> QED
          BY <2>4, <3>2, <4>1
      <3>5. ASSUME NEW j \in 1..m + 1 PROVE \E i \in 1..k + 1 : list[i] # own /\ g[j] = {list[i]}
        <4>1. CASE j = m + 1
          <5>1. k + 1 \in 1..k + 1 /\ g[j] = {list[k + 1]} /\ list[k + 1] # own
            BY <2>10, <3>2, <4>1 DEF u, y
          <5> QED
            BY <5>1
        <4>2. CASE j \in 1..m
          <5>1. PICK i \in 1..k : list[i] # own /\ f[j] = {list[i]}
            BY <2>6, <4>2 DEF m
          <5> QED
            BY <2>8, <3>2, <4>2, <5>1
        <4> QED
          BY <3>3, <4>1, <4>2
      <3>6. ASSUME NEW i \in 1..k + 1, list[i] # own PROVE \E j \in 1..m + 1 : g[j] = {list[i]}
        <4>1. CASE i = k + 1
          <5>1. m + 1 \in 1..m + 1 /\ g[m + 1] = {list[i]}
            BY <3>2, <4>1 DEF u, y
          <5> QED
            BY <5>1
        <4>2. CASE i \in 1..k
          <5>1. PICK j \in 1..m : f[j] = {list[i]}
            BY <2>6, <3>6, <4>2 DEF m
          <5>2. j \in 1..m + 1
            BY <3>2
          <5> QED
            BY <3>2, <5>1, <5>2
        <4> QED
          BY <2>7, <4>1, <4>2
      <3>7. Ascending(g)
        <4> SUFFICES ASSUME NEW a \in 1..m + 1, NEW b \in 1..m + 1, a < b, NEW v \in g[a], NEW w \in g[b]
                     PROVE  v < w
          BY <3>4 DEF Ascending
        <4>1. a \in 1..m
          BY <3>2
        <4>2. g[a] = f[a]
          BY <3>2, <4>1
        <4>3. CASE b \in 1..m
          BY <2>6, <3>2, <3>4, <4>1, <4>2, <4>3 DEF Ascending
        <4>4. CASE b = m + 1
          <5>1. w = u
            BY <3>2, <4>4 DEF y
          <5>2. PICK i \in 1..k : f[a] = {list[i]}
            BY <2>6, <4>1 DEF m
          <5>3. v = list[i]
            BY <4>2, <5>2
          <5> QED
            BY <2>8, <5>1, <5>3
        <4> QED
          BY <3>3, <4>3, <4>4
      <3> QED
        BY <2>5, <3>2, <3>5, <3>6, <3>7
    <2> QED
      BY <2>9, <2>10
  <1>5. Others(n)
    <2>1. Nat \subseteq G
      <3> HIDE DEF G
      <3> QED
        BY <1>3, <1>4, Induction
    <2> HIDE DEF Others, n
    <2>2. n <= n
      BY <1>1
    <2> QED
      BY <1>1, <2>1, <2>2
  <1>6. SubSeq(list, 1, n) = list
    OBVIOUS
  <1> DEFINE f == Without(list, own)
  <1>7. /\ f \in Seq(SUBSET Int)
        /\ \A j \in 1..Len(f) : \E i \in 1..n : list[i] # own /\ f[j] = {list[i]}
        /\ \A i \in 1..n : list[i] # own => \E j \in 1..Len(f) : f[j] = {list[i]}
        /\ Ascending(f)
    <2>1. kept(n) = f
      BY <1>6
    <2> HIDE DEF kept, f, n
    <2> QED
      BY <1>5, <2>1
  <1> HIDE DEF f, n, G, Others, kept
  <1>8. DOMAIN f = 1..Len(f)
    BY <1>7
  <1>9. ToSet(f) = {f[j] : j \in 1..Len(f)} /\ ToSet(list) = {list[i] : i \in 1..n}
    BY <1>1, <1>8 DEF ToSet
  <1>10. ToSet(f) = {{u} : u \in ToSet(list) \ {own}}
    <2>1. ASSUME NEW x \in ToSet(f) PROVE x \in {{u} : u \in ToSet(list) \ {own}}
      <3>1. PICK j \in 1..Len(f) : x = f[j]
        BY <1>9
      <3>2. PICK i \in 1..n : list[i] # own /\ f[j] = {list[i]}
        BY <1>7
      <3> QED
        BY <1>9, <3>1, <3>2
    <2>2. ASSUME NEW u \in ToSet(list) \ {own} PROVE {u} \in ToSet(f)
      <3>1. PICK i \in 1..n : u = list[i]
        BY <1>9
      <3>2. PICK j \in 1..Len(f) : f[j] = {list[i]}
        BY <1>7, <3>1
      <3> QED
        BY <1>9, <3>1, <3>2
    <2> QED
      BY <2>1, <2>2
  <1> QED
    BY <1>7, <1>10 DEF f

\* Uids as a text of words with a space behind each, not empty if there are any.
LEMMA FoundWords ==
    ASSUME NEW list \in Seq(Int)
    PROVE  LET ws == [i \in DOMAIN list |-> Decimal(list[i])]
           IN  /\ Words(ws) /\ Len(ws) = Len(list)
               /\ Added(ws) # Nothing /\ (Added(ws) = <<>> <=> list = <<>>)
  <1> DEFINE ws == [i \in DOMAIN list |-> Decimal(list[i])]
             n == Len(list)
             s == Added(ws)
  <1>1. n \in Nat /\ DOMAIN list = 1..n /\ \A i \in 1..n : list[i] \in Int
    OBVIOUS
  <1>2. \A i \in 1..n : Word(Decimal(list[i])) /\ Decimal(list[i]) \in Seq(Int)
    BY <1>1, DecimalIsWord DEF Word
  <1> HIDE DEF n
  <1>3. ws \in Seq(Seq(Int)) /\ Len(ws) = n /\ \A i \in 1..n : ws[i] = Decimal(list[i])
    BY <1>1, <1>2
  <1> HIDE DEF ws
  <1>4. Words(ws)
    BY <1>2, <1>3 DEF Words
  <1>5. PICK e : Edged(ws, s, e)
    BY <1>4, AddedPlaces
  <1> HIDE DEF s
  <1>6. s \in Seq(Int) /\ Count(s, Space) = n /\ Len(s) = e[n] /\ e[0] = 0
    BY <1>3, <1>5 DEF Edged
  <1>7. s = <<>> => n = 0
    <2> SUFFICES ASSUME s = <<>>, n # 0 PROVE FALSE
      OBVIOUS
    <2>1. n \in 1..n /\ n - 1 \in 0..n
      BY <1>1
    <2>2. e[n] = e[n - 1] + Len(ws[n]) + 1 /\ e[n - 1] \in Nat /\ Len(ws[n]) \in Nat
      BY <1>3, <1>5, <2>1 DEF Edged
    <2>3. e[n] # 0
      BY <2>2
    <2>4. Len(s) = 0
      OBVIOUS
    <2> QED
      BY <1>6, <2>3, <2>4
  <1>8. n = 0 => s = <<>>
    BY <1>6
  <1>9. s # Nothing
    <2> SUFFICES ASSUME s = Nothing PROVE FALSE
      OBVIOUS
    <2>1. Len(s) = 1 /\ s[1] = 15
      BY DEF Nothing
    <2>2. n # 0
      <3>1. n = 0 => Len(s) = 0
        BY <1>6
      <3> QED
        BY <2>1, <3>1
    <2>3. n \in 1..n /\ n - 1 \in 0..n
      BY <1>1, <2>2
    <2>4. e[n - 1] \in Nat
      BY <1>3, <1>5, <2>3 DEF Edged
    <2>5. Stands(s, e[n - 1], ws[n] \o <<Space>>)
      BY <1>3, <1>5, <2>3 DEF Edged
    <2>6. ws[n] \in Seq(Int)
      BY <1>3, <2>3
    <2>7. e[n - 1] + Len(ws[n]) + 1 <= Len(s) /\ s[e[n - 1] + Len(ws[n]) + 1] = Space
      BY <1>6, <2>4, <2>5, <2>6, WordAndSpace
    <2>8. e[n - 1] + Len(ws[n]) + 1 = 1
      <3>1. Len(ws[n]) \in Nat
        BY <2>6
      <3> QED
        BY <2>1, <2>4, <2>7, <3>1
    <2> QED
      BY <2>1, <2>7, <2>8 DEF Space
  <1>10. n = 0 <=> list = <<>>
    BY DEF n
  <1> QED
    BY <1>3, <1>4, <1>7, <1>8, <1>9, <1>10 DEF n, ws, s

\* What a client makes of discovery's answer is the list without its own tunnel.
THEOREM FoundReadText ==
    ASSUME NEW list \in Seq(Int), NEW own \in Int
    PROVE  FoundRead(FoundText(list), own) = Without(list, own)
  <1> DEFINE ws == [i \in DOMAIN list |-> Decimal(list[i])]
             s == Added(ws)
             n == Len(list)
  <1>1. Words(ws) /\ Len(ws) = n /\ s # Nothing /\ (s = <<>> <=> list = <<>>)
    BY FoundWords
  <1>2. n \in Nat /\ DOMAIN list = 1..n /\ \A i \in 1..n : list[i] \in Int
    OBVIOUS
  <1>3. FoundText(list) = IF s = <<>> THEN Nothing ELSE s
    BY DEF FoundText
  <1>4. CASE list = <<>>
    <2>1. FoundText(list) = Nothing
      BY <1>1, <1>3, <1>4
    <2>2. FoundRead(Nothing, own) = <<>>
      BY DEF FoundRead
    <2> QED
      BY <1>4, <2>1, <2>2, WithoutAppend
  <1>5. CASE list # <<>>
    <2>1. FoundText(list) = s /\ s # Nothing
      BY <1>1, <1>3, <1>5
    <2>2. \A i \in 1..n : ws[i] = Decimal(list[i])
      BY <1>2
    <2> HIDE DEF ws, n
    <2>3. Count(s, Space) = n /\ \A i \in 1..n : Split(s, Space)[i] = ws[i]
      BY <1>1, SplitAdded
    <2> HIDE DEF s
    <2> DEFINE uids == [i \in 1..Count(s, Space) |-> Stoll(Split(s, Space)[i])]
    <2>4. ASSUME NEW i \in 1..n PROVE Stoll(Split(s, Space)[i]) = {list[i]}
      <3>1. Split(s, Space)[i] = Decimal(list[i]) /\ list[i] \in Int
        BY <1>2, <2>2, <2>3
      <3> QED
        BY <3>1, StollDecimal
    <2>5. DOMAIN uids = 1..n /\ \A i \in 1..n : uids[i] = {list[i]}
      BY <2>3, <2>4
    <2>6. FoundRead(s, own) =
              FlattenSeq([i \in DOMAIN uids |-> IF uids[i] = {own} THEN <<>> ELSE <<uids[i]>>])
      BY <2>1 DEF FoundRead
    <2> HIDE DEF uids
    <2>7. [i \in DOMAIN uids |-> IF uids[i] = {own} THEN <<>> ELSE <<uids[i]>>]
            = [i \in DOMAIN list |-> IF {list[i]} = {own} THEN <<>> ELSE <<{list[i]}>>]
      BY <1>2, <2>5
    <2> QED
      BY <2>1, <2>6, <2>7 DEF Without
  <1> QED
    BY <1>4, <1>5

\* Whoever reads the answer to check_tunnel reads the peer, or that there is none.
THEOREM PeerReadText ==
    ASSUME NEW peers, peers = {} \/ \E u \in Int : peers = {u}
    PROVE  PeerRead(PeerText(peers)) = {peers}
  <1>1. CASE peers = {}
    BY <1>1 DEF PeerText, PeerRead
  <1>2. ASSUME NEW u \in Int, peers = {u} PROVE PeerRead(PeerText(peers)) = {peers}
    <2>1. PeerText(peers) = Decimal(u)
      BY <1>2 DEF PeerText
    <2>2. Decimal(u) # No
      <3> SUFFICES ASSUME Decimal(u) = No PROVE FALSE
        OBVIOUS
      <3>1. Len(No) = 1 /\ No[1] = 16
        BY DEF No
      <3>2. CASE u \in Nat
        <4>1. Decimal(u) \in Seq(Digit)
          BY <3>2, DecimalOfNat
        <4>2. No[1] \in Digit
          <5>1. 1 \in 1..Len(No) /\ No \in Seq(Digit)
            BY <3>1, <4>1
          <5> QED
            BY <5>1
        <4> QED
          BY <3>1, <4>2 DEF Digit
      <3>3. CASE u \notin Nat
        <4> DEFINE d == Decimal(-u)
        <4>1. -u \in Nat
          BY <3>3
        <4>2. d \in Seq(Digit) /\ d # <<>>
          BY <4>1, DecimalOfNat
        <4>3. Decimal(u) = <<Minus>> \o d
          BY <3>3, DecimalOfNegative
        <4> HIDE DEF d
        <4>4. Len(<<Minus>> \o d) = 1 + Len(d) /\ Len(d) \in Nat /\ Len(d) # 0
          BY <4>2
        <4> QED
          BY <3>1, <4>3, <4>4
      <3> QED
        BY <3>2, <3>3
    <2>3. PeerRead(Decimal(u)) = {{p} : p \in Stoll(Decimal(u))}
      BY <2>2 DEF PeerRead
    <2>4. Stoll(Decimal(u)) = {u}
      BY StollDecimal
    <2> QED
      BY <1>2, <2>1, <2>3, <2>4
  <1> QED
    BY <1>1, <1>2

\* Both answers that name uids are read as the mirror wrote them, whatever and
\* however many the uids.
THEOREM UidsAreUnderstood == Spec => []UidsUnderstood
  <1>1. TextInv => UidsUnderstood
    <2> SUFFICES ASSUME TextInv PROVE UidsUnderstood
      OBVIOUS
    <2>1. ASSUME Made("peer") PROVE got[1] = {job.parts}
      <3>1. (job.parts = {} \/ \E u \in Int : job.parts = {u}) /\ got[1] = PeerRead(PeerText(job.parts))
        BY <2>1 DEF Made, TextInv, PeerInv
      <3> QED
        BY <3>1, PeerReadText
    <2>2. ASSUME Made("found")
          PROVE  /\ ToSet(got[1]) = {{u} : u \in ToSet(job.parts.list) \ {job.parts.own}}
                 /\ Ascending(got[1])
      <3> DEFINE list == job.parts.list
                 own == job.parts.own
      <3>1. list \in Lists /\ own \in Int /\ got[1] = FoundRead(FoundText(list), own)
        BY <2>2 DEF Made, TextInv, FoundInv
      <3> HIDE DEF list, own
      <3>2. list \in Seq(Int) /\ Ascending([i \in DOMAIN list |-> {list[i]}])
        BY <3>1, ListAssumption
      <3>3. got[1] = Without(list, own)
        BY <3>1, <3>2, FoundReadText
      <3>4. ToSet(got[1]) = {{u} : u \in ToSet(list) \ {own}} /\ Ascending(got[1])
        BY <3>1, <3>2, <3>3, WithoutKeeps
      <3> QED
        BY <3>4 DEF list, own
    <2> QED
      BY <2>1, <2>2 DEF UidsUnderstood
  <1> QED
    BY <1>1, TextsAreKept, PTL
-----------------------------------------------------------------------------
(* Frames that may not arrive as they were sent *)

\* The word w and the place p behind it, as get_next_simb reads them from the beginning.
FirstAt(s, p, w) ==
    \/ p = 0 /\ w = s /\ \A i \in 2..Len(s) : s[i] # Space
    \/ /\ p \in 2..Len(s) /\ s[p] = Space /\ w = SubSeq(s, 1, p - 1)
       /\ \A i \in 2..p - 1 : s[i] # Space

LEMMA FirstWord ==
    ASSUME NEW s \in Seq(Int)
    PROVE  FirstAt(s, NextSimb(s, 0, Space).at, NextSimb(s, 0, Space).word)
  <1> DEFINE n == Len(s)
             T == {i \in 2..n : s[i] = Space}
  <1>1. n \in Nat
    OBVIOUS
  <1>2. CASE T = {}
    <2>1. \A i \in 0 + 2..n : s[i] # Space
      BY <1>2
    <2>2. NextSimb(s, 0, Space) = [word |-> SubSeq(s, 0 + 1, n), at |-> 0]
      BY <2>1, LastAt
    <2>3. SubSeq(s, 0 + 1, n) = s
      OBVIOUS
    <2> QED
      BY <2>1, <2>2, <2>3 DEF FirstAt
  <1>3. CASE T # {}
    <2>1. PICK e \in T : \A y \in T : e <= y
      <3>1. T \subseteq Nat
        BY <1>1
      <3> HIDE DEF T
      <3> QED
        BY <1>3, <3>1, Least
    <2>2. e \in 2..n /\ e \in Nat /\ s[e] = Space
      BY <1>1
    <2>3. \A i \in 2..e - 1 : s[i] # Space
      <3> SUFFICES ASSUME NEW i \in 2..e - 1, s[i] = Space PROVE FALSE
        OBVIOUS
      <3>1. i \in T /\ i < e
        BY <1>1, <2>2
      <3> QED
        BY <2>1, <2>2, <3>1
    <2>4. NextSimb(s, 0, Space) = [word |-> SubSeq(s, 0 + 1, e - 1), at |-> e]
      <3>1. e \in 0 + 2..Len(s) /\ \A i \in 0 + 2..e - 1 : s[i] # Space
        BY <2>2, <2>3
      <3> HIDE DEF n, T
      <3> QED
        BY <2>2, <3>1, NextAt
    <2> QED
      BY <2>2, <2>3, <2>4 DEF FirstAt
  <1> QED
    BY <1>2, <1>3

\* A word as a digest is written: of SumLen bytes, none of them a space.
IsSum(g) == g \in Seq(Int) /\ Len(g) = SumLen /\ \A i \in 1..SumLen : g[i] # Space

\* d has been taken for the contents of the m bytes of s behind p: what stands there
\* begins with its digest.
Accepted(s, p, m, d) ==
    /\ SumLen <= m /\ p + m <= Len(s)
    /\ Digest(d) = SubSeq(s, p + 1, p + SumLen)
    /\ \A i \in 1..SumLen : s[p + i] # Space
    /\ \/ m = SumLen /\ d = SubSeq(s, p + 1, p + m)
       \/ m > SumLen /\ s[p + SumLen + 1] = Space /\ d = SubSeq(s, p + SumLen + 2, p + m)

\* What a part of a text is.
LEMMA PartHas ==
    ASSUME NEW s \in Seq(Int), NEW p \in Nat, NEW m \in Nat, p + m <= Len(s)
    PROVE  /\ SubSeq(s, p + 1, p + m) \in Seq(Int) /\ Len(SubSeq(s, p + 1, p + m)) = m
           /\ \A i \in 1..m : SubSeq(s, p + 1, p + m)[i] = s[p + i]
  <1> DEFINE b == SubSeq(s, p + 1, p + m)
  <1>1. \A i \in p + 1..p + m : s[i] \in Int
    <2>1. \A i \in p + 1..p + m : i \in 1..Len(s)
      OBVIOUS
    <2> QED
      BY <2>1
  <1>2. b \in Seq(Int) /\ Len(b) = (IF p + 1 <= p + m THEN p + m - (p + 1) + 1 ELSE 0)
        /\ \A i \in 1..p + m - (p + 1) + 1 : b[i] = s[p + 1 + i - 1]
    BY <1>1, SubSeqProperties
  <1> HIDE DEF b
  <1>3. p + m - (p + 1) + 1 = m /\ (p + 1 <= p + m \/ m = 0)
    OBVIOUS
  <1>4. \A i \in 1..m : p + 1 + i - 1 = p + i
    OBVIOUS
  <1>5. Len(b) = m
    BY <1>2, <1>3
  <1>6. \A i \in 1..m : b[i] = s[p + i]
    BY <1>2, <1>3, <1>4
  <1> QED
    BY <1>2, <1>5, <1>6 DEF b

\* The same, of a beginning.
LEMMA BeginningHas ==
    ASSUME NEW s \in Seq(Int), NEW k \in Nat, k <= Len(s)
    PROVE  /\ SubSeq(s, 1, k) \in Seq(Int) /\ Len(SubSeq(s, 1, k)) = k
           /\ \A j \in 1..k : SubSeq(s, 1, k)[j] = s[j]
  <1>1. 0 + k <= Len(s) /\ 0 + 1 = 1 /\ 0 + k = k /\ \A j \in 1..k : 0 + j = j
    OBVIOUS
  <1>2. SubSeq(s, 0 + 1, 0 + k) \in Seq(Int) /\ Len(SubSeq(s, 0 + 1, 0 + k)) = k
        /\ \A j \in 1..k : SubSeq(s, 0 + 1, 0 + k)[j] = s[0 + j]
    BY <1>1, PartHas
  <1> QED
    BY <1>1, <1>2

\* And that nothing else is.
LEMMA PartIs ==
    ASSUME NEW s \in Seq(Int), NEW p \in Nat, NEW m \in Nat, p + m <= Len(s),
           NEW b \in Seq(Int), Len(b) = m, \A i \in 1..m : b[i] = s[p + i]
    PROVE  b = SubSeq(s, p + 1, p + m)
  <1> DEFINE x == SubSeq(s, p + 1, p + m)
  <1>1. x \in Seq(Int) /\ Len(x) = m /\ \A i \in 1..m : x[i] = s[p + i]
    BY PartHas
  <1> HIDE DEF x
  <1>2. \A i \in 1..Len(b) : b[i] = x[i]
    BY <1>1
  <1>3. b = x
    BY <1>1, <1>2, SeqEqual
  <1> QED
    BY <1>3 DEF x

\* A part of a part of a text.
LEMMA PartOfPart ==
    ASSUME NEW s \in Seq(Int), NEW p \in Nat, NEW m \in Nat, p + m <= Len(s),
           NEW a \in 1..m + 1, NEW e \in 0..m
    PROVE  SubSeq(SubSeq(s, p + 1, p + m), a, e) = SubSeq(s, p + a, p + e)
  <1> DEFINE b == SubSeq(s, p + 1, p + m)
             x == SubSeq(b, a, e)
             y == SubSeq(s, p + a, p + e)
  <1>1. Len(s) \in Nat /\ DOMAIN s = 1..Len(s) /\ a \in Int /\ e \in Int
    OBVIOUS
  <1>2. b \in Seq(Int) /\ Len(b) = m /\ \A i \in 1..m : b[i] = s[p + i]
    BY PartHas
  <1> HIDE DEF b
  <1>3. /\ x \in Seq(Int) /\ Len(x) = (IF a <= e THEN e - a + 1 ELSE 0)
        /\ \A i \in 1..e - a + 1 : x[i] = b[a + i - 1]
    <2>1. \A i \in a..e : b[i] \in Int
      <3>1. \A i \in a..e : i \in 1..m
        OBVIOUS
      <3> QED
        BY <1>2, <3>1
    <2> QED
      BY <1>1, <2>1, SubSeqProperties
  <1>4. /\ y \in Seq(Int) /\ Len(y) = (IF p + a <= p + e THEN p + e - (p + a) + 1 ELSE 0)
        /\ \A i \in 1..p + e - (p + a) + 1 : y[i] = s[p + a + i - 1]
    <2>1. \A i \in p + a..p + e : s[i] \in Int
      <3>1. \A i \in p + a..p + e : i \in 1..Len(s)
        BY <1>1
      <3> QED
        BY <3>1
    <2>2. p + a \in Int /\ p + e \in Int
      BY <1>1
    <2> QED
      BY <2>1, <2>2, SubSeqProperties
  <1> HIDE DEF x, y
  <1>5. p + e - (p + a) + 1 = e - a + 1 /\ (a <= e <=> p + a <= p + e)
    OBVIOUS
  <1>6. Len(x) = Len(y)
    BY <1>3, <1>4, <1>5
  <1>7. ASSUME NEW i \in 1..Len(x) PROVE x[i] = y[i]
    <2>1. i \in 1..e - a + 1
      BY <1>3
    <2>2. x[i] = b[a + i - 1] /\ y[i] = s[p + a + i - 1]
      BY <1>3, <1>4, <1>5, <2>1
    <2>3. a + i - 1 \in 1..m /\ p + (a + i - 1) = p + a + i - 1
      BY <2>1
    <2> QED
      BY <1>2, <2>2, <2>3
  <1>8. x = y
    BY <1>3, <1>4, <1>6, <1>7, SeqEqual
  <1> QED
    BY <1>8 DEF x, y, b

\* Whatever a digest is made of, it is a word of one length.
SumsAreWords == \A data \in Seq(Int) : IsSum(Digest(data))

\* What a reader has summed it has accepted, if the sum is the one that stands before it.
LEMMA SumFits ==
    ASSUME SumsAreWords, SumLen \in Nat, NEW s \in Seq(Int), NEW p \in Nat, NEW m \in Nat, p + m <= Len(s),
           NEW b \in Seq(Int), Len(b) = m, \A i \in 1..m : b[i] = s[p + i],
           NEW e \in Nat, NEW g, FirstAt(b, e, g),
           NEW d, d = SubSeq(b, e + 1, m), Digest(d) = g
    PROVE  Accepted(s, p, m, d)
  <1> DEFINE L == SumLen
  <1>1. Len(s) \in Nat /\ L \in Nat
    OBVIOUS
  <1>2. b = SubSeq(s, p + 1, p + m)
    BY PartIs
  <1>3. IsSum(g)
    <2>1. \A i \in e + 1..m : b[i] \in Int
      <3>1. \A i \in e + 1..m : i \in 1..Len(b)
        OBVIOUS
      <3> QED
        BY <3>1
    <2>2. d \in Seq(Int)
      BY <2>1, SubSeqProperties
    <2> QED
      BY <2>2 DEF SumsAreWords
  <1>4. CASE e = 0 /\ g = b
    <2>1. m = L
      BY <1>3, <1>4 DEF IsSum
    <2>2. d = SubSeq(s, p + 1, p + m)
      <3>1. SubSeq(b, 1, Len(b)) = b
        BY SubSeqFull
      <3> QED
        BY <1>2, <1>4, <3>1
    <2>3. Digest(d) = SubSeq(s, p + 1, p + L)
      BY <1>2, <1>4, <2>1
    <2>4. \A i \in 1..L : s[p + i] # Space
      BY <1>3, <1>4, <2>1 DEF IsSum
    <2>5. L <= m /\ p + m <= Len(s)
      BY <1>1, <2>1
    <2> QED
      BY <2>1, <2>2, <2>3, <2>4, <2>5, Zenon DEF Accepted
  <1>5. CASE e \in 2..m /\ b[e] = Space /\ g = SubSeq(b, 1, e - 1)
    <2>1. e \in 2..m
      BY <1>5
    <2>2. g = SubSeq(s, p + 1, p + (e - 1))
      <3>1. 1 \in 1..m + 1 /\ e - 1 \in 0..m
        BY <2>1
      <3>2. SubSeq(b, 1, e - 1) = SubSeq(s, p + 1, p + (e - 1))
        BY <1>2, <3>1, PartOfPart
      <3> QED
        BY <1>5, <3>2
    <2>3. Len(g) = e - 1 /\ \A i \in 1..e - 1 : g[i] = s[p + i]
      <3>1. e - 1 \in Nat /\ p + (e - 1) <= Len(s)
        BY <1>1, <2>1
      <3> DEFINE x == SubSeq(s, p + 1, p + (e - 1))
      <3>2. Len(x) = e - 1 /\ \A i \in 1..e - 1 : x[i] = s[p + i]
        BY <3>1, PartHas
      <3>3. g = x
        BY <2>2
      <3> HIDE DEF L, x
      <3> QED
        BY <3>2, <3>3
    <2>4. e = L + 1
      BY <1>1, <1>3, <2>1, <2>3 DEF IsSum
    <2>5. \A i \in 1..L : s[p + i] # Space
      <3>1. e - 1 = L
        BY <1>1, <2>4
      <3> QED
        BY <1>3, <2>3, <3>1 DEF IsSum
    <2>6. Digest(d) = SubSeq(s, p + 1, p + L)
      <3>1. e - 1 = L
        BY <1>1, <2>4
      <3> QED
        BY <2>2, <3>1
    <2>7. s[p + L + 1] = Space
      <3>1. b[e] = s[p + e] /\ b[e] = Space
        <4>1. e \in 1..m
          BY <2>1
        <4> QED
          BY <1>5, <4>1
      <3>2. p + e = p + L + 1
        BY <1>1, <2>4
      <3> QED
        BY <3>1, <3>2
    <2>8. d = SubSeq(s, p + L + 2, p + m)
      <3>1. e + 1 \in 1..m + 1 /\ m \in 0..m
        BY <2>1
      <3>2. d = SubSeq(s, p + (e + 1), p + m)
        BY <1>2, <3>1, PartOfPart
      <3>3. p + (e + 1) = p + L + 2
        BY <1>1, <2>4
      <3> QED
        BY <3>2, <3>3
    <2>9. L <= m /\ m > L
      BY <1>1, <2>1, <2>4
    <2> QED
      BY <2>5, <2>6, <2>7, <2>8, <2>9 DEF Accepted
  <1> QED
    BY <1>4, <1>5 DEF FirstAt

\* A frame: its printed size, the digest of its contents and the contents, with spaces between.
Framed(z, c) == LET g == Digest(c) IN z = Line2(Decimal(Len(Line2(g, c))), Line2(g, c))

\* What a frame says its size is, in number and in print.
Size(c) == SumLen + 1 + Len(c)
Printed(c) == Decimal(Size(c))

\* Where the parts of a frame stand.
LEMMA FramePlaces ==
    ASSUME SumLen \in Nat, NEW c \in Seq(Int), IsSum(Digest(c)), NEW z, Framed(z, c)
    PROVE  /\ Size(c) \in Nat /\ Printed(c) \in Seq(Digit) /\ Printed(c) # <<>>
           /\ Len(Printed(c)) \in Nat /\ Len(Printed(c)) >= 1
           /\ z \in Seq(Int) /\ Len(z) = Len(Printed(c)) + 1 + Size(c)
           /\ \A i \in 1..Len(Printed(c)) : z[i] = Printed(c)[i] /\ z[i] # Space
           /\ z[Len(Printed(c)) + 1] = Space
           /\ \A i \in 1..SumLen : z[Len(Printed(c)) + 1 + i] = Digest(c)[i]
           /\ z[Len(Printed(c)) + SumLen + 2] = Space
           /\ \A i \in 1..Len(c) : z[Len(Printed(c)) + SumLen + 2 + i] = c[i]
  <1> DEFINE g == Digest(c)
             x == Line2(g, c)
             L == SumLen
             n == Size(c)
             t == Printed(c)
             k == Len(t)
  <1>1. g \in Seq(Int) /\ Len(g) = L
    BY DEF IsSum
  <1> HIDE DEF g
  <1>2. L \in Nat /\ Len(c) \in Nat /\ n \in Nat /\ n = L + 1 + Len(c)
    BY DEF Size
  <1>3. x \in Seq(Int) /\ Len(x) = n /\ Stands(x, 0, g) /\ Stands(x, L + 1, c) /\ x[L + 1] = Space
    <2>1. x \in Seq(Int) /\ Len(x) = Len(g) + 1 + Len(c) /\ Stands(x, 0, g) /\ Stands(x, Len(g) + 1, c)
          /\ x[Len(g) + 1] = Space
      BY <1>1, LinePlaces
    <2> HIDE DEF x, L, n
    <2> QED
      BY <1>1, <1>2, <2>1
  <1> HIDE DEF x, n, L
  <1>4. t \in Seq(Digit) /\ t # <<>> /\ Word(t)
    BY <1>2, DecimalOfNat, DecimalIsWord DEF Printed, n
  <1> HIDE DEF t
  <1>5. t \in Seq(Int) /\ k \in Nat /\ k >= 1 /\ \A i \in 1..k : t[i] # Space
    BY <1>4 DEF Word
  <1>6. z = Line2(t, x)
    <2>1. z = Line2(Decimal(Len(x)), x)
      BY DEF Framed, x, g
    <2> QED
      BY <1>3, <2>1 DEF t, Printed, n
  <1>7. /\ z \in Seq(Int) /\ Len(z) = k + 1 + n /\ Stands(z, 0, t) /\ Stands(z, k + 1, x)
        /\ z[k + 1] = Space
    <2>1. /\ z \in Seq(Int) /\ Len(z) = k + 1 + Len(x) /\ Stands(z, 0, t) /\ Stands(z, k + 1, x)
          /\ z[k + 1] = Space
      BY <1>3, <1>5, <1>6, LinePlaces
    <2> QED
      BY <1>3, <2>1
  <1>8. \A i \in 1..k : z[i] = t[i] /\ z[i] # Space
    <2>1. \A i \in 1..k : 0 + i = i
      OBVIOUS
    <2>2. \A i \in 1..k : z[0 + i] = t[i]
      BY <1>7 DEF Stands
    <2> HIDE DEF k
    <2> QED
      BY <1>5, <2>1, <2>2
  <1>9. \A i \in 1..n : z[k + 1 + i] = x[i]
    BY <1>3, <1>7 DEF Stands
  <1> HIDE DEF k
  <1>10. \A i \in 1..L : z[k + 1 + i] = g[i]
    <2>1. \A i \in 1..L : x[i] = g[i]
      <3>1. \A i \in 1..L : 0 + i = i
        BY <1>2
      <3> QED
        BY <1>1, <1>3, <3>1 DEF Stands
    <2>2. \A i \in 1..L : i \in 1..n
      BY <1>2
    <2> QED
      BY <1>9, <2>1, <2>2
  <1>11. z[k + L + 2] = Space
    <2>1. L + 1 \in 1..n /\ k + 1 + (L + 1) = k + L + 2
      BY <1>2, <1>5
    <2> QED
      BY <1>3, <1>9, <2>1
  <1>12. ASSUME NEW i \in 1..Len(c) PROVE z[k + L + 2 + i] = c[i]
    <2>1. L + 1 + i \in 1..n /\ k + 1 + (L + 1 + i) = k + L + 2 + i
      BY <1>2, <1>5
    <2>2. x[L + 1 + i] = c[i]
      BY <1>3 DEF Stands
    <2> QED
      BY <1>9, <2>1, <2>2
  <1> QED
    BY <1>2, <1>4, <1>5, <1>7, <1>8, <1>10, <1>11, <1>12 DEF n, t, k, L, g

\* z has lost its end on its way, or one of its bytes has changed, or nothing has.
Arrived(s, z) ==
    /\ s \in Seq(Int)
    /\ \/ Len(s) <= Len(z) /\ \A j \in 1..Len(s) : s[j] = z[j]
       \/ Len(s) = Len(z) /\ \E i \in 1..Len(z) : \A j \in 1..Len(z) : j # i => s[j] = z[j]

\* Where a byte has changed, nothing else has, and nothing is lost.
LEMMA OneChange ==
    ASSUME NEW s, NEW z \in Seq(Int), Arrived(s, z), NEW i \in 1..Len(s), s[i] # z[i]
    PROVE  Len(s) = Len(z) /\ \A j \in 1..Len(s) : j # i => s[j] = z[j]
  <1>1. PICK e \in 1..Len(z) : Len(s) = Len(z) /\ \A j \in 1..Len(z) : j # e => s[j] = z[j]
    BY DEF Arrived
  <1>2. i = e
    BY <1>1
  <1> QED
    BY <1>1, <1>2

\* More digits are worth more.
LEMMA ValueGrows ==
    ASSUME NEW s \in Seq(Int), NEW k \in Nat, NEW e \in k..Len(s), \A i \in 1..e : s[i] \in Digit,
           Value(SubSeq(s, 1, k)) \in Nat
    PROVE  Value(SubSeq(s, 1, e)) \in Nat /\ Value(SubSeq(s, 1, k)) <= Value(SubSeq(s, 1, e))
  <1> DEFINE v(j) == Value(SubSeq(s, 1, k + j))
             G == {j \in Nat : k + j <= e => v(j) \in Nat /\ v(0) <= v(j)}
  <1>1. e \in Nat /\ Len(s) \in Nat /\ e <= Len(s)
    OBVIOUS
  <1>2. 0 \in G
    <2>1. k + 0 = k
      OBVIOUS
    <2> QED
      BY <2>1
  <1>3. ASSUME NEW j \in Nat, j \in G PROVE j + 1 \in G
    <2> SUFFICES ASSUME k + (j + 1) <= e PROVE v(j + 1) \in Nat /\ v(0) <= v(j + 1)
      OBVIOUS
    <2> DEFINE q == SubSeq(s, 1, k + j)
               d == s[k + (j + 1)]
    <2>1. k + j <= e /\ k + (j + 1) \in 1..e /\ k + (j + 1) \in 1..Len(s) /\ k + j \in Nat
      BY <1>1
    <2>2. d \in Digit /\ d \in Nat /\ d \in Int
      BY <2>1, DigitIsOther
    <2>3. q \in Seq(Int)
      <3>1. \A i \in 1..k + j : s[i] \in Int
        BY <1>1, <2>1
      <3> QED
        BY <2>1, <3>1, SubSeqProperties
    <2>4. SubSeq(s, 1, k + (j + 1)) = Append(q, d)
      <3>1. SubSeq(s, 1, k + (j + 1)) = SubSeq(s, 1, (k + (j + 1)) - 1) \o <<s[k + (j + 1)]>>
        <4>1. 1 \in 1..Len(s) /\ k + (j + 1) \in 1..Len(s)
          BY <1>1, <2>1
        <4> QED
          BY <4>1, SubSeqRecursiveSecond
      <3>2. (k + (j + 1)) - 1 = k + j
        OBVIOUS
      <3>3. Append(q, d) = q \o <<d>>
        BY <2>2, <2>3, AppendIsConcat
      <3> QED
        BY <3>1, <3>2, <3>3
    <2> HIDE DEF q, d
    <2>5. v(j + 1) = 10 * Value(q) + d
      BY <2>2, <2>3, <2>4, ValueAppend
    <2>6. Value(q) \in Nat /\ v(0) <= Value(q) /\ v(0) \in Int
      <3>1. v(j) \in Nat /\ v(0) <= v(j)
        BY <1>3, <2>1
      <3>2. k + 0 = k
        OBVIOUS
      <3> QED
        BY <3>1, <3>2 DEF q
    <2> HIDE DEF v
    <2> QED
      BY <2>2, <2>5, <2>6
  <1>4. e - k \in G
    <2>1. e - k \in Nat
      BY <1>1
    <2> HIDE DEF G
    <2> QED
      BY <1>2, <1>3, <2>1, Induction
  <1>5. k + (e - k) = e /\ k + 0 = k
    BY <1>1
  <1> QED
    BY <1>4, <1>5

\* A word that begins with a printed number is read as that number or a larger one.
LEMMA StollBeyond ==
    ASSUME NEW w \in Seq(Int), NEW n \in Nat, Len(Decimal(n)) <= Len(w),
           \A i \in 1..Len(Decimal(n)) : w[i] = Decimal(n)[i]
    PROVE  \E v \in Nat : Stoll(w) = {v} /\ n <= v /\ (Len(Decimal(n)) = Len(w) => v = n)
  <1> DEFINE t == Decimal(n)
             k == Len(Decimal(n))
             T == {i \in 1..Len(w) : w[i] \notin Digit}
  <1>1. t \in Seq(Digit) /\ t # <<>> /\ Value(t) = n
    BY DecimalOfNat
  <1> HIDE DEF t
  <1>2. t \in Seq(Int) /\ k = Len(t) /\ k \in Nat /\ k >= 1 /\ Len(w) \in Nat /\ \A i \in 1..k : t[i] \in Digit
    BY <1>1, DecimalDigitsAreInt DEF t
  <1>3. SubSeq(w, 1, k) = t
    <2>1. Stands(w, 0, t)
      <3>1. \A i \in 1..k : 0 + i = i
        BY <1>2
      <3> QED
        BY <1>2, <3>1 DEF Stands, t
    <2>2. SubSeq(w, 0 + 1, 0 + Len(t)) = t
      BY <1>2, <2>1, StandsIsPart
    <2>3. 0 + 1 = 1 /\ 0 + Len(t) = k
      BY <1>2
    <2> QED
      BY <2>2, <2>3
  <1>4. \A i \in 1..k : w[i] \in Digit
    BY <1>2 DEF t
  <1>5. PICK e \in k..Len(w) : Begins(w, e)
    <2>1. CASE T = {}
      <3>1. \A i \in 1..Len(w) : w[i] \in Digit
        BY <2>1
      <3>2. Begins(w, Len(w)) /\ Len(w) \in k..Len(w)
        BY <1>2, <3>1 DEF Begins
      <3> QED
        BY <3>2
    <2>2. CASE T # {}
      <3>1. PICK u \in T : \A y \in T : u <= y
        <4>1. T \subseteq Nat
          BY <1>2
        <4> HIDE DEF T
        <4> QED
          BY <2>2, <4>1, Least
      <3>2. u \in 1..Len(w) /\ u \in Nat /\ w[u] \notin Digit
        OBVIOUS
      <3>3. k < u
        BY <1>2, <1>4, <3>2
      <3>4. \A i \in 1..u - 1 : w[i] \in Digit
        <4> SUFFICES ASSUME NEW i \in 1..u - 1, w[i] \notin Digit PROVE FALSE
          OBVIOUS
        <4>1. i \in T /\ i < u
          BY <1>2, <3>2
        <4> QED
          BY <3>1, <3>2, <4>1
      <3>5. u - 1 \in k..Len(w) /\ (u - 1) + 1 = u
        BY <1>2, <3>2, <3>3
      <3>6. Begins(w, u - 1)
        BY <3>2, <3>4, <3>5 DEF Begins
      <3> QED
        BY <3>5, <3>6
    <2> QED
      BY <2>1, <2>2
  <1>6. e \in 1..Len(w) /\ e \in Nat
    BY <1>2
  <1>7. Stoll(w) = {Value(SubSeq(w, 1, e))}
    BY <1>5, <1>6, StollDigits
  <1>8. Value(SubSeq(w, 1, e)) \in Nat /\ n <= Value(SubSeq(w, 1, e))
    <2>1. \A i \in 1..e : w[i] \in Digit
      BY <1>5 DEF Begins
    <2>2. Value(SubSeq(w, 1, k)) = n
      BY <1>1, <1>3
    <2> QED
      BY <1>2, <2>1, <2>2, ValueGrows
  <1>9. ASSUME k = Len(w) PROVE Value(SubSeq(w, 1, e)) = n
    <2>1. e = k
      BY <1>2, <1>6, <1>9
    <2> QED
      BY <1>1, <1>3, <2>1
  <1> QED
    BY <1>7, <1>8, <1>9

\* What a reader accepts of a frame that has arrived, whole or not, are the frame's
\* contents, unless other contents have the same digest.
LEMMA SameContents ==
    ASSUME SumsAreWords, SumLen \in Nat, NEW c \in Seq(Int), NEW z, Framed(z, c),
           Len(Printed(c)) < SumLen,
           NEW s, Arrived(s, z),
           NEW p \in Nat, NEW w, FirstAt(s, p, w), NEW m \in Nat, Stoll(w) = {m},
           NEW d, Accepted(s, p, m, d), Digest(d) = Digest(c) => d = c
    PROVE  d = c
  <1> DEFINE g == Digest(c)
             L == SumLen
             l == Len(c)
             n == Size(c)
             t == Printed(c)
             k == Len(t)
  <1>0. IsSum(Digest(c))
    BY DEF SumsAreWords
  <1>1. g \in Seq(Int) /\ Len(g) = L
    BY <1>0 DEF IsSum
  <1>2. /\ n \in Nat /\ L \in Nat /\ l \in Nat /\ k \in Nat /\ k >= 1 /\ k < L
        /\ z \in Seq(Int) /\ Len(z) = k + 1 + n /\ s \in Seq(Int) /\ Len(s) \in Nat /\ Len(s) <= Len(z)
        /\ n = L + 1 + l
    <2>1. l \in Nat /\ L \in Nat /\ n = L + 1 + l
      BY DEF Size
    <2>2. n \in Nat /\ k \in Nat /\ k >= 1 /\ z \in Seq(Int) /\ Len(z) = k + 1 + n
      BY <1>0, FramePlaces
    <2>3. s \in Seq(Int) /\ (Len(s) <= Len(z) \/ Len(s) = Len(z))
      BY DEF Arrived
    <2>4. Len(s) \in Nat /\ Len(z) \in Nat
      BY <2>2, <2>3
    <2>5. k < L
      OBVIOUS
    <2> HIDE DEF n, k, l, L
    <2> QED
      BY <2>1, <2>2, <2>3, <2>4, <2>5
  <1>3. /\ \A i \in 1..k : z[i] = t[i] /\ z[i] # Space
        /\ z[k + 1] = Space
        /\ \A i \in 1..L : z[k + 1 + i] = g[i]
        /\ z[k + L + 2] = Space
        /\ \A i \in 1..l : z[k + L + 2 + i] = c[i]
    <2>1. \A i \in 1..k : z[i] = t[i] /\ z[i] # Space
      BY <1>0, FramePlaces
    <2>2. z[k + 1] = Space
      BY <1>0, FramePlaces
    <2>3. \A i \in 1..L : z[k + 1 + i] = g[i]
      BY <1>0, FramePlaces
    <2>4. z[k + L + 2] = Space
      BY <1>0, FramePlaces
    <2>5. \A i \in 1..l : z[k + L + 2 + i] = c[i]
      BY <1>0, FramePlaces
    <2> HIDE DEF g, n, t, k, L, l
    <2> QED
      BY <2>1, <2>2, <2>3, <2>4, <2>5
  <1>4. L <= m /\ p + m <= Len(s) /\ Digest(d) = SubSeq(s, p + 1, p + L) /\ \A i \in 1..L : s[p + i] # Space
    BY DEF Accepted
  <1>5. m > L => d = SubSeq(s, p + L + 2, p + m)
    <2> SUFFICES ASSUME m > L PROVE d = SubSeq(s, p + L + 2, p + m)
      OBVIOUS
    <2>1. m # L
      BY <1>2
    <2> QED
      BY <2>1 DEF Accepted
  <1> HIDE DEF g, n, t, k, L, l
  <1>6. CASE p = 0
    <2>1. \A i \in 2..Len(s) : s[i] # Space
      BY <1>6 DEF FirstAt
    <2>2. Len(s) > k
      BY <1>2, <1>4, <1>6
    <2>3. s[k + 1] # Space
      <3>1. k + 1 \in 2..Len(s)
        BY <1>2, <2>2
      <3> QED
        BY <2>1, <3>1
    <2>4. Len(s) = Len(z) /\ \A j \in 1..Len(s) : j # k + 1 => s[j] = z[j]
      <3>1. k + 1 \in 1..Len(s) /\ s[k + 1] # z[k + 1]
        BY <1>2, <1>3, <2>2, <2>3
      <3> QED
        BY <1>2, <3>1, OneChange
    <2>5. k + L + 2 \in 2..Len(s) /\ k + L + 2 \in 1..Len(s) /\ k + L + 2 # k + 1
      <3>1. Len(s) = k + 1 + n /\ n = L + 1 + l
        BY <1>2, <2>4
      <3> QED
        BY <1>2, <3>1
    <2>6. s[k + L + 2] = Space
      BY <1>3, <2>4, <2>5
    <2> QED
      BY <2>1, <2>5, <2>6
  <1>7. CASE p # 0
    <2>1. p \in 2..Len(s) /\ s[p] = Space /\ w = SubSeq(s, 1, p - 1) /\ \A i \in 2..p - 1 : s[i] # Space
      BY <1>7 DEF FirstAt
    <2>2. CASE p < k + 1
      <3>1. p \in 1..k /\ p \in 1..Len(s) /\ s[p] # z[p]
        <4>1. p \in 1..k
          BY <1>2, <2>1, <2>2
        <4>2. z[p] # Space
          BY <1>3, <4>1
        <4>3. p \in 1..Len(s)
          BY <1>2, <2>1
        <4> QED
          BY <2>1, <4>1, <4>2, <4>3
      <3>2. Len(s) = Len(z) /\ \A j \in 1..Len(s) : j # p => s[j] = z[j]
        BY <1>2, <3>1, OneChange
      <3>3. k + 1 \in 1..Len(s) /\ k + 1 # p
        BY <1>2, <3>1, <3>2
      <3>4. s[k + 1] = Space
        BY <1>3, <3>2, <3>3
      <3>5. k + 1 - p \in 1..L /\ p + (k + 1 - p) = k + 1
        BY <1>2, <3>1
      <3> QED
        BY <1>4, <3>4, <3>5
    <2>3. CASE p = k + 1
      <3>1. CASE \A i \in 1..L : s[p + i] = z[p + i]
        <4>1. p + L <= Len(s)
          BY <1>2, <1>4
        <4>2. \A i \in 1..L : g[i] = s[p + i]
          BY <1>3, <2>3, <3>1
        <4>3. L \in Nat /\ g \in Seq(Int) /\ Len(g) = L /\ s \in Seq(Int) /\ p \in Nat
          BY <1>1, <1>2
        <4>4. g = SubSeq(s, p + 1, p + L)
          BY <4>1, <4>2, <4>3, PartIs
        <4> QED
          BY <1>4, <4>4 DEF g
      <3>2. ASSUME NEW i \in 1..L, s[p + i] # z[p + i] PROVE d = c
        <4>1. p + i \in 1..Len(s)
          BY <1>2, <1>4
        <4>2. Len(s) = Len(z) /\ \A j \in 1..Len(s) : j # p + i => s[j] = z[j]
          BY <1>2, <3>2, <4>1, OneChange
        <4>3. w \in Seq(Int) /\ Len(w) = k /\ \A j \in 1..k : w[j] = t[j]
          <5>1. p - 1 = k /\ k <= Len(s)
            BY <1>2, <2>1, <2>3
          <5>2. w = SubSeq(s, 1, k)
            BY <2>1, <5>1
          <5>3. w \in Seq(Int) /\ Len(w) = k /\ \A j \in 1..k : w[j] = s[j]
            BY <1>2, <5>1, <5>2, BeginningHas
          <5>4. ASSUME NEW j \in 1..k PROVE w[j] = t[j]
            <6>1. j \in 1..Len(s)
              BY <1>2, <5>1
            <6>2. j # p + i
              BY <1>2, <2>3
            <6>3. w[j] = s[j] /\ s[j] = z[j]
              BY <4>2, <5>3, <6>1, <6>2
            <6> QED
              BY <1>3, <6>3
          <5> QED
            BY <5>3, <5>4
        <4>4. m = n
          <5>1. k = Len(Decimal(n)) /\ k <= Len(w) /\ \A j \in 1..k : w[j] = Decimal(n)[j]
            BY <1>2, <4>3 DEF k, t, n, Printed
          <5>2. PICK v \in Nat : Stoll(w) = {v} /\ (k = Len(w) => v = n)
            BY <1>2, <4>3, <5>1, StollBeyond DEF k, t, n, Printed
          <5>3. v = n
            BY <4>3, <5>2
          <5>4. m \in {v}
            BY <5>2
          <5> QED
            BY <5>3, <5>4
        <4>5. d = SubSeq(s, p + L + 2, p + m)
          <5>1. m > L
            BY <1>2, <4>4
          <5> QED
            BY <1>5, <5>1
        <4>6. c = SubSeq(s, p + L + 1 + 1, p + L + 1 + l)
          <5>1. p + L + 1 \in Nat /\ p + L + 1 + l <= Len(s)
            BY <1>2, <2>3, <4>2
          <5>2. \A j \in 1..l : p + L + 1 + j \in 1..Len(s) /\ p + L + 1 + j # p + i /\ p + L + 1 + j = k + L + 2 + j
            <6>1. TAKE j \in 1..l
            <6>2. p + L + 1 + j \in 1..Len(s)
              <7>1. Len(s) \in Nat /\ l \in Nat /\ j \in Nat /\ 1 <= j /\ j <= l
                BY <1>2
              <7> QED
                BY <5>1, <7>1
            <6>3. p + L + 1 + j # p + i /\ p + L + 1 + j = k + L + 2 + j
              BY <1>2, <2>3, <5>1
            <6> QED
              BY <6>2, <6>3
          <5>3. \A j \in 1..l : s[p + L + 1 + j] = c[j]
            BY <1>3, <4>2, <5>2
          <5> QED
            BY <1>2, <5>1, <5>3, PartIs DEF l
        <4>7. p + L + 1 + 1 = p + L + 2 /\ p + L + 1 + l = p + m
          BY <1>2, <4>4
        <4> QED
          BY <4>5, <4>6, <4>7
      <3> QED
        BY <3>1, <3>2
    <2>4. CASE p > k + 1
      <3>1. k + 1 \in 2..p - 1 /\ k + 1 \in 1..Len(s)
        BY <1>2, <2>1, <2>4
      <3>2. s[k + 1] # z[k + 1]
        BY <1>3, <2>1, <3>1
      <3>3. Len(s) = Len(z) /\ \A j \in 1..Len(s) : j # k + 1 => s[j] = z[j]
        BY <1>2, <3>1, <3>2, OneChange
      <3>4. w \in Seq(Int) /\ Len(w) = p - 1 /\ \A j \in 1..k : w[j] = t[j]
        <4>1. p - 1 \in Nat /\ p - 1 <= Len(s) /\ k < p - 1
          BY <1>2, <2>1, <2>4
        <4>2. w = SubSeq(s, 1, p - 1)
          BY <2>1
        <4>3. w \in Seq(Int) /\ Len(w) = p - 1 /\ \A j \in 1..p - 1 : w[j] = s[j]
          BY <1>2, <4>1, <4>2, BeginningHas
        <4>4. ASSUME NEW j \in 1..k PROVE w[j] = t[j]
          <5>1. j \in 1..p - 1 /\ j # k + 1
            BY <1>2, <4>1
          <5>2. j \in 1..Len(s)
            BY <1>2, <4>1, <5>1
          <5>3. w[j] = s[j] /\ s[j] = z[j]
            BY <3>3, <4>3, <5>1, <5>2
          <5> QED
            BY <1>3, <5>3
        <4> QED
          BY <4>3, <4>4
      <3>5. n <= m
        <4>1. k = Len(Decimal(n)) /\ k <= Len(w) /\ \A j \in 1..k : w[j] = Decimal(n)[j]
          BY <1>2, <2>4, <3>4 DEF k, t, n, Printed
        <4>2. PICK v \in Nat : Stoll(w) = {v} /\ n <= v
          BY <1>2, <3>4, <4>1, StollBeyond DEF k, t, n, Printed
        <4>3. m \in {v}
          BY <4>2
        <4> QED
          BY <4>2, <4>3
      <3> QED
        BY <1>2, <1>4, <2>4, <3>3, <3>5
    <2> QED
      BY <1>2, <2>1, <2>2, <2>3, <2>4
  <1> QED
    BY <1>6, <1>7

\* std::stoll throws or returns one number.
LEMMA StollOne ==
    ASSUME NEW s \in Seq(Int)
    PROVE  Stoll(s) = {} \/ \E v \in Int : Stoll(s) = {v}
  <1> DEFINE word   == After(s, Before(s, LAMBDA c : c # Space))
             signed == word # <<>> /\ word[1] = Minus
             shown  == IF signed THEN Tail(word) ELSE word
             digits == Before(shown, LAMBDA c : c \notin Digit)
  <1>1. ASSUME NEW x \in Seq(Int), NEW a \in Int, NEW b \in Int, a >= 1, b <= Len(x)
        PROVE  SubSeq(x, a, b) \in Seq(Int)
    <2>1. \A i \in a..b : x[i] \in Int
      <3>1. \A i \in a..b : i \in 1..Len(x)
        BY <1>1
      <3> QED
        BY <3>1
    <2> QED
      BY <2>1, SubSeqProperties
  <1>2. ASSUME NEW x \in Seq(Int), NEW T, T \subseteq 1..Len(x)
        PROVE  Min(T \cup {Len(x) + 1}) - 1 \in 0..Len(x)
    <2> DEFINE U == T \cup {Len(x) + 1}
    <2>1. U \subseteq 1..Len(x) + 1 /\ U # {} /\ U \in SUBSET Nat
      <3>1. Len(x) \in Nat
        OBVIOUS
      <3>2. \A y \in U : y \in 1..Len(x) + 1 /\ y \in Nat
        BY <1>2, <3>1
      <3> QED
        BY <3>2
    <2> HIDE DEF U
    <2>2. Min(U) \in 1..Len(x) + 1
      BY <2>1, MinIsLeast
    <2>3. Min(U) - 1 \in 0..Len(x)
      BY <2>2
    <2> QED
      BY <2>3 DEF U
  <1>3. word \in Seq(Int)
    <2> DEFINE T == {i \in DOMAIN s : s[i] # Space}
               e == Min(T \cup {Len(s) + 1}) - 1
               spaces == Before(s, LAMBDA c : c # Space)
    <2>1. T \subseteq 1..Len(s)
      OBVIOUS
    <2>2. e \in 0..Len(s)
      <3> HIDE DEF T
      <3> QED
        BY <1>2, <2>1
    <2>3. spaces = SubSeq(s, 1, e)
      BY DEF Before
    <2> HIDE DEF e, spaces
    <2>4. spaces \in Seq(Int)
      BY <1>1, <2>2, <2>3
    <2>5. word = SubSeq(s, Len(spaces) + 1, Len(s))
      BY DEF After, spaces
    <2>6. Len(spaces) + 1 \in Int /\ Len(spaces) + 1 >= 1 /\ Len(s) \in Int
      BY <2>4
    <2> HIDE DEF word
    <2> QED
      BY <1>1, <2>5, <2>6
  <1>4. Stoll(s) = IF digits = <<>> THEN {} ELSE {IF signed THEN -Value(digits) ELSE Value(digits)}
    BY DEF Stoll, Value
  <1> HIDE DEF word
  <1>5. shown \in Seq(Int)
    BY <1>3
  <1> HIDE DEF shown
  <1>6. digits \in Seq(Int)
    <2> DEFINE T == {i \in DOMAIN shown : shown[i] \notin Digit}
               e == Min(T \cup {Len(shown) + 1}) - 1
    <2>1. T \subseteq 1..Len(shown)
      BY <1>5
    <2>2. e \in 0..Len(shown)
      <3> HIDE DEF T
      <3> QED
        BY <1>2, <1>5, <2>1
    <2>3. digits = SubSeq(shown, 1, e)
      BY DEF Before
    <2> HIDE DEF e, digits
    <2>4. 1 \in Int /\ e \in Int /\ 1 >= 1 /\ e <= Len(shown)
      BY <1>5, <2>2
    <2> QED
      BY <1>1, <1>5, <2>3, <2>4
  <1> HIDE DEF digits
  <1>7. Value(digits) \in Int
    BY <1>6, ValueAppend
  <1> HIDE DEF signed
  <1>8. (IF signed THEN -Value(digits) ELSE Value(digits)) \in Int
    BY <1>7
  <1> QED
    BY <1>4, <1>8

\* No text in s but c has the digest of c.
Unlike(s, c) ==
    \A i \in 1..Len(s) + 1, j \in 0..Len(s) :
        Digest(SubSeq(s, i, j)) = Digest(c) => SubSeq(s, i, j) = c

\* c has been framed as z, of which s has arrived, with nothing in it that is taken for c.
Sent(c, z, s) ==
    /\ c \in Seq(Int) /\ Framed(z, c) /\ Len(Printed(c)) < SumLen
    /\ s \in Seq(Int) /\ Arrived(s, z) /\ Unlike(s, c)

\* A reader has found the word w in s before the place p, and the number m in w.
Sized(s, p, w, m) ==
    /\ p \in Nat /\ FirstAt(s, p, w)
    /\ m \in Nat /\ Stoll(w) = {m} /\ p + m <= Len(s)

\* What stands behind the first word of a text.
Behind(b) == SubSeq(b, NextSimb(b, 0, Space).at + 1, Len(b))

\* A text whose first word is the digest of the rest.
Tallies(b) == NextSimb(b, 0, Space).word = Digest(Behind(b))

\* The m bytes of a text behind the place p.
Part(s, p, m) == SubSeq(s, p + 1, p + m)

\* What a reader that has found the size sums are the contents, if it holds their digest.
LEMMA Taken ==
    ASSUME SumsAreWords, SumLen \in Nat, NEW c, NEW z, NEW s, Sent(c, z, s),
           NEW p, NEW w, NEW m, Sized(s, p, w, m),
           Tallies(Part(s, p, m))
    PROVE  Behind(Part(s, p, m)) = c
  <1> USE DEF Sent, Sized
  <1> DEFINE b == Part(s, p, m)
             sum == NextSimb(b, 0, Space)
             e == sum.at
             g == sum.word
             d == SubSeq(b, e + 1, m)
  <1>1. b \in Seq(Int) /\ Len(b) = m /\ \A i \in 1..m : b[i] = s[p + i]
    <2> DEFINE x == SubSeq(s, p + 1, p + m)
    <2>1. x \in Seq(Int) /\ Len(x) = m /\ \A i \in 1..m : x[i] = s[p + i]
      BY PartHas
    <2>2. b = x
      BY DEF Part
    <2> HIDE DEF b, x
    <2> QED
      BY <2>1, <2>2
  <1>7. b = SubSeq(s, p + 1, p + m) /\ g = Digest(Behind(b))
    BY DEF Part, Tallies
  <1>8. Behind(b) = SubSeq(b, e + 1, Len(b))
    BY DEF Behind
  <1> HIDE DEF b
  <1>2. FirstAt(b, e, g)
    BY <1>1, FirstWord
  <1>3. e \in 0..m /\ Digest(d) = g /\ d = Behind(b)
    <2>1. e = 0 \/ e \in 2..m
      BY <1>1, <1>2 DEF FirstAt
    <2> HIDE DEF e, g
    <2>2. e \in 0..m
      BY <2>1
    <2> QED
      BY <1>1, <1>7, <1>8, <2>2
  <1> HIDE DEF e, g, d
  <1>4. Accepted(s, p, m, d)
    <2>1. e \in Nat /\ d = SubSeq(b, e + 1, m)
      BY <1>3 DEF d
    <2> QED
      BY <1>1, <1>2, <1>3, <2>1, SumFits
  <1>5. Digest(d) = Digest(c) => d = c
    <2>1. e + 1 \in 1..m + 1 /\ m \in 0..m
      BY <1>3
    <2>2. d = SubSeq(s, p + (e + 1), p + m)
      BY <1>7, <2>1, PartOfPart DEF d
    <2>3. p + (e + 1) \in 1..Len(s) + 1 /\ p + m \in 0..Len(s)
      BY <1>3
    <2> QED
      BY <2>2, <2>3 DEF Unlike
  <1>6. d = c
    BY <1>4, <1>5, SameContents
  <1> QED
    BY <1>3, <1>6 DEF b

\* What a reader finds in a frame that has arrived whole.
LEMMA Whole ==
    ASSUME SumLen \in Nat, SumLen > 0, NEW c \in Seq(Int), IsSum(Digest(c)), NEW z, Framed(z, c)
    PROVE  LET at   == Len(Printed(c)) + 1
               body == SubSeq(z, at + 1, at + Size(c))
           IN  /\ at \in 2..Len(z) /\ at + Size(c) = Len(z) /\ Size(c) > 0
               /\ z[at] = Space /\ \A i \in 1..at - 1 : z[i] # Space
               /\ NextSimb(z, 0, Space) = [word |-> Printed(c), at |-> at]
               /\ SubSeq(z, 1, at - 1) = Printed(c)
               /\ Stoll(Printed(c)) = {Size(c)}
               /\ NextSimb(body, 0, Space) = [word |-> Digest(c), at |-> SumLen + 1]
               /\ Len(body) = Size(c)
               /\ SubSeq(body, SumLen + 1 + 1, Len(body)) = c
  <1> DEFINE g == Digest(c)
             x == Line2(g, c)
             n == Size(c)
             t == Printed(c)
             k == Len(t)
             at == k + 1
             body == SubSeq(z, at + 1, at + n)
  <1>1. g \in Seq(Int) /\ Len(g) = SumLen /\ Word(g)
    BY DEF IsSum, Word
  <1> HIDE DEF g
  <1>2. n \in Nat /\ n > 0 /\ n = SumLen + 1 + Len(c)
    BY DEF Size
  <1>3. x \in Seq(Int) /\ Len(x) = n /\ Stands(x, 0, g) /\ Stands(x, SumLen + 1, c) /\ x[SumLen + 1] = Space
    <2>1. x \in Seq(Int) /\ Len(x) = Len(g) + 1 + Len(c) /\ Stands(x, 0, g) /\ Stands(x, Len(g) + 1, c)
          /\ x[Len(g) + 1] = Space
      BY <1>1, LinePlaces
    <2> HIDE DEF x, n
    <2> QED
      BY <1>1, <1>2, <2>1
  <1> HIDE DEF x, n
  <1>4. Word(t) /\ Stoll(t) = {n}
    BY <1>2, DecimalIsWord, StollDecimal DEF Printed, n
  <1> HIDE DEF t
  <1>5. t \in Seq(Int) /\ k \in Nat /\ k >= 1 /\ \A i \in 1..k : t[i] # Space
    BY <1>4 DEF Word
  <1>6. z = Line2(t, x)
    <2>1. z = Line2(Decimal(Len(x)), x)
      BY DEF Framed, x, g
    <2> QED
      BY <1>3, <2>1 DEF t, Printed, n
  <1>7. /\ z \in Seq(Int) /\ Len(z) = k + 1 + n /\ Stands(z, 0, t) /\ Stands(z, k + 1, x)
        /\ z[k + 1] = Space
    <2>1. /\ z \in Seq(Int) /\ Len(z) = k + 1 + Len(x) /\ Stands(z, 0, t) /\ Stands(z, k + 1, x)
          /\ z[k + 1] = Space
      BY <1>3, <1>5, <1>6, LinePlaces
    <2> QED
      BY <1>3, <2>1
  <1>8. NextSimb(z, 0, Space) = [word |-> t, at |-> at]
    <2>1. 0 + Len(t) + 1 <= Len(z) /\ 0 + Len(t) + 1 = k + 1
      BY <1>2, <1>5, <1>7
    <2> HIDE DEF k
    <2> QED
      BY <1>4, <1>7, <2>1, NextWord DEF k
  <1>9. SubSeq(z, 1, at - 1) = t
    <2>1. SubSeq(z, 0 + 1, 0 + Len(t)) = t
      BY <1>5, <1>7, StandsIsPart
    <2>2. 0 + 1 = 1 /\ 0 + Len(t) = at - 1
      BY <1>5
    <2> QED
      BY <2>1, <2>2
  <1>10. \A i \in 1..at - 1 : z[i] # Space
    <2> SUFFICES ASSUME NEW i \in 1..at - 1 PROVE z[i] # Space
      OBVIOUS
    <2>1. i \in 1..k /\ 0 + i = i
      BY <1>5
    <2>2. z[0 + i] = t[i]
      BY <1>7, <2>1 DEF Stands
    <2> QED
      BY <1>5, <2>1, <2>2
  <1>11. body = x
    <2>1. SubSeq(z, k + 1 + 1, k + 1 + Len(x)) = x
      <3> HIDE DEF k
      <3>1. k + 1 \in Nat
        BY <1>5
      <3> QED
        BY <1>3, <1>7, <3>1, StandsIsPart
    <2> QED
      BY <1>3, <2>1
  <1>12. NextSimb(x, 0, Space) = [word |-> g, at |-> SumLen + 1]
    <2>1. 0 + Len(g) + 1 <= Len(x) /\ 0 + Len(g) + 1 = SumLen + 1
      BY <1>1, <1>2, <1>3
    <2> QED
      BY <1>1, <1>3, <2>1, NextWord
  <1>13. SubSeq(x, SumLen + 1 + 1, n) = c
    <2>1. SubSeq(x, SumLen + 1 + 1, SumLen + 1 + Len(c)) = c
      BY <1>3, StandsIsPart
    <2> QED
      BY <1>2, <2>1
  <1>14. at \in 2..Len(z) /\ at + n = Len(z)
    BY <1>2, <1>5, <1>7
  <1> HIDE DEF k, body
  <1> QED
    BY <1>2, <1>3, <1>4, <1>7, <1>8, <1>9, <1>10, <1>11, <1>12, <1>13, <1>14, Zenon DEF n, t, k, g, body

\* A request whose contents are c, once its frame is off.
Opened(c) ==
    LET uid == NextSimb(c, 0, Space)
    IN  [uid |-> CHOOSE u \in Stoll(uid.word) : TRUE, data |-> SubSeq(c, uid.at + 1, Len(c))]

\* The server takes a request apart whose frame holds these contents, and no other.
LEMMA ServerTakes ==
    ASSUME SumsAreWords, SumLen \in Nat, NEW c \in Seq(Int), NEW z, Framed(z, c),
           Len(Printed(c)) < SumLen,
           NEW s \in Seq(Int), Arrived(s, z), Unlike(s, c),
           "error" \notin DOMAIN OpenRequest(s)
    PROVE  OpenRequest(s) = Opened(c)
  <1> DEFINE size == NextSimb(s, 0, Space)
             n    == Stoll(size.word)
             m    == CHOOSE x \in n : TRUE
             end  == size.at + m
             body == SubSeq(s, size.at + 1, end)
             sum  == NextSimb(body, 0, Space)
             data == SubSeq(body, sum.at + 1, Len(body))
             uid  == NextSimb(data, 0, Space)
  <1>1. OpenRequest(s) =
          IF n = {}                        THEN [error |-> "ernet-datasize-corrupted"]
          ELSE IF end < size.at            THEN [error |-> "data-corrupted"]
          ELSE IF end > Len(s)             THEN [error |-> "beyond"]
          ELSE IF ~SumHolds(sum.word, data) THEN [error |-> "ernet-control_sum-corrupted"]
          ELSE IF Stoll(uid.word) = {}     THEN [error |-> "ernet-uid-corrupted"]
          ELSE [uid  |-> CHOOSE u \in Stoll(uid.word) : TRUE,
                data |-> SubSeq(data, uid.at + 1, Len(data))]
    BY DEF OpenRequest
  <1>2. size.at \in Nat /\ size.word \in Seq(Int) /\ FirstAt(s, size.at, size.word)
    BY NextTyped, FirstWord
  <1> HIDE DEF size, m, body, sum, data, uid
  <1>3. \A e : "error" \in DOMAIN [error |-> e]
    OBVIOUS
  <1>4. n # {} /\ ~(end < size.at) /\ ~(end > Len(s)) /\ SumHolds(sum.word, data) /\ Stoll(uid.word) # {}
    BY <1>1, <1>3
  <1>5. OpenRequest(s) = Opened(data)
    BY <1>1, <1>4 DEF Opened, uid
  <1>6. m \in Int /\ n = {m}
    <2>1. PICK v \in Int : n = {v}
      BY <1>2, <1>4, StollOne
    <2>2. m = v
      BY <2>1 DEF m
    <2> QED
      BY <2>1, <2>2
  <1>7. m \in Nat /\ size.at + m <= Len(s)
    <2>1. Len(s) \in Nat
      OBVIOUS
    <2> QED
      BY <1>2, <1>4, <1>6, <2>1
  <1>8. sum.word = Digest(data)
    BY <1>4 DEF SumHolds
  <1>9. data = c
    <2> DEFINE p == size.at
               w == size.word
    <2>1. body = Part(s, p, m) /\ sum = NextSimb(body, 0, Space) /\ data = Behind(body)
      BY DEF body, sum, data, Behind, Part
    <2>2. p \in Nat /\ FirstAt(s, p, w) /\ m \in Nat /\ p + m <= Len(s)
      BY <1>2, <1>7
    <2> HIDE DEF n, end, p, w
    <2>3. Stoll(w) = {m}
      BY <1>6 DEF n, w
    <2>4. Tallies(Part(s, p, m))
      BY <1>8, <2>1 DEF Tallies
    <2>5. Sent(c, z, s) /\ Sized(s, p, w, m)
      BY <2>2, <2>3 DEF Sent, Sized
    <2>6. Behind(Part(s, p, m)) = c
      BY <2>4, <2>5, Taken
    <2> QED
      BY <2>1, <2>6
  <1> QED
    BY <1>5, <1>9

\* The contents of a request are its uid and the text behind it.
LEMMA RequestContents ==
    ASSUME NEW uid \in Int, NEW text \in Seq(Int), NEW c, c = Line2(Decimal(uid), text)
    PROVE  /\ c \in Seq(Int) /\ Stoll(NextSimb(c, 0, Space).word) # {}
           /\ Opened(c) = [uid |-> uid, data |-> text]
  <1> DEFINE w == Decimal(uid)
             x == Line2(w, text)
  <1>1. Word(w) /\ Stoll(w) = {uid}
    BY DecimalIsWord, StollDecimal
  <1> HIDE DEF w
  <1>2. w \in Seq(Int) /\ Len(w) \in Nat
    BY <1>1 DEF Word
  <1>3. /\ x \in Seq(Int) /\ Len(x) = Len(w) + 1 + Len(text)
        /\ Stands(x, 0, w) /\ Stands(x, Len(w) + 1, text) /\ x[Len(w) + 1] = Space
    BY <1>2, LinePlaces
  <1>4. c = x
    BY DEF w
  <1> HIDE DEF x
  <1>5. NextSimb(x, 0, Space) = [word |-> w, at |-> Len(w) + 1]
    <2>1. Len(x) \in Nat /\ Len(text) \in Nat
      BY <1>3
    <2>2. 0 + Len(w) + 1 <= Len(x) /\ 0 + Len(w) + 1 = Len(w) + 1
      BY <1>2, <1>3, <2>1
    <2>3. 0 \in Nat /\ x[0 + Len(w) + 1] = Space
      BY <1>3, <2>2
    <2>4. NextSimb(x, 0, Space) = [word |-> w, at |-> 0 + Len(w) + 1]
      BY <1>1, <1>3, <2>2, <2>3, NextWord
    <2> QED
      BY <2>2, <2>4
  <1>6. SubSeq(x, Len(w) + 1 + 1, Len(x)) = text
    <2>1. SubSeq(x, Len(w) + 1 + 1, Len(w) + 1 + Len(text)) = text
      <3>1. Len(w) + 1 \in Nat
        BY <1>2
      <3> QED
        BY <1>3, <3>1, StandsIsPart
    <2> QED
      BY <1>3, <2>1
  <1>7. NextSimb(x, 0, Space).word = w /\ NextSimb(x, 0, Space).at = Len(w) + 1
    BY <1>5
  <1>8. Opened(x) = [uid |-> uid, data |-> text]
    <2>1. (CHOOSE v \in {uid} : TRUE) = uid
      OBVIOUS
    <2>2. Opened(x) = [uid |-> CHOOSE v \in Stoll(w) : TRUE, data |-> SubSeq(x, Len(w) + 1 + 1, Len(x))]
      BY <1>7 DEF Opened
    <2> QED
      BY <1>1, <1>6, <2>1, <2>2
  <1> QED
    BY <1>1, <1>3, <1>4, <1>7, <1>8

\* And takes every request that has arrived whole.
LEMMA ServerTakesWhole ==
    ASSUME SumLen \in Nat, SumLen > 0, NEW c \in Seq(Int), IsSum(Digest(c)), NEW z, Framed(z, c),
           Stoll(NextSimb(c, 0, Space).word) # {}
    PROVE  OpenRequest(z) = Opened(c)
  <1> DEFINE size == NextSimb(z, 0, Space)
             n    == Stoll(size.word)
             end  == size.at + CHOOSE x \in n : TRUE
             body == SubSeq(z, size.at + 1, end)
             sum  == NextSimb(body, 0, Space)
             data == SubSeq(body, sum.at + 1, Len(body))
             u    == NextSimb(data, 0, Space)
  <1>1. OpenRequest(z) =
          IF n = {}                        THEN [error |-> "ernet-datasize-corrupted"]
          ELSE IF end < size.at            THEN [error |-> "data-corrupted"]
          ELSE IF end > Len(z)             THEN [error |-> "beyond"]
          ELSE IF ~SumHolds(sum.word, data) THEN [error |-> "ernet-control_sum-corrupted"]
          ELSE IF Stoll(u.word) = {}     THEN [error |-> "ernet-uid-corrupted"]
          ELSE [uid  |-> CHOOSE v \in Stoll(u.word) : TRUE,
                data |-> SubSeq(data, u.at + 1, Len(data))]
    BY DEF OpenRequest
  <1> DEFINE at == Len(Printed(c)) + 1
             x  == SubSeq(z, at + 1, at + Size(c))
  <1>8. /\ at \in 2..Len(z) /\ at + Size(c) = Len(z) /\ Size(c) > 0
        /\ NextSimb(z, 0, Space) = [word |-> Printed(c), at |-> at]
        /\ Stoll(Printed(c)) = {Size(c)}
        /\ NextSimb(x, 0, Space) = [word |-> Digest(c), at |-> SumLen + 1]
        /\ Len(x) = Size(c)
        /\ SubSeq(x, SumLen + 1 + 1, Len(x)) = c
    BY Whole
  <1> HIDE DEF at, x
  <1>9. size.at = at /\ n = {Size(c)} /\ end = Len(z)
    <2>1. (CHOOSE v \in {Size(c)} : TRUE) = Size(c)
      OBVIOUS
    <2>2. size.at = at /\ size.word = Printed(c)
      BY <1>8
    <2> HIDE DEF size
    <2>3. n = {Size(c)}
      BY <1>8, <2>2
    <2> HIDE DEF n
    <2>4. end = at + Size(c)
      BY <2>1, <2>2, <2>3
    <2> QED
      BY <1>8, <2>2, <2>3, <2>4
  <1>10. body = x
    BY <1>8, <1>9 DEF x
  <1> HIDE DEF size, n, end, body
  <1>11. sum.word = Digest(c) /\ data = c
    <2>1. sum = NextSimb(x, 0, Space) /\ data = SubSeq(body, sum.at + 1, Len(body))
      BY <1>10
    <2> HIDE DEF sum, data
    <2>2. sum.word = Digest(c) /\ sum.at = SumLen + 1
      BY <1>8, <2>1
    <2>3. data = SubSeq(x, SumLen + 1 + 1, Len(x))
      BY <1>10, <2>1, <2>2
    <2> QED
      BY <1>8, <2>2, <2>3
  <1> HIDE DEF sum, data
  <1>12. Stoll(u.word) # {}
    BY <1>11
  <1>13. SumHolds(sum.word, data)
    BY <1>11 DEF SumHolds
  <1>14. ~(end < size.at) /\ ~(end > Len(z)) /\ n # {}
    <2>1. Len(z) \in Nat /\ at \in Nat
      BY <1>8
    <2> QED
      BY <1>8, <1>9, <2>1
  <1> QED
    BY <1>1, <1>11, <1>12, <1>13, <1>14 DEF Opened

\* Of no bytes std::stoll makes no number.
LEMMA StollNothing == Stoll(<<>>) = {}
  <1> DEFINE word   == After(<<>>, Before(<<>>, LAMBDA c : c # Space))
             signed == word # <<>> /\ word[1] = Minus
             shown  == IF signed THEN Tail(word) ELSE word
             digits == Before(shown, LAMBDA c : c \notin Digit)
  <1>1. Before(<<>>, LAMBDA c : c # Space) = <<>>
    <2>1. {i \in DOMAIN <<>> : <<>>[i] # Space} \cup {Len(<<>>) + 1} = {1}
      OBVIOUS
    <2>2. Min({1}) = 1
      BY MinIs
    <2>3. SubSeq(<<>>, 1, 1 - 1) = <<>>
      BY SubSeqEmpty
    <2> QED
      BY <2>1, <2>2, <2>3 DEF Before
  <1>2. word = <<>>
    <2>1. word = SubSeq(<<>>, Len(<<>>) + 1, Len(<<>>))
      BY <1>1 DEF After
    <2>2. SubSeq(<<>>, 0 + 1, 0) = <<>> /\ Len(<<>>) = 0
      BY SubSeqEmpty
    <2> QED
      BY <2>1, <2>2
  <1> HIDE DEF word
  <1>3. shown = <<>>
    BY <1>2
  <1> HIDE DEF shown
  <1>4. digits = <<>>
    <2>1. {i \in DOMAIN <<>> : <<>>[i] \notin Digit} \cup {Len(<<>>) + 1} = {1}
      OBVIOUS
    <2>2. Min({1}) = 1
      BY MinIs
    <2>3. SubSeq(<<>>, 1, 1 - 1) = <<>>
      BY SubSeqEmpty
    <2> QED
      BY <1>3, <2>1, <2>2, <2>3 DEF Before
  <1>5. Stoll(<<>>) = IF digits = <<>> THEN {} ELSE {IF signed THEN -Value(digits) ELSE Value(digits)}
    BY DEF Stoll, Value, word, shown
  <1> QED
    BY <1>4, <1>5

\* The client takes of an answer these contents, and no others.
LEMMA ClientTakes ==
    ASSUME SumsAreWords, SumLen \in Nat, NEW c \in Seq(Int), NEW z, Framed(z, c),
           Len(Printed(c)) < SumLen,
           NEW s \in Seq(Int), Arrived(s, z), Unlike(s, c),
           OpenAnswer(s).code = 0
    PROVE  OpenAnswer(s).data = c
  <1> DEFINE spaces == Places(s, Space)
             at     == Min(spaces)
             w      == SubSeq(s, 1, at - 1)
             n      == Stoll(w)
             size   == CHOOSE x \in n : TRUE
             body   == SubSeq(s, at + 1, at + size)
             sum    == NextSimb(body, 0, Space)
             data   == SubSeq(body, sum.at + 1, Len(body))
  <1>1. OpenAnswer(s) =
          IF Len(s) < TooSmall                    THEN [code |-> 2, data |-> s]
          ELSE IF spaces = {}                     THEN [code |-> 3, data |-> s]
          ELSE IF n = {}                          THEN [code |-> 7, data |-> s]
          ELSE IF size <= 0 \/ size > MaxAnswer   THEN [code |-> 4, data |-> s]
          ELSE IF at + size > Len(s)              THEN [code |-> 5, data |-> s]
          ELSE IF ~SumHolds(sum.word, data)       THEN [code |-> 6, data |-> data]
          ELSE IF data \in ErrorText              THEN [code |-> 7, data |-> data]
          ELSE [code |-> 0, data |-> data]
    BY DEF OpenAnswer
  <1>2. spaces = {i \in 1..Len(s) : s[i] = Space}
    BY DEF Places
  <1> HIDE DEF spaces, at, w, n, size, body, sum, data
  <1>3. /\ spaces # {} /\ n # {} /\ ~(size <= 0) /\ ~(at + size > Len(s)) /\ SumHolds(sum.word, data)
        /\ OpenAnswer(s).data = data
    BY <1>1
  <1>4. at \in 1..Len(s) /\ s[at] = Space /\ \A i \in 1..at - 1 : s[i] # Space
    <2>1. spaces \in SUBSET Nat
      BY <1>2
    <2>2. at \in spaces /\ \A y \in spaces : at <= y
      BY <1>3, <2>1, MinIsLeast DEF at
    <2>3. at \in 1..Len(s) /\ s[at] = Space
      BY <1>2, <2>2
    <2>4. ASSUME NEW i \in 1..at - 1, s[i] = Space PROVE FALSE
      <3>1. i \in spaces /\ i < at
        BY <1>2, <2>3, <2>4
      <3> QED
        BY <2>2, <2>3, <3>1
    <2> QED
      BY <2>3, <2>4
  <1>5. at # 1
    <2> SUFFICES ASSUME at = 1 PROVE FALSE
      OBVIOUS
    <2>1. w = <<>>
      BY SubSeqEmpty DEF w
    <2>2. Stoll(<<>>) = {}
      BY StollNothing
    <2> QED
      BY <1>3, <2>1, <2>2 DEF n
  <1>6. FirstAt(s, at, w) /\ at \in Nat
    <2>1. at \in 2..Len(s)
      BY <1>4, <1>5
    <2>2. \A i \in 2..at - 1 : i \in 1..at - 1
      OBVIOUS
    <2> QED
      BY <1>4, <2>1, <2>2 DEF FirstAt, w
  <1>7. size \in Int /\ n = {size}
    <2>1. w \in Seq(Int)
      <3>1. at - 1 \in Nat /\ 0 + (at - 1) <= Len(s) /\ 0 + 1 = 1 /\ 0 + (at - 1) = at - 1
        BY <1>4
      <3>2. SubSeq(s, 0 + 1, 0 + (at - 1)) \in Seq(Int)
        BY <3>1, PartHas
      <3> QED
        BY <3>1, <3>2 DEF w
    <2>2. PICK v \in Int : n = {v}
      BY <1>3, <2>1, StollOne DEF n
    <2>3. size = v
      BY <2>2 DEF size
    <2> QED
      BY <2>2, <2>3
  <1>8. size \in Nat /\ at + size <= Len(s)
    <2>1. Len(s) \in Nat
      OBVIOUS
    <2> QED
      BY <1>3, <1>6, <1>7, <2>1
  <1>9. data = c
    <2>1. body = Part(s, at, size) /\ sum = NextSimb(body, 0, Space) /\ data = Behind(body)
      BY DEF body, sum, data, Behind, Part
    <2>2. Stoll(w) = {size}
      BY <1>7 DEF n
    <2>3. Tallies(Part(s, at, size))
      BY <1>3, <2>1 DEF SumHolds, Tallies
    <2>4. Sent(c, z, s) /\ Sized(s, at, w, size)
      BY <1>6, <1>8, <2>2 DEF Sent, Sized
    <2>5. Behind(Part(s, at, size)) = c
      BY <2>3, <2>4, Taken
    <2> QED
      BY <2>1, <2>5
  <1> QED
    BY <1>3, <1>9

\* And takes every answer that has arrived whole, unless it is one of the errors.
LEMMA ClientTakesWhole ==
    ASSUME SumLen \in Nat, SumLen > 0, NEW c \in Seq(Int), IsSum(Digest(c)), NEW z, Framed(z, c),
           ~(Len(z) < TooSmall), ~(Size(c) > MaxAnswer), c \notin ErrorText
    PROVE  OpenAnswer(z).code = 0
  <1> DEFINE spaces == Places(z, Space)
             at     == Min(spaces)
             n      == Stoll(SubSeq(z, 1, at - 1))
             size   == CHOOSE x \in n : TRUE
             body   == SubSeq(z, at + 1, at + size)
             sum    == NextSimb(body, 0, Space)
             data   == SubSeq(body, sum.at + 1, Len(body))
  <1>1. OpenAnswer(z) =
          IF Len(z) < TooSmall                    THEN [code |-> 2, data |-> z]
          ELSE IF spaces = {}                     THEN [code |-> 3, data |-> z]
          ELSE IF n = {}                          THEN [code |-> 7, data |-> z]
          ELSE IF size <= 0 \/ size > MaxAnswer   THEN [code |-> 4, data |-> z]
          ELSE IF at + size > Len(z)              THEN [code |-> 5, data |-> z]
          ELSE IF ~SumHolds(sum.word, data)       THEN [code |-> 6, data |-> data]
          ELSE IF data \in ErrorText              THEN [code |-> 7, data |-> data]
          ELSE [code |-> 0, data |-> data]
    BY DEF OpenAnswer
  <1> DEFINE k == Len(Printed(c)) + 1
             x == SubSeq(z, k + 1, k + Size(c))
  <1>2. /\ k \in 2..Len(z) /\ k + Size(c) = Len(z) /\ Size(c) > 0
        /\ z[k] = Space /\ \A i \in 1..k - 1 : z[i] # Space
        /\ SubSeq(z, 1, k - 1) = Printed(c)
        /\ Stoll(Printed(c)) = {Size(c)}
        /\ NextSimb(x, 0, Space) = [word |-> Digest(c), at |-> SumLen + 1]
        /\ Len(x) = Size(c)
        /\ SubSeq(x, SumLen + 1 + 1, Len(x)) = c
    BY Whole
  <1>3. z \in Seq(Int) /\ Size(c) \in Nat
    BY FramePlaces
  <1> HIDE DEF k, x
  <1>4. spaces = {i \in 1..Len(z) : z[i] = Space}
    BY <1>3 DEF Places
  <1>5. at = k
    <2>1. k \in spaces /\ spaces \in SUBSET Nat
      BY <1>2, <1>4
    <2>2. ASSUME NEW y \in spaces PROVE k <= y
      <3>1. y \in 1..Len(z) /\ z[y] = Space /\ ~(y \in 1..k - 1)
        BY <1>2, <1>4
      <3> QED
        BY <1>2, <3>1
    <2> HIDE DEF spaces
    <2> QED
      BY <2>1, <2>2, MinIs
  <1>6. spaces # {}
    BY <1>2, <1>4
  <1> HIDE DEF spaces, at
  <1>7. n = {Size(c)} /\ size = Size(c)
    <2>1. (CHOOSE v \in {Size(c)} : TRUE) = Size(c)
      OBVIOUS
    <2> QED
      BY <1>2, <1>5, <2>1
  <1>8. body = x
    BY <1>5, <1>7 DEF x
  <1> HIDE DEF n, size, body
  <1>9. sum.word = Digest(c) /\ data = c
    <2>1. sum = NextSimb(x, 0, Space) /\ data = SubSeq(body, sum.at + 1, Len(body))
      BY <1>8
    <2> HIDE DEF sum, data
    <2>2. sum.word = Digest(c) /\ sum.at = SumLen + 1
      BY <1>2, <2>1
    <2>3. data = SubSeq(x, SumLen + 1 + 1, Len(x))
      BY <1>8, <2>1, <2>2
    <2> QED
      BY <1>2, <2>2, <2>3
  <1> HIDE DEF sum, data
  <1>10. SumHolds(sum.word, data)
    BY <1>9 DEF SumHolds
  <1>11. ~(size <= 0) /\ ~(size > MaxAnswer) /\ ~(at + size > Len(z)) /\ n # {}
    <2>1. ~(at + size > Len(z))
      BY <1>2, <1>3, <1>5, <1>7
    <2>2. ~(size <= 0)
      BY <1>2, <1>3, <1>7
    <2> QED
      BY <1>7, <2>1, <2>2
  <1> QED
    BY <1>1, <1>6, <1>9, <1>10, <1>11

\* A frame is one of its contents.
LEMMA FrameOf ==
    ASSUME NEW c
    PROVE  Framed(Frame(c), c)
  BY DEF Framed, Frame, Line2

\* The beginning of a text has arrived of it.
LEMMA BeginningArrives ==
    ASSUME NEW z \in Seq(Int), NEW k \in 0..Len(z)
    PROVE  Arrived(SubSeq(z, 1, k), z)
  <1> DEFINE s == SubSeq(z, 1, k)
  <1>1. k \in Nat /\ k <= Len(z)
    OBVIOUS
  <1>3. s \in Seq(Int) /\ Len(s) = k /\ \A j \in 1..k : s[j] = z[j]
    BY <1>1, BeginningHas
  <1> HIDE DEF s
  <1>4. Arrived(s, z)
    BY <1>1, <1>3 DEF Arrived
  <1> QED
    BY <1>4 DEF s

\* And so has the text with one byte changed.
LEMMA ChangedArrives ==
    ASSUME NEW z \in Seq(Int), NEW i \in DOMAIN z, NEW b \in Int
    PROVE  Arrived([z EXCEPT ![i] = b], z)
  <1> DEFINE s == [z EXCEPT ![i] = b]
  <1>1. i \in 1..Len(z)
    OBVIOUS
  <1>2. s \in Seq(Int) /\ Len(s) = Len(z)
    BY <1>1
  <1>3. \A j \in 1..Len(z) : j # i => s[j] = z[j]
    BY <1>1
  <1> HIDE DEF s
  <1>4. Arrived(s, z)
    BY <1>1, <1>2, <1>3 DEF Arrived
  <1> QED
    BY <1>4 DEF s

\* What is left of a text before its first zero byte has arrived of it.
LEMMA ClearedArrives ==
    ASSUME NEW z \in Seq(Int)
    PROVE  Arrived(Cleared(z), z)
  <1> DEFINE T == {i \in DOMAIN z : z[i] = Zero} \cup {Len(z) + 1}
             e == Min(T) - 1
  <1>1. T \in SUBSET Nat /\ T # {} /\ \A y \in T : y \in 1..Len(z) + 1
    OBVIOUS
  <1>2. Cleared(z) = SubSeq(z, 1, e)
    BY DEF Cleared, Before
  <1> HIDE DEF T
  <1>3. Min(T) \in T
    BY <1>1, MinIsLeast
  <1>4. e \in 0..Len(z)
    <2>1. Min(T) \in 1..Len(z) + 1
      BY <1>1, <1>3
    <2> QED
      BY <2>1
  <1> HIDE DEF e
  <1> QED
    BY <1>2, <1>4, BeginningArrives

\* What the frame of a request is about.
Content(uid, data) == Line2(Decimal(uid), data)

\* The frames of answers and requests are such as the lemmas speak of.
LEMMA AnswerFramed ==
    ASSUME SumsAreWords, NEW data \in Payloads
    PROVE  /\ data \in Seq(Int) /\ IsSum(Digest(data)) /\ Len(Printed(data)) < SumLen
           /\ Framed(Frame(data), data) /\ Frame(data) \in Seq(Int)
           /\ ~(Len(Frame(data)) < TooSmall) /\ ~(Size(data) > MaxAnswer)
  <1>1. data \in Seq(Int)
    BY RequestAssumption
  <1>2. IsSum(Digest(data)) /\ SumLen \in Nat /\ TooSmall \in Nat /\ MaxAnswer \in Nat
    BY <1>1, FrameAssumption DEF SumsAreWords
  <1>3. Framed(Frame(data), data)
    BY FrameOf
  <1>4. Frame(data) \in Seq(Int) /\ Size(data) \in Nat
    BY <1>1, <1>2, <1>3, FramePlaces
  <1>5. TooSmall <= Len(Frame(data)) /\ Size(data) <= MaxAnswer
    BY FrameAssumption DEF Size
  <1>6. Len(Printed(data)) < SumLen
    BY FrameAssumption DEF Framable, Size, Printed
  <1>7. Len(Frame(data)) \in Nat
    BY <1>4
  <1>8. ~(Len(Frame(data)) < TooSmall) /\ ~(Size(data) > MaxAnswer)
    BY <1>2, <1>4, <1>5, <1>7
  <1> QED
    BY <1>1, <1>2, <1>3, <1>4, <1>6, <1>8

LEMMA RequestFramed ==
    ASSUME SumsAreWords, NEW uid \in Uids, NEW data \in Payloads
    PROVE  LET c == Content(uid, data)
           IN  /\ uid \in Int /\ data \in Seq(Int) /\ c \in Seq(Int)
               /\ IsSum(Digest(c)) /\ Len(Printed(c)) < SumLen
               /\ Framed(Frame(c), c) /\ Frame(c) \in Seq(Int)
               /\ RequestFrame(uid, data) = Frame(c)
  <1> DEFINE c == Content(uid, data)
  <1>1. uid \in Int /\ data \in Seq(Int)
    BY RequestAssumption
  <1>2. c \in Seq(Int)
    BY <1>1, RequestContents DEF Content
  <1>3. RequestFrame(uid, data) = Frame(c) /\ Decimal(uid) \o <<Space>> \o data = c
    BY DEF RequestFrame, Content, Line2
  <1> HIDE DEF c
  <1>4. IsSum(Digest(c)) /\ SumLen \in Nat
    BY <1>2, FrameAssumption DEF SumsAreWords
  <1>5. Framed(Frame(c), c)
    BY FrameOf
  <1>6. Frame(c) \in Seq(Int)
    BY <1>2, <1>4, <1>5, FramePlaces
  <1>7. Framable(c)
    BY <1>3, FrameAssumption
  <1>8. Len(Printed(c)) < SumLen
    BY <1>7 DEF Framable, Size, Printed
  <1> QED
    BY <1>1, <1>2, <1>3, <1>4, <1>5, <1>6, <1>8 DEF c

\* What was framed, what has arrived of it, and what its reader made of that.
SendInv ==
    job.kind = "send" =>
        \E uid \in Uids, data \in Payloads :
            /\ job.parts = [uid |-> uid, data |-> data]
            /\ job.sent = RequestFrame(uid, data)
            /\ Arrived(wire, job.sent)
            /\ got = <<>> \/ got = <<OpenRequest(wire)>>

ReplyInv ==
    job.kind = "reply" =>
        /\ job.parts \in Payloads
        /\ job.sent = Frame(job.parts)
        /\ Arrived(wire, job.sent)
        /\ got = <<>> \/ got = <<OpenAnswer(wire)>>

FrameInv == SendInv /\ ReplyInv

FrameKinds == {"send", "reply"}

\* The rest of the texts are nothing to it.
LEMMA NotFramed ==
    ASSUME job'.kind \notin FrameKinds
    PROVE  FrameInv'
  BY DEF FrameInv, SendInv, ReplyInv, FrameKinds

\* What has been sent has arrived.
LEMMA AllArrives ==
    ASSUME NEW z \in Seq(Int)
    PROVE  Arrived(z, z)
  BY DEF Arrived

LEMMA WritingKeepsFrames ==
    ASSUME SumsAreWords, Writing
    PROVE  FrameInv'
  <1>1. ASSUME NEW kind, NEW parts, NEW bytes, kind \notin FrameKinds, Write(kind, parts, bytes)
        PROVE  FrameInv'
    <2>1. job'.kind = kind
      BY <1>1, Written
    <2> QED
      BY <1>1, <2>1, NotFramed
  <1>2. ASSUME NEW uid \in Uids, NEW data \in Payloads, Send(uid, data) PROVE FrameInv'
    <2> DEFINE parts == [uid |-> uid, data |-> data]
               z == RequestFrame(uid, data)
    <2>1. z \in Seq(Int)
      BY RequestFramed
    <2>2. Write("send", parts, z)
      BY <1>2 DEF Send
    <2> HIDE DEF parts, z
    <2>3. job'.kind = "send" /\ job'.parts = parts /\ job'.sent = z /\ wire' = z /\ got' = <<>>
      BY <2>2, Written
    <2>4. Arrived(wire', job'.sent)
      BY <2>1, <2>3, AllArrives
    <2>5. SendInv'
      BY <2>3, <2>4 DEF SendInv, parts, z
    <2>6. ReplyInv'
      BY <2>3 DEF ReplyInv
    <2> QED
      BY <2>5, <2>6 DEF FrameInv
  <1>3. ASSUME NEW data \in Payloads, Reply(data) PROVE FrameInv'
    <2> DEFINE z == Frame(data)
    <2>1. z \in Seq(Int)
      BY AnswerFramed
    <2>2. Write("reply", data, z)
      BY <1>3 DEF Reply
    <2> HIDE DEF z
    <2>3. job'.kind = "reply" /\ job'.parts = data /\ job'.sent = z /\ wire' = z /\ got' = <<>>
      BY <2>2, Written
    <2>4. Arrived(wire', job'.sent)
      BY <2>1, <2>3, AllArrives
    <2>5. ReplyInv'
      BY <2>3, <2>4 DEF ReplyInv, z
    <2>6. SendInv'
      BY <2>3 DEF SendInv
    <2> QED
      BY <2>5, <2>6 DEF FrameInv
  <1>4. ASSUME NEW r, Ask(r) PROVE FrameInv'
    BY <1>1, <1>4 DEF Ask, FrameKinds
  <1>5. ASSUME NEW peers, TellPeer(peers) PROVE FrameInv'
    BY <1>1, <1>5 DEF TellPeer, FrameKinds
  <1>6. ASSUME NEW list, NEW own, TellFound(list, own) PROVE FrameInv'
    BY <1>1, <1>6 DEF TellFound, FrameKinds
  <1>7. ASSUME NEW info, SaveInfo(info) PROVE FrameInv'
    BY <1>1, <1>7 DEF SaveInfo, FrameKinds
  <1>8. ASSUME NEW data, NEW key, NEW iv, Encipher(data, key, iv) PROVE FrameInv'
    BY <1>1, <1>8 DEF Encipher, FrameKinds
  <1>9. ASSUME NEW own, NEW other, NEW text, NEW seed, SealFor(text, own, other, seed) PROVE FrameInv'
    BY <1>1, <1>9 DEF SealFor, FrameKinds
  <1>10. ASSUME NEW data, Digests(data) PROVE FrameInv'
    BY <1>1, <1>10 DEF Digests, FrameKinds
  <1>11. ASSUME NEW p, Wrap(p) PROVE FrameInv'
    BY <1>1, <1>11 DEF Wrap, FrameKinds
  <1> QED
    BY <1>2, <1>3, <1>4, <1>5, <1>6, <1>7, <1>8, <1>9, <1>10, <1>11 DEF Writing

\* A frame is cut, cleared or changed once, and then is what has arrived.
LEMMA CarryingKeepsFrames ==
    ASSUME SumsAreWords, FrameInv, Carrying
    PROVE  FrameInv'
  <1>1. ASSUME NEW kinds, NEW bytes, Carry(kinds, bytes),
               job.kind \in FrameKinds => Arrived(bytes, job.sent)
        PROVE  FrameInv'
    <2>1. job' = job /\ wire' = bytes /\ got' = got /\ got = <<>>
      BY <1>1 DEF Carry
    <2>2. SendInv'
      <3> SUFFICES ASSUME job.kind = "send" PROVE SendInv'
        BY <2>1 DEF SendInv
      <3>1. PICK uid \in Uids, data \in Payloads :
              job.parts = [uid |-> uid, data |-> data] /\ job.sent = RequestFrame(uid, data)
        BY DEF FrameInv, SendInv
      <3>2. Arrived(wire', job'.sent)
        BY <1>1, <2>1 DEF FrameKinds
      <3> QED
        BY <2>1, <3>1, <3>2 DEF SendInv
    <2>3. ReplyInv'
      <3> SUFFICES ASSUME job.kind = "reply" PROVE ReplyInv'
        BY <2>1 DEF ReplyInv
      <3>1. job.parts \in Payloads /\ job.sent = Frame(job.parts)
        BY DEF FrameInv, ReplyInv
      <3>2. Arrived(wire', job'.sent)
        BY <1>1, <2>1 DEF FrameKinds
      <3> QED
        BY <2>1, <3>1, <3>2 DEF ReplyInv
    <2> QED
      BY <2>2, <2>3 DEF FrameInv
  <1>2. job.kind \in FrameKinds => job.sent \in Seq(Int)
    <2>1. ASSUME job.kind = "send" PROVE job.sent \in Seq(Int)
      <3>1. PICK uid \in Uids, data \in Payloads : job.sent = RequestFrame(uid, data)
        BY <2>1 DEF FrameInv, SendInv
      <3> QED
        BY <3>1, RequestFramed
    <2>2. ASSUME job.kind = "reply" PROVE job.sent \in Seq(Int)
      <3>1. job.parts \in Payloads /\ job.sent = Frame(job.parts)
        BY <2>2 DEF FrameInv, ReplyInv
      <3> QED
        BY <3>1, AnswerFramed
    <2> QED
      BY <2>1, <2>2 DEF FrameKinds
  <1>3. CASE Clear
    <2>1. Carry({"reply"}, Cleared(wire)) /\ wire = job.sent
      BY <1>3 DEF Clear, Carry
    <2>2. job.kind \in FrameKinds => Arrived(Cleared(wire), job.sent)
      BY <1>2, <2>1, ClearedArrives
    <2> QED
      BY <1>1, <2>1, <2>2
  <1>4. ASSUME NEW n \in DOMAIN wire, CutOff(n) PROVE FrameInv'
    <2> DEFINE kinds == {"send", "reply", "packet"}
    <2>1. Carry(kinds, SubSeq(wire, 1, n)) /\ wire = job.sent /\ n < Len(wire)
      BY <1>4 DEF CutOff, Carry
    <2> HIDE DEF kinds
    <2>2. ASSUME job.kind \in FrameKinds PROVE Arrived(SubSeq(wire, 1, n), job.sent)
      <3>1. wire \in Seq(Int)
        BY <1>2, <2>1, <2>2
      <3>2. n \in 0..Len(wire)
        BY <3>1
      <3> QED
        BY <2>1, <3>1, <3>2, BeginningArrives
    <2> QED
      BY <1>1, <2>1, <2>2
  <1>5. ASSUME NEW i \in DOMAIN wire, NEW c \in Noise, Damage(i, c) PROVE FrameInv'
    <2>1. Carry({"send", "reply"}, [wire EXCEPT ![i] = c]) /\ wire = job.sent
      BY <1>5 DEF Damage, Carry
    <2>2. ASSUME job.kind \in FrameKinds PROVE Arrived([wire EXCEPT ![i] = c], job.sent)
      <3>1. wire \in Seq(Int) /\ c \in Int
        BY <1>2, <2>1, <2>2, FrameAssumption
      <3> QED
        BY <2>1, <3>1, ChangedArrives
    <2> QED
      BY <1>1, <2>1, <2>2
  <1> QED
    BY <1>3, <1>4, <1>5 DEF Carrying

LEMMA ReadingKeepsFrames ==
    ASSUME FrameInv, Reading
    PROVE  FrameInv'
  <1>1. ASSUME NEW kind, NEW result, kind \notin FrameKinds, Read(kind, result)
        PROVE  FrameInv'
    <2>1. job'.kind \notin FrameKinds
      BY <1>1 DEF Read
    <2> QED
      BY <2>1, NotFramed
  <1>2. CASE Receive
    <2>1. job.kind = "send" /\ job' = job /\ wire' = wire /\ got' = <<OpenRequest(wire)>>
      BY <1>2 DEF Receive, Read
    <2>2. SendInv'
      BY <2>1 DEF FrameInv, SendInv
    <2> QED
      BY <2>1, <2>2 DEF FrameInv, ReplyInv
  <1>3. CASE Accept
    <2>1. job.kind = "reply" /\ job' = job /\ wire' = wire /\ got' = <<OpenAnswer(wire)>>
      BY <1>3 DEF Accept, Read
    <2>2. ReplyInv'
      BY <2>1 DEF FrameInv, ReplyInv
    <2> QED
      BY <2>1, <2>2 DEF FrameInv, SendInv
  <1>4. CASE Hear
    BY <1>1, <1>4 DEF Hear, FrameKinds
  <1>5. CASE HearPeer
    BY <1>1, <1>5 DEF HearPeer, FrameKinds
  <1>6. CASE HearFound
    BY <1>1, <1>6 DEF HearFound, FrameKinds
  <1>7. CASE LoadInfo
    BY <1>1, <1>7 DEF LoadInfo, FrameKinds
  <1>8. CASE Unlock
    BY <1>1, <1>8 DEF Unlock, FrameKinds
  <1>9. CASE OpenSeal
    BY <1>1, <1>9 DEF OpenSeal, FrameKinds
  <1>10. CASE Compress
    BY <1>1, <1>10 DEF Compress, FrameKinds
  <1>11. CASE Unwrap
    BY <1>1, <1>11 DEF Unwrap, FrameKinds
  <1> QED
    BY <1>2, <1>3, <1>4, <1>5, <1>6, <1>7, <1>8, <1>9, <1>10, <1>11 DEF Reading

\* What has arrived of a frame is a beginning of it or all of it but for one byte,
\* and its reader reads that.
THEOREM FramesArrive == ASSUME SumsAreWords PROVE Spec => []FrameInv
  <1>1. Init => FrameInv
    BY DEF Init, NoJob, FrameInv, SendInv, ReplyInv
  <1>2. FrameInv /\ [Next]_vars => FrameInv'
    <2> SUFFICES ASSUME FrameInv, [Next]_vars PROVE FrameInv'
      OBVIOUS
    <2>1. CASE Writing
      BY <2>1, WritingKeepsFrames
    <2>2. CASE Carrying
      BY <2>2, CarryingKeepsFrames
    <2>3. CASE Reading
      BY <2>3, ReadingKeepsFrames
    <2>4. CASE Forget
      BY <2>4, NotFramed DEF Forget, NoJob, FrameKinds
    <2>5. CASE UNCHANGED vars
      BY <2>5 DEF vars, FrameInv, SendInv, ReplyInv
    <2> QED
      BY <2>1, <2>2, <2>3, <2>4, <2>5 DEF Next
  <1> QED
    BY <1>1, <1>2, PTL DEF Spec

\* Nothing in what has arrived of a frame has the digest of its contents but they.
NoCollision ==
    /\ job.kind = "send"  => Unlike(wire, Content(job.parts.uid, job.parts.data))
    /\ job.kind = "reply" => Unlike(wire, job.parts)

\* If no text on the wire collides with what was sent, the server takes a request
\* as it was written or not at all, and takes every one that arrives whole: for any
\* uids and payloads, cut anywhere or changed in any byte, those of the size and the
\* digest included.
THEOREM RequestsWholeOrRefused ==
    ASSUME SumsAreWords
    PROVE  Spec => [](NoCollision => RequestWholeOrRefused)
  <1>1. FrameInv => (NoCollision => RequestWholeOrRefused)
    <2> SUFFICES ASSUME FrameInv, NoCollision, Made("send")
                 PROVE  /\ "error" \notin DOMAIN got[1] => got[1] = job.parts
                        /\ wire = job.sent => "error" \notin DOMAIN got[1]
      BY DEF RequestWholeOrRefused
    <2>1. PICK uid \in Uids, data \in Payloads :
            /\ job.parts = [uid |-> uid, data |-> data] /\ job.sent = RequestFrame(uid, data)
            /\ Arrived(wire, job.sent) /\ got = <<OpenRequest(wire)>>
      BY DEF Made, FrameInv, SendInv
    <2> DEFINE c == Content(uid, data)
    <2>2. /\ uid \in Int /\ data \in Seq(Int) /\ c \in Seq(Int)
          /\ IsSum(Digest(c)) /\ Len(Printed(c)) < SumLen
          /\ Framed(Frame(c), c) /\ RequestFrame(uid, data) = Frame(c)
      BY RequestFramed
    <2>3. Stoll(NextSimb(c, 0, Space).word) # {} /\ Opened(c) = [uid |-> uid, data |-> data]
      BY <2>2, RequestContents DEF Content
    <2>4. Unlike(wire, c)
      BY <2>1 DEF Made, NoCollision
    <2> HIDE DEF c
    <2>5. SumLen \in Nat /\ SumLen > 0
      <3>1. SumLen \in Nat
        BY FrameAssumption
      <3>2. Len(Printed(c)) \in Nat
        BY <2>2, <3>1, FramePlaces
      <3> QED
        BY <2>2, <3>1, <3>2
    <2>6. wire \in Seq(Int) /\ got[1] = OpenRequest(wire) /\ Arrived(wire, Frame(c))
      BY <2>1, <2>2 DEF Arrived
    <2>7. "error" \notin DOMAIN got[1] => got[1] = job.parts
      BY <2>1, <2>2, <2>3, <2>4, <2>5, <2>6, ServerTakes
    <2>8. wire = job.sent => "error" \notin DOMAIN got[1]
      <3> SUFFICES ASSUME wire = job.sent PROVE "error" \notin DOMAIN got[1]
        OBVIOUS
      <3>1. OpenRequest(Frame(c)) = Opened(c)
        BY <2>2, <2>3, <2>5, ServerTakesWhole
      <3>2. got[1] = [uid |-> uid, data |-> data]
        BY <2>1, <2>2, <2>3, <2>6, <3>1
      <3> QED
        BY <3>2
    <2> QED
      BY <2>7, <2>8
  <1> QED
    BY <1>1, FramesArrive, PTL

\* And the client takes no answer for another, whatever the server says and wherever
\* the answer is cut or whichever byte of it changes; one that arrives whole it takes, if it is not one of
\* the server's errors.
THEOREM AnswersWholeOrRefused ==
    ASSUME SumsAreWords
    PROVE  Spec => [](NoCollision => AnswerWholeOrRefused)
  <1>1. FrameInv => (NoCollision => AnswerWholeOrRefused)
    <2> SUFFICES ASSUME FrameInv, NoCollision, Made("reply")
                 PROVE  /\ got[1].code = 0 => got[1].data = job.parts
                        /\ wire = job.sent /\ job.parts \notin ErrorText => got[1].code = 0
      BY DEF AnswerWholeOrRefused
    <2> DEFINE c == job.parts
    <2>1. /\ c \in Payloads /\ job.sent = Frame(c)
          /\ Arrived(wire, Frame(c)) /\ got = <<OpenAnswer(wire)>> /\ Unlike(wire, c)
      BY DEF Made, FrameInv, ReplyInv, NoCollision
    <2> HIDE DEF c
    <2>2. /\ c \in Seq(Int) /\ IsSum(Digest(c)) /\ Len(Printed(c)) < SumLen
          /\ Framed(Frame(c), c)
          /\ ~(Len(Frame(c)) < TooSmall) /\ ~(Size(c) > MaxAnswer)
      BY <2>1, AnswerFramed
    <2>3. SumLen \in Nat /\ SumLen > 0
      <3>1. SumLen \in Nat
        BY FrameAssumption
      <3>2. Len(Printed(c)) \in Nat
        BY <2>2, <3>1, FramePlaces
      <3> QED
        BY <2>2, <3>1, <3>2
    <2>4. wire \in Seq(Int) /\ got[1] = OpenAnswer(wire)
      BY <2>1 DEF Arrived
    <2>5. got[1].code = 0 => got[1].data = c
      BY <2>1, <2>2, <2>3, <2>4, ClientTakes
    <2>6. wire = job.sent /\ c \notin ErrorText => got[1].code = 0
      BY <2>1, <2>2, <2>3, <2>4, ClientTakesWhole
    <2> QED
      BY <2>5, <2>6 DEF c
  <1> QED
    BY <1>1, FramesArrive, PTL

-----------------------------------------------------------------------------
(* Keys under RSA *)

\* Bytes are the field of their number, which is smaller for a zero in front.
LEMMA BytesAreField ==
    ASSUME NEW k \in Nat, NEW s \in [1..k -> Byte]
    PROVE  /\ NumberOf(s) \in 0..Power[k] - 1 /\ Field(NumberOf(s), k) = s
           /\ k > 0 /\ s[1] = 0 => NumberOf(s) < Power[k - 1]
  <1> DEFINE OK(l, u) == /\ NumberOf(u) \in 0..Power[l] - 1 /\ Field(NumberOf(u), l) = u
                         /\ l > 0 /\ u[1] = 0 => NumberOf(u) < Power[l - 1]
             G == {l \in Nat : \A u \in [1..l -> Byte] : OK(l, u)}
  <1>1. Base \in Nat \ {0} /\ Byte = 0..Base - 1
    BY ByteIs DEF Byte
  <1>2. \A u : NumberOf(u) = Worth(Base, u)
    <2> HIDE DEF OK, G
    <2> QED
      BY DEF NumberOf, Worth
  <1>3. 0 \in G
    <2> SUFFICES ASSUME NEW u \in [1..0 -> Byte] PROVE OK(0, u)
      OBVIOUS
    <2>1. u = <<>> /\ Power[0] = 1
      BY PowerIs
    <2>2. NumberOf(u) = 0
      BY <1>1, <1>2, <2>1, WorthAppend
    <2>3. Field(0, 0) = <<>>
      BY DEF Field
    <2> QED
      BY <2>1, <2>2, <2>3
  <1>4. ASSUME NEW l \in Nat, l \in G PROVE l + 1 \in G
    <2> SUFFICES ASSUME NEW u \in [1..l + 1 -> Byte] PROVE OK(l + 1, u)
      OBVIOUS
    <2> DEFINE r == [i \in 1..l |-> u[i]]
               d == u[l + 1]
               p == Power[l]
               m == NumberOf(r)
               n == NumberOf(u)
    <2>1. r \in [1..l -> Byte] /\ d \in Byte /\ r \in Seq(Byte) /\ u = Append(r, d)
          /\ (l > 0 => u[1] = r[1]) /\ (l = 0 => d = u[1])
      OBVIOUS
    <2>2. /\ m \in 0..p - 1 /\ Field(m, l) = r
          /\ l > 0 /\ r[1] = 0 => m < Power[l - 1]
      BY <1>4, <2>1
    <2>3. p \in Nat \ {0} /\ Power[l + 1] = Base * p
      BY PowerIs
    <2>4. r \in Seq(Int) /\ d \in 0..Base - 1 /\ d \in Int
      BY <1>1, <2>1, BlockTyped
    <2> HIDE DEF r, d
    <2>5. n = Base * m + d
      BY <1>1, <1>2, <2>1, <2>4, WorthAppend
    <2>6. l = 0 /\ u[1] = 0 => n < Power[0]
      <3> SUFFICES ASSUME l = 0, d = 0 PROVE n < Power[0]
        BY <2>1
      <3>1. Power[0] = 1 /\ m = 0
        BY <2>2, PowerIs
      <3>2. Base * 0 + 0 = 0
        BY <1>1
      <3>3. n = 0
        BY <2>5, <3>1, <3>2
      <3> QED
        BY <3>1, <3>3
    <2> HIDE DEF m, n, p
    <2>7. n \in Int /\ n \div Base = m /\ n % Base = d
      <3>1. n = m * Base + d /\ m \in Int
        BY <1>1, <2>2, <2>3, <2>4, <2>5
      <3>2. (m * Base + d) \div Base = m /\ (m * Base + d) % Base = d
        BY <1>1, <2>4, <3>1, Multiples
      <3>3. m * Base \in Int
        BY <1>1, <3>1
      <3> QED
        BY <2>4, <3>1, <3>2, <3>3
    <2>8. ASSUME NEW q \in Int, m < q PROVE n < Base * q
      <3>1. m \in Int /\ Base * (q - 1 - m) >= 0
        BY <1>1, <2>2, <2>3, <2>8
      <3>2. Base * (q - 1 - m) = Base * q - Base - Base * m /\ Base * q \in Int /\ Base * m \in Int
        BY <1>1, <3>1
      <3> DEFINE y == Base * q
                 z == Base * m
      <3>3. y - Base - z >= 0 /\ y \in Int /\ z \in Int /\ n = z + d
        BY <2>5, <3>1, <3>2
      <3> HIDE DEF y, z
      <3>4. n < y
        BY <1>1, <2>4, <3>3
      <3> QED
        BY <3>4 DEF y
    <2>9. n \in 0..Power[l + 1] - 1
      <3>1. n < Base * p
        BY <2>2, <2>3, <2>8
      <3>2. Base * m >= 0 /\ Base * m \in Int
        BY <1>1, <2>2, <2>3
      <3>3. n >= 0
        BY <2>4, <2>5, <3>2
      <3>4. Base * p \in Int
        BY <1>1, <2>3
      <3> QED
        BY <2>3, <2>7, <3>1, <3>3, <3>4
    <2>10. Field(n, l + 1) = u
      <3>1. Field(n, l + 1) = Append(Field(n \div Base, l), n % Base)
        BY <2>7, FieldGrows
      <3> QED
        BY <2>1, <2>2, <2>7, <3>1
    <2>11. l > 0 /\ u[1] = 0 => n < Power[l]
      <3> SUFFICES ASSUME l > 0, r[1] = 0 PROVE n < Power[l]
        BY <2>1
      <3>1. m < Power[l - 1]
        BY <2>2
      <3>2. l - 1 \in Nat /\ (l - 1) + 1 = l
        OBVIOUS
      <3> DEFINE j == l - 1
      <3>3. Power[j] \in Int /\ Power[j + 1] = Base * Power[j] /\ j + 1 = l
        <4>1. j \in Nat /\ j + 1 = l
          BY <3>2
        <4> HIDE DEF j
        <4>2. Power[j] \in Nat \ {0} /\ Power[j + 1] = Base * Power[j]
          BY <4>1, PowerIs, Zenon
        <4> QED
          BY <4>1, <4>2
      <3> QED
        BY <2>8, <3>1, <3>3
    <2>12. u[1] = 0 => n < Power[(l + 1) - 1]
      <3>1. (l + 1) - 1 = l /\ (l = 0 \/ l > 0)
        OBVIOUS
      <3> QED
        BY <2>6, <2>11, <3>1
    <2> QED
      BY <2>9, <2>10, <2>12 DEF n
  <1>5. Nat \subseteq G
    <2> HIDE DEF G
    <2> QED
      BY <1>3, <1>4, Induction
  <1>6. OK(k, s)
    <2>1. k \in G
      BY <1>5
    <2> HIDE DEF OK
    <2> QED
      BY <2>1
  <1> QED
    BY <1>6

\* One value in a sequence.
LEMMA OneInSequence ==
    ASSUME NEW w
    PROVE  ToSet(SetToSeq({w})) = {w}
  <1> DEFINE F == [1..1 -> {w}]
             f == SetToSeq({w})
  <1>1. Cardinality({w}) = 1
    BY FS_Singleton
  <1>2. [i \in 1..1 |-> w] \in F /\ \A g \in F : IsInjective(g)
    <2>1. [i \in 1..1 |-> w] \in F
      OBVIOUS
    <2>2. ASSUME NEW g \in F PROVE IsInjective(g)
      <3>1. \A a, b \in DOMAIN g : a = b
        OBVIOUS
      <3> QED
        BY <3>1 DEF IsInjective
    <2> QED
      BY <2>1, <2>2
  <1>3. f = CHOOSE g \in F : IsInjective(g)
    BY <1>1 DEF SetToSeq
  <1>4. f \in F
    <2> HIDE DEF F, f
    <2> QED
      BY <1>2, <1>3
  <1> HIDE DEF f
  <1>5. DOMAIN f = 1..1 /\ f[1] = w
    BY <1>4
  <1>6. ToSet(f) = {w}
    BY <1>5 DEF ToSet
  <1> QED
    BY <1>6 DEF f

\* genPair's pairs: moduli of one length in bytes, whatever their bits, a public
\* key that the other side reads as it is, and exponents that undo one another.
LEMMA KeyPairIs ==
    ASSUME NEW key \in KeyPairs
    PROVE  /\ key.n \in Nat \ {0} /\ KeyLen(key) = KeyBits \div ByteBits /\ KeyLen(key) \in Nat \ {0}
           /\ Power[KeyLen(key) - 1] <= key.n /\ key.n < Power[KeyLen(key)]
           /\ Told(key) = [e |-> key.e, n |-> key.n] /\ KeyLen(Told(key)) = KeyLen(key)
           /\ \A m \in 0..key.n - 1 :
                 /\ PowMod(m, key.e, key.n) \in 0..key.n - 1
                 /\ PowMod(PowMod(m, key.e, key.n), key.d, key.n) = m
  <1>1. KeyBits \in Nat /\ KeyBits >= 4 /\ KeyBits # 0 /\ ByteBits > 1 /\ KeyBits % ByteBits = 0
    BY KeyAssumption
  <1>2. PrimesFound(KeyBits)
    BY KeyAssumption DEF PrimesFound
  <1>3. PICK p \in Nat, q \in Nat :
            /\ IsPrime(p) /\ IsPrime(q) /\ p # q /\ p > 2 /\ q > 2
            /\ key = KeyPairOf(p, q) /\ BitsIn(p * q) \in {KeyBits - 1, KeyBits}
    BY <1>1, <1>2, GenPairIs DEF KeyPairs
  <1>4. /\ key.n = p * q /\ key.e \in Nat \ {0} /\ key.d \in Nat \ {0}
        /\ (key.e * key.d) % ((p - 1) * (q - 1)) = 1
    BY <1>3, KeyPairOfIs
  <1>5. key.n \in Nat \ {0}
    <2>1. p * q \in Nat \ {0}
      BY <1>3
    <2> QED
      BY <1>4, <2>1
  <1>6. BitsIn(key.n) \in {KeyBits - 1, KeyBits}
    BY <1>3, <1>4
  <1>7. /\ KeyLen(key) = KeyBits \div ByteBits /\ KeyLen(key) \in Nat \ {0}
        /\ Power[KeyLen(key) - 1] <= key.n /\ key.n < Power[KeyLen(key)]
    BY <1>1, <1>5, <1>6, KeyLenIs
  <1>8. Told(key) = [e |-> key.e, n |-> key.n]
    BY <1>4, <1>5, KeyTextIs DEF Told
  <1>9. KeyLen(Told(key)) = KeyLen(key)
    <2>1. Told(key).n = key.n
      BY <1>8
    <2> QED
      BY <2>1, Zenon DEF KeyLen
  <1>10. ASSUME NEW m \in 0..key.n - 1
         PROVE  /\ PowMod(m, key.e, key.n) \in 0..key.n - 1
                /\ PowMod(PowMod(m, key.e, key.n), key.d, key.n) = m
    <2>1. m \in 0..p * q - 1
      BY <1>4
    <2>2. /\ PowMod(m, key.e, p * q) \in 0..p * q - 1
          /\ PowMod(PowMod(m, key.e, p * q), key.d, p * q) = m
      <3> DEFINE e == key.e
                 d == key.d
      <3>1. e \in Nat \ {0} /\ d \in Nat \ {0} /\ (e * d) % ((p - 1) * (q - 1)) = 1
        BY <1>4
      <3> HIDE DEF e, d
      <3>2. /\ PowMod(m, e, p * q) \in 0..p * q - 1
            /\ PowMod(PowMod(m, e, p * q), d, p * q) = m
        BY <1>3, <2>1, <3>1, RsaUndone
      <3> QED
        BY <3>2 DEF e, d
    <2> QED
      BY <1>4, <2>2
  <1> QED
    BY <1>5, <1>7, <1>8, <1>9, <1>10

\* A number that fits k bytes, and bytes, go to one another.
LEMMA BytesBack ==
    ASSUME NEW k \in Nat, NEW n \in 0..Power[k] - 1
    PROVE  BytesOf(n, k) = {Field(n, k)} /\ NumberOf(Field(n, k)) = n
  <1> DEFINE p == Power[k]
  <1>1. p \in Nat \ {0} /\ n \in Int
    BY PowerIs
  <1> HIDE DEF p
  <1>2. BytesOf(n, k) = {Field(n, k)}
    <2>1. ~(n >= Power[k])
      BY <1>1 DEF p
    <2> QED
      BY <2>1, Zenon DEF BytesOf, Field
  <1>3. n % p = n
    <2>1. n \in 0..p - 1
      BY DEF p
    <2> QED
      BY <1>1, <2>1, SameBelow
  <1>4. NumberOf(Field(n, k)) = n % p
    BY <1>1, NumberOfField DEF p
  <1> QED
    BY <1>2, <1>3, <1>4

\* w is the text sealed for own, which opens it as a message of other's.
Opens(w, own, other, text, seed) ==
    SealKey(text, Told(own), seed) = {w} /\ OpenKey(w, own, Told(other)) = {text}

\* What was sealed for a pair opens with it, whichever pair the sender has, and
\* the first seed seals it.
THEOREM OpenKeySealed ==
    ASSUME HashesAreDigests, NEW own \in KeyPairs, NEW other \in KeyPairs, NEW text \in Seq(Byte),
           Len(text) <= MaxMessage(own), NEW seed \in [1..HLen -> Byte]
    PROVE  \E w : Opens(w, own, other, text, seed)
  <1> DEFINE k == KeyLen(own)
             n == own.n
  <1>1. /\ n \in Nat \ {0} /\ k \in Nat \ {0} /\ Power[k - 1] <= n /\ n < Power[k]
        /\ Told(own) = [e |-> own.e, n |-> n] /\ KeyLen(Told(own)) = k
    BY KeyPairIs
  <1>2. KeyLen(Told(other)) = k
    BY KeyPairIs
  <1>3. \A m \in 0..n - 1 : /\ PowMod(m, own.e, n) \in 0..n - 1
                            /\ PowMod(PowMod(m, own.e, n), own.d, n) = m
    BY KeyPairIs
  <1>4. Len(text) <= k - 2 * HLen - 2
    BY DEF MaxMessage
  <1> HIDE DEF k, n
  <1>5. PICK em \in [1..k -> Byte] :
            OaepEncode(text, k, seed) = {em} /\ em[1] = 0 /\ OaepDecode(em, k) = {text}
    <2>1. k \in Nat
      BY <1>1
    <2> QED
      BY <1>4, <2>1, OaepDecodeEncode
  <1> DEFINE x == NumberOf(em)
             c == PowMod(x, own.e, n)
             w == Field(c, k)
  <1>6. x \in 0..Power[k] - 1 /\ Field(x, k) = em /\ x < Power[k - 1]
    BY <1>1, <1>5, BytesAreField
  <1>7. Power[k] \in Nat /\ Power[k - 1] \in Nat
    <2>1. k \in Nat /\ k - 1 \in Nat
      BY <1>1
    <2>2. \A j \in Nat : Power[j] \in Nat
      BY PowerIs
    <2> QED
      BY <2>1, <2>2
  <1> HIDE DEF x
  <1>8. x \in 0..n - 1 /\ x < n
    BY <1>1, <1>6, <1>7
  <1>9. c \in 0..n - 1 /\ PowMod(c, own.d, n) = x
    BY <1>3, <1>8
  <1> HIDE DEF c
  <1>10. c \in 0..Power[k] - 1
    BY <1>1, <1>7, <1>9
  <1>11. BytesOf(c, k) = {w} /\ NumberOf(w) = c
    BY <1>1, <1>10, BytesBack
  <1>12. BytesOf(x, k) = {em}
    BY <1>1, <1>6, BytesBack
  <1> HIDE DEF w
  <1>13. SealKey(text, Told(own), seed) = {w}
    <2> DEFINE fitting == {e \in OaepEncode(text, k, seed) : NumberOf(e) < n}
    <2>1. fitting = {em}
      BY <1>5, <1>8 DEF x
    <2>2. SealKey(text, Told(own), seed) = UNION {BytesOf(PowMod(NumberOf(e), own.e, n), k) : e \in fitting}
      <3>1. Told(own).n = n /\ Told(own).e = own.e
        BY <1>1
      <3> QED
        BY <1>1, <3>1, Zenon DEF SealKey
    <2> HIDE DEF fitting
    <2>3. SealKey(text, Told(own), seed) = BytesOf(PowMod(NumberOf(em), own.e, n), k)
      BY <2>1, <2>2
    <2> QED
      BY <1>11, <2>3 DEF c, x
  <1>14. OpenKey(w, own, Told(other)) = {text}
    <2>1. OpenKey(w, own, Told(other)) =
              UNION {OaepDecode(e, k) : e \in {e \in BytesOf(PowMod(NumberOf(w), own.d, n), k) : e[1] = 0}}
      BY <1>2, Zenon DEF OpenKey, n
    <2>2. BytesOf(PowMod(NumberOf(w), own.d, n), k) = {em}
      BY <1>9, <1>11, <1>12
    <2>3. {e \in BytesOf(PowMod(NumberOf(w), own.d, n), k) : e[1] = 0} = {em}
      BY <1>5, <2>2
    <2>4. OpenKey(w, own, Told(other)) = OaepDecode(em, k)
      BY <2>1, <2>3
    <2> QED
      BY <1>5, <2>4
  <1> QED
    BY <1>13, <1>14 DEF Opens

\* A key on its way, sealed with one of the seeds, and what was made of it.
KeyInv ==
    job.kind = "key" =>
        /\ {job.parts.own, job.parts.other} \subseteq KeyPairs /\ job.parts.text \in Seq(Byte)
        /\ Len(job.parts.text) <= MaxMessage(job.parts.own)
        /\ \E seed \in Seeds : wire = SetToSeq(SealKey(job.parts.text, Told(job.parts.own), seed))
        /\ \/ got = <<>>
           \/ got = <<UNION {OpenKey(w, job.parts.own, Told(job.parts.other)) : w \in ToSet(wire)}>>

\* A key is written by SealFor alone.
LEMMA WritingKeepsKeys ==
    ASSUME Writing
    PROVE  KeyInv'
  <1>1. ASSUME NEW kind, NEW parts, NEW bytes, kind # "key", Write(kind, parts, bytes)
        PROVE  KeyInv'
    BY <1>1, Written DEF KeyInv
  <1>2. ASSUME NEW own \in KeyPairs, NEW other \in KeyPairs, NEW text \in KeyTexts, NEW seed \in Seeds,
               SealFor(text, own, other, seed)
        PROVE  KeyInv'
    <2> DEFINE parts == [text |-> text, own |-> own, other |-> other]
    <2>1. Len(text) <= MaxMessage(own) /\ Write("key", parts, SetToSeq(SealKey(text, Told(own), seed)))
      BY <1>2 DEF SealFor
    <2>2. text \in Seq(Byte)
      BY KeyAssumption
    <2>3. parts.text = text /\ parts.own = own /\ parts.other = other
      OBVIOUS
    <2> HIDE DEF parts
    <2>4. /\ job'.kind = "key" /\ job'.parts = parts
          /\ wire' = SetToSeq(SealKey(text, Told(own), seed)) /\ got' = <<>>
      BY <2>1, Written
    <2> QED
      BY <2>1, <2>2, <2>3, <2>4 DEF KeyInv
  <1>3. ASSUME NEW r, Ask(r) PROVE KeyInv'
    BY <1>1, <1>3 DEF Ask
  <1>4. ASSUME NEW peers, TellPeer(peers) PROVE KeyInv'
    BY <1>1, <1>4 DEF TellPeer
  <1>5. ASSUME NEW list, NEW own, TellFound(list, own) PROVE KeyInv'
    BY <1>1, <1>5 DEF TellFound
  <1>6. ASSUME NEW info, SaveInfo(info) PROVE KeyInv'
    BY <1>1, <1>6 DEF SaveInfo
  <1>7. ASSUME NEW uid, NEW data, Send(uid, data) PROVE KeyInv'
    BY <1>1, <1>7 DEF Send
  <1>8. ASSUME NEW data, Reply(data) PROVE KeyInv'
    BY <1>1, <1>8 DEF Reply
  <1>9. ASSUME NEW data, NEW key, NEW iv, Encipher(data, key, iv) PROVE KeyInv'
    BY <1>1, <1>9 DEF Encipher
  <1>10. ASSUME NEW data, Digests(data) PROVE KeyInv'
    BY <1>1, <1>10 DEF Digests
  <1>11. ASSUME NEW p, Wrap(p) PROVE KeyInv'
    BY <1>1, <1>11 DEF Wrap
  <1> QED
    BY <1>2, <1>3, <1>4, <1>5, <1>6, <1>7, <1>8, <1>9, <1>10, <1>11 DEF Writing

\* No network carries it, and no other reader takes it.
LEMMA OthersKeepKeys ==
    ASSUME KeyInv, Carrying \/ Reading
    PROVE  KeyInv'
  <1>1. ASSUME NEW kinds, NEW bytes, "key" \notin kinds, Carry(kinds, bytes) PROVE KeyInv'
    BY <1>1 DEF Carry, KeyInv
  <1>2. ASSUME NEW kind, NEW result, kind # "key", Read(kind, result) PROVE KeyInv'
    BY <1>2 DEF Read, KeyInv
  <1>3. CASE Carrying
    <2>1. CASE Clear
      BY <1>1, <2>1 DEF Clear
    <2>2. ASSUME NEW n, CutOff(n) PROVE KeyInv'
      BY <1>1, <2>2 DEF CutOff
    <2>3. ASSUME NEW i, NEW c, Damage(i, c) PROVE KeyInv'
      BY <1>1, <2>3 DEF Damage
    <2> QED
      BY <1>3, <2>1, <2>2, <2>3 DEF Carrying
  <1>4. CASE OpenSeal
    BY <1>4 DEF OpenSeal, Read, KeyInv
  <1>5. CASE Hear
    BY <1>2, <1>5 DEF Hear
  <1>6. CASE HearPeer
    BY <1>2, <1>6 DEF HearPeer
  <1>7. CASE HearFound
    BY <1>2, <1>7 DEF HearFound
  <1>8. CASE LoadInfo
    BY <1>2, <1>8 DEF LoadInfo
  <1>9. CASE Receive
    BY <1>2, <1>9 DEF Receive
  <1>10. CASE Accept
    BY <1>2, <1>10 DEF Accept
  <1>11. CASE Unlock
    BY <1>2, <1>11 DEF Unlock
  <1>12. CASE Compress
    BY <1>2, <1>12 DEF Compress
  <1>13. CASE Unwrap
    BY <1>2, <1>13 DEF Unwrap
  <1> QED
    BY <1>3, <1>4, <1>5, <1>6, <1>7, <1>8, <1>9, <1>10, <1>11, <1>12, <1>13 DEF Reading

\* Every key on its way was sealed by SealFor, and is read by OpenSeal.
THEOREM KeysAreSealed == Spec => []KeyInv
  <1>1. Init => KeyInv
    BY DEF Init, NoJob, KeyInv
  <1>2. KeyInv /\ [Next]_vars => KeyInv'
    <2> SUFFICES ASSUME KeyInv, [Next]_vars PROVE KeyInv'
      OBVIOUS
    <2>1. CASE Writing
      BY <2>1, WritingKeepsKeys
    <2>2. CASE Carrying \/ Reading
      BY <2>2, OthersKeepKeys
    <2>3. CASE Forget
      BY <2>3 DEF Forget, NoJob, KeyInv
    <2>4. CASE UNCHANGED vars
      BY <2>4 DEF vars, KeyInv
    <2> QED
      BY <2>1, <2>2, <2>3, <2>4 DEF Next
  <1> QED
    BY <1>1, <1>2, PTL DEF Spec

\* An AES key sealed for any pair genPair may return opens there, whichever pair
\* the sender has, for every length of the moduli and with the first seed drawn.
THEOREM KeysAreUnsealed == ASSUME HashesAreDigests PROVE Spec => []KeyUnsealed
  <1>1. KeyInv => KeyUnsealed
    <2> SUFFICES ASSUME KeyInv, Made("key") PROVE KeyUnsealed
      BY DEF KeyUnsealed
    <2> DEFINE own   == job.parts.own
               other == job.parts.other
               text  == job.parts.text
    <2>1. /\ own \in KeyPairs /\ other \in KeyPairs /\ text \in Seq(Byte) /\ Len(text) <= MaxMessage(own)
          /\ got[1] = UNION {OpenKey(w, own, Told(other)) : w \in ToSet(wire)}
      BY DEF Made, KeyInv
    <2>2. PICK seed \in Seeds : wire = SetToSeq(SealKey(text, Told(own), seed))
      BY DEF Made, KeyInv
    <2>3. seed \in [1..HLen -> Byte]
      BY KeyAssumption
    <2>4. PICK w : SealKey(text, Told(own), seed) = {w} /\ OpenKey(w, own, Told(other)) = {text}
      <3> HIDE DEF own, other, text
      <3>1. own \in KeyPairs /\ other \in KeyPairs /\ text \in Seq(Byte) /\ Len(text) <= MaxMessage(own)
        BY <2>1
      <3>2. \E w : Opens(w, own, other, text, seed)
        BY <2>3, <3>1, OpenKeySealed
      <3> QED
        BY <3>2 DEF Opens
    <2>5. ToSet(wire) = {w}
      BY <2>2, <2>4, OneInSequence
    <2>6. got[1] = {text}
      <3> HIDE DEF own, other, text
      <3> QED
        BY <2>1, <2>4, <2>5
    <2> QED
      BY <2>6 DEF KeyUnsealed
  <1> QED
    BY <1>1, KeysAreSealed, PTL
=============================================================================
