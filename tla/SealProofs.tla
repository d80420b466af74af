----------------------------- MODULE SealProofs -----------------------------
(***************************************************************************)
(* What the paddings of AES and of SHA-256 promise, for blocks and data of *)
(* every length; that RSA's exponents undo each other, that numbers are    *)
(* read back from their digits, and that OAEP's decoding undoes its        *)
(* encoding, for sizes of every kind.                                      *)
(***************************************************************************)
EXTENDS Seal, SequenceTheorems, FiniteSetTheorems, WellFoundedInduction, TLAPS

-----------------------------------------------------------------------------
(* Induction over data: the library's induction theorems take an operator,  *)
(* which no installed prover can instantiate; a set will do in its place.   *)

\* A set of naturals has a least element.
LEMMA Least ==
    ASSUME NEW T, T \subseteq Nat, NEW b \in T
    PROVE  \E x \in T : \A y \in T : x <= y
  <1> DEFINE B == 0..b
             U == {0..y : y \in T \cap B}
             R == StrictSubsetOrdering(B)
  <1>1. IsFiniteSet(B)
    BY FS_Interval
  <1>2. IsWellFoundedOn(R, SUBSET B)
    BY <1>1, FS_StrictSubsetOrderingWellFounded, FS_FiniteSubsetsOfFinite
  <1>3. U \subseteq SUBSET B /\ U # {}
    OBVIOUS
  <1>4. PICK m \in U : \A o \in U : ~(<<o, m>> \in R)
    <2> HIDE DEF R, U, B
    <2> QED
      BY <1>2, <1>3, WFMin
  <1>5. PICK x \in T \cap B : m = 0..x
    BY <1>4
  <1>6. ASSUME NEW y \in T, y < x PROVE FALSE
    <2>1. y \in B /\ 0..y \in U
      BY <1>6
    <2>2. 0..y # 0..x /\ 0..y \subseteq 0..x
      BY <1>6
    <2>3. <<0..y, 0..x>> \in R
      BY <1>3, <2>1, <2>2, <1>5 DEF StrictSubsetOrdering
    <2> QED
      BY <2>1, <2>3, <1>4, <1>5
  <1> QED
    BY <1>5, <1>6

\* A set that holds zero and every successor holds the naturals.
LEMMA Induction ==
    ASSUME NEW G, 0 \in G, \A n \in Nat : n \in G => n + 1 \in G
    PROVE  Nat \subseteq G
  <1> SUFFICES ASSUME NEW b \in Nat \ G PROVE FALSE
    OBVIOUS
  <1>1. PICK x \in Nat \ G : \A y \in Nat \ G : x <= y
    BY Least
  <1>2. x # 0 /\ x - 1 \in Nat /\ x - 1 \in G
    BY <1>1
  <1> QED
    BY <1>1, <1>2

\* A set of naturals below a bound has a greatest element, which is its Max.
LEMMA Greatest ==
    ASSUME NEW b \in Nat, NEW T \in SUBSET (1..b), T # {}
    PROVE  Max(T) \in T /\ \A y \in T : y <= Max(T)
  <1> DEFINE U == {b - y : y \in T}
  <1>1. U \subseteq Nat /\ U # {}
    <2>1. \A y \in T : y \in 1..b /\ b - y \in Nat
      OBVIOUS
    <2> QED
      BY <2>1
  <1>2. PICK u \in U : \A v \in U : u <= v
    <2> HIDE DEF U
    <2> QED
      BY <1>1, Least
  <1>3. PICK x \in T : u = b - x
    BY <1>2
  <1>4. \A y \in T : x >= y
    <2>1. ASSUME NEW y \in T PROVE x >= y
      <3>1. b - x <= b - y
        BY <1>2, <1>3
      <3>2. x \in 1..b /\ y \in 1..b
        OBVIOUS
      <3> QED
        BY <3>1, <3>2
    <2> QED
      BY <2>1
  <1>5. x \in T /\ T \subseteq Int
    OBVIOUS
  <1> QED
    BY <1>4, <1>5 DEF Max

\* And its Min is its least.
LEMMA MinIsLeast ==
    ASSUME NEW T \in SUBSET Nat, T # {}
    PROVE  Min(T) \in T /\ \A y \in T : Min(T) <= y
  <1>1. PICK x \in T : \A y \in T : x <= y
    BY Least
  <1> QED
    BY <1>1 DEF Min
-----------------------------------------------------------------------------
(* Functions defined step by step *)

\* F makes the next value of a number and the value before.
StepOf(F, V) == F \in [Nat \X V -> V]

\* The first n steps from v on, each made by F of its number and the step before.
Path(n, g, v, F, V) ==
    /\ g \in [0..n -> V] /\ g[0] = v
    /\ \A i \in 0..n - 1 : g[i + 1] = F[<<i, g[i]>>]

\* There are steps of every number.
LEMMA PathExists ==
    ASSUME NEW V, NEW v, NEW F, v \in V, StepOf(F, V), NEW n \in Nat
    PROVE  \E g : Path(n, g, v, F, V)
  <1> DEFINE G == {k \in Nat : \E g : Path(k, g, v, F, V)}
  <1>1. 0 \in G
    <2>1. Path(0, [i \in 0..0 |-> v], v, F, V)
      BY DEF Path
    <2> QED
      BY <2>1
  <1>2. ASSUME NEW k \in Nat, k \in G PROVE k + 1 \in G
    <2>1. PICK g : Path(k, g, v, F, V)
      BY <1>2
    <2> DEFINE x == F[<<k, g[k]>>]
               h == [i \in 0..k + 1 |-> IF i = k + 1 THEN x ELSE g[i]]
    <2>2. x \in V
      <3>1. g[k] \in V
        BY <2>1 DEF Path
      <3> QED
        BY <3>1 DEF StepOf
    <2> HIDE DEF x
    <2>3. h \in [0..k + 1 -> V]
      <3>1. ASSUME NEW i \in 0..k + 1, i # k + 1 PROVE g[i] \in V
        <4>1. i \in 0..k
          BY <3>1
        <4> QED
          BY <2>1, <4>1 DEF Path
      <3> QED
        BY <2>2, <3>1
    <2>4. h[0] = v
      BY <2>1 DEF Path
    <2>5. ASSUME NEW i \in 0..(k + 1) - 1 PROVE h[i + 1] = F[<<i, h[i]>>]
      <3>1. i \in 0..k /\ i \in 0..k + 1 /\ i # k + 1 /\ i + 1 \in 0..k + 1 /\ h[i] = g[i]
        OBVIOUS
      <3>2. CASE i = k
        BY <3>1, <3>2 DEF x
      <3>3. CASE i # k
        <4>1. i \in 0..k - 1 /\ i + 1 # k + 1
          BY <3>1, <3>3
        <4>2. g[i + 1] = F[<<i, g[i]>>]
          BY <2>1, <4>1 DEF Path
        <4>3. h[i + 1] = g[i + 1]
          BY <3>1, <4>1
        <4> QED
          BY <3>1, <4>2, <4>3
      <3> QED
        BY <3>2, <3>3
    <2> HIDE DEF h
    <2>6. Path(k + 1, h, v, F, V)
      BY <2>3, <2>4, <2>5 DEF Path
    <2> QED
      BY <2>6
  <1>3. Nat \subseteq G
    <2> HIDE DEF G
    <2> QED
      BY <1>1, <1>2, Induction
  <1> QED
    BY <1>3

\* Any two paths agree where both go.
LEMMA PathsAgree ==
    ASSUME NEW V, NEW v, NEW F, NEW n \in Nat, NEW m \in Nat, NEW k \in Nat, k <= n, k <= m,
           NEW g, NEW h, Path(n, g, v, F, V), Path(m, h, v, F, V)
    PROVE  g[k] = h[k]
  <1> DEFINE G == {i \in Nat : i <= k => g[i] = h[i]}
  <1>1. 0 \in G
    BY DEF Path
  <1>2. ASSUME NEW i \in Nat, i \in G PROVE i + 1 \in G
    <2> SUFFICES ASSUME i + 1 <= k PROVE g[i + 1] = h[i + 1]
      OBVIOUS
    <2>1. i \in 0..n - 1 /\ i \in 0..m - 1 /\ g[i] = h[i]
      BY <1>2
    <2> QED
      BY <2>1 DEF Path
  <1>3. Nat \subseteq G
    <2> HIDE DEF G
    <2> QED
      BY <1>1, <1>2, Induction
  <1> QED
    BY <1>3

\* All the steps.
Goes(g, v, F, V) == g \in [Nat -> V] /\ g[0] = v /\ \A i \in Nat : g[i + 1] = F[<<i, g[i]>>]

\* A function over the naturals may be defined step by step.
LEMMA Recursion ==
    ASSUME NEW V, NEW v, NEW F, v \in V, StepOf(F, V)
    PROVE  \E g : Goes(g, v, F, V)
  <1> DEFINE g == [n \in Nat |-> (CHOOSE h : Path(n, h, v, F, V))[n]]
  <1>1. ASSUME NEW n \in Nat, NEW m \in Nat, NEW h, Path(m, h, v, F, V), n <= m
        PROVE  g[n] = h[n]
    <2> DEFINE f == CHOOSE f : Path(n, f, v, F, V)
    <2>1. g[n] = f[n]
      OBVIOUS
    <2>2. Path(n, f, v, F, V)
      BY PathExists
    <2> HIDE DEF f
    <2>3. f[n] = h[n]
      <3>1. n <= n /\ n <= m /\ Path(m, h, v, F, V)
        BY <1>1
      <3> HIDE DEF g
      <3> QED
        BY <2>2, <3>1, PathsAgree
    <2> QED
      BY <2>1, <2>3
  <1> HIDE DEF g
  <1>2. ASSUME NEW n \in Nat PROVE g[n] \in V /\ g[0] = v /\ g[n + 1] = F[<<n, g[n]>>]
    <2>1. PICK h : Path(n + 1, h, v, F, V)
      <3>1. n + 1 \in Nat
        OBVIOUS
      <3> QED
        BY <3>1, PathExists
    <2>2. g[n] = h[n] /\ g[n + 1] = h[n + 1] /\ g[0] = h[0]
      <3>1. n + 1 \in Nat /\ 0 \in Nat /\ n <= n + 1 /\ n + 1 <= n + 1 /\ 0 <= n + 1
        OBVIOUS
      <3> QED
        BY <1>1, <2>1, <3>1
    <2>3. n \in 0..n + 1 /\ n \in 0..(n + 1) - 1
      OBVIOUS
    <2> QED
      BY <2>1, <2>2, <2>3 DEF Path
  <1>3. g \in [Nat -> V]
    <2>1. g = [n \in Nat |-> g[n]]
      BY DEF g
    <2> QED
      BY <1>2, <2>1
  <1> QED
    BY <1>2, <1>3 DEF Goes
-----------------------------------------------------------------------------
(* Powers *)

\* g holds the powers of b.
Powers(b, g) == g \in [Nat -> Int] /\ g[0] = 1 /\ \A k \in Nat : g[k + 1] = b * g[k]

\* Every number has them.
LEMMA PowersExist ==
    ASSUME NEW b \in Int
    PROVE  \E g : Powers(b, g)
  <1> DEFINE F == [nx \in Nat \X Int |-> b * nx[2]]
  <1>1. StepOf(F, Int)
    BY DEF StepOf
  <1>2. \A k \in Nat, x \in Int : F[<<k, x>>] = b * x
    OBVIOUS
  <1> HIDE DEF F
  <1>3. PICK g : Goes(g, 1, F, Int)
    BY <1>1, Recursion
  <1>4. g \in [Nat -> Int] /\ g[0] = 1 /\ \A k \in Nat : g[k + 1] = F[<<k, g[k]>>]
    BY <1>3 DEF Goes
  <1>5. ASSUME NEW k \in Nat PROVE g[k + 1] = b * g[k]
    BY <1>2, <1>4
  <1> QED
    BY <1>4, <1>5 DEF Powers

\* They are the same, however they are come by.
LEMMA PowersAgree ==
    ASSUME NEW b \in Int, NEW g, Powers(b, g), NEW h, Powers(b, h), NEW k \in Nat
    PROVE  g[k] = h[k]
  <1> DEFINE G == {n \in Nat : g[n] = h[n]}
  <1>1. 0 \in G /\ \A n \in Nat : n \in G => n + 1 \in G
    BY DEF Powers
  <1> HIDE DEF G
  <1>2. Nat \subseteq G
    BY <1>1, Induction
  <1> QED
    BY <1>2 DEF G

\* Powers of a number that is positive are positive.
LEMMA PowersPositive ==
    ASSUME NEW b \in Nat \ {0}, NEW g, Powers(b, g), NEW k \in Nat
    PROVE  g[k] \in Nat \ {0}
  <1> DEFINE G == {n \in Nat : g[n] \in Nat \ {0}}
  <1>1. 0 \in G
    BY DEF Powers
  <1>2. ASSUME NEW n \in Nat, n \in G PROVE n + 1 \in G
    <2>1. g[n] \in Nat \ {0} /\ g[n + 1] = b * g[n]
      BY <1>2 DEF Powers
    <2>2. b * g[n] \in Nat \ {0}
      BY <2>1
    <2> QED
      BY <2>1, <2>2
  <1> HIDE DEF G
  <1>3. Nat \subseteq G
    BY <1>1, <1>2, Induction
  <1> QED
    BY <1>3 DEF G

\* Exponents are added where powers are multiplied.
LEMMA PowersAdd ==
    ASSUME NEW b \in Int, NEW g, Powers(b, g), NEW i \in Nat, NEW j \in Nat
    PROVE  g[i + j] = g[i] * g[j]
  <1> DEFINE G == {n \in Nat : g[i + n] = g[i] * g[n]}
  <1>1. 0 \in G
    <2>1. g[i] \in Int /\ g[0] = 1 /\ i + 0 = i
      BY DEF Powers
    <2> QED
      BY <2>1
  <1>2. ASSUME NEW n \in Nat, n \in G PROVE n + 1 \in G
    <2>1. g[i + n] = g[i] * g[n] /\ i + (n + 1) = (i + n) + 1 /\ i + n \in Nat
      BY <1>2
    <2>2. g[(i + n) + 1] = b * g[i + n] /\ g[n + 1] = b * g[n] /\ g[i] \in Int /\ g[n] \in Int
      BY <2>1 DEF Powers
    <2>3. b * (g[i] * g[n]) = g[i] * (b * g[n])
      BY <2>2
    <2> QED
      BY <2>1, <2>2, <2>3
  <1> HIDE DEF G
  <1>3. Nat \subseteq G
    BY <1>1, <1>2, Induction
  <1> QED
    BY <1>3 DEF G

\* TwoTo holds the powers of two.
LEMMA TwoToIs == Powers(2, TwoTo) /\ \A k \in Nat : TwoTo[k] \in Nat \ {0}
  <1> DEFINE Reads(f) == f = [k \in Nat |-> IF k = 0 THEN 1 ELSE 2 * f[k - 1]]
  <1>1. PICK g : Powers(2, g)
    BY PowersExist
  <1>2. Reads(g)
    <2>1. ASSUME NEW k \in Nat, k # 0 PROVE g[k] = 2 * g[k - 1]
      <3>1. k - 1 \in Nat /\ (k - 1) + 1 = k
        BY <2>1
      <3>2. g[(k - 1) + 1] = 2 * g[k - 1]
        BY <1>1, <3>1 DEF Powers
      <3> QED
        BY <3>1, <3>2
    <2>2. g = [k \in Nat |-> g[k]] /\ g[0] = 1
      BY <1>1 DEF Powers
    <2> QED
      BY <2>1, <2>2
  <1>3. TwoTo = CHOOSE f : Reads(f)
    BY DEF TwoTo
  <1>4. Reads(TwoTo)
    <2> HIDE DEF Reads
    <2> QED
      BY <1>2, <1>3
  <1>5. \A k \in Nat : TwoTo[k] = IF k = 0 THEN 1 ELSE 2 * TwoTo[k - 1]
    BY <1>4
  <1>6. TwoTo = [k \in Nat |-> TwoTo[k]]
    BY <1>4
  <1> DEFINE G == {k \in Nat : TwoTo[k] \in Nat \ {0}}
  <1>7. 0 \in G
    BY <1>5
  <1>8. ASSUME NEW k \in Nat PROVE TwoTo[k + 1] = 2 * TwoTo[k]
    <2>1. k + 1 \in Nat /\ k + 1 # 0 /\ (k + 1) - 1 = k
      OBVIOUS
    <2> QED
      BY <1>5, <2>1
  <1>9. ASSUME NEW k \in Nat, k \in G PROVE k + 1 \in G
    BY <1>8, <1>9
  <1> HIDE DEF G, Reads
  <1>10. Nat \subseteq G
    BY <1>7, <1>9, Induction
  <1>11. \A k \in Nat : TwoTo[k] \in Nat \ {0}
    BY <1>10 DEF G
  <1>12. TwoTo \in [Nat -> Int] /\ TwoTo[0] = 1
    BY <1>5, <1>6, <1>11
  <1> QED
    BY <1>8, <1>11, <1>12 DEF Powers

\* Of two powers of two the one with the larger exponent is larger.
LEMMA TwoToGrows ==
    ASSUME NEW i \in Nat, NEW j \in Nat, i <= j
    PROVE  TwoTo[i] <= TwoTo[j]
  <1>1. j - i \in Nat /\ i + (j - i) = j
    OBVIOUS
  <1>2. TwoTo[j] = TwoTo[i] * TwoTo[j - i]
    BY <1>1, TwoToIs, PowersAdd
  <1>3. TwoTo[i] \in Nat \ {0} /\ TwoTo[j - i] \in Nat \ {0}
    BY <1>1, TwoToIs
  <1> DEFINE a == TwoTo[i]
             b == TwoTo[j - i]
  <1> HIDE DEF a, b
  <1>4. a * b >= a
    <2>1. a \in Nat \ {0} /\ b \in Nat \ {0}
      BY <1>3 DEF a, b
    <2>2. a * (b - 1) >= 0 /\ a * (b - 1) = a * b - a
      BY <2>1
    <2>3. a * b \in Int
      BY <2>1
    <2> QED
      BY <2>1, <2>2, <2>3
  <1> QED
    BY <1>2, <1>3, <1>4 DEF a, b

\* Power holds the powers of the number of bytes, none of them zero.
LEMMA PowerIs ==
    /\ Power[0] = 1
    /\ \A k \in Nat : Power[k] \in Nat \ {0} /\ Power[k + 1] = Base * Power[k]
  <1>1. ByteBits \in Nat
    BY SealAssumption
  <1>2. ASSUME NEW k \in Nat PROVE ByteBits * k \in Nat /\ Power[k] = TwoTo[ByteBits * k]
    BY <1>1 DEF Power
  <1>3. Power[0] = 1
    <2>1. 0 \in Nat /\ ByteBits * 0 = 0
      BY <1>1
    <2> QED
      BY <1>2, <2>1, TwoToIs DEF Powers
  <1>4. ASSUME NEW k \in Nat PROVE Power[k + 1] = Base * Power[k]
    <2>1. k + 1 \in Nat /\ ByteBits * (k + 1) = ByteBits + ByteBits * k
      BY <1>1
    <2>2. TwoTo[ByteBits + ByteBits * k] = TwoTo[ByteBits] * TwoTo[ByteBits * k]
      BY <1>1, <1>2, TwoToIs, PowersAdd
    <2> QED
      BY <1>2, <2>1, <2>2 DEF Base
  <1> QED
    BY <1>2, <1>3, <1>4, TwoToIs

-----------------------------------------------------------------------------
(* Sequences put together *)

\* The function FlattenSeq is defined with.
Flattened(ss, f) ==
    f = [i \in 1..Len(ss) |-> IF i = 1 THEN ss[i] ELSE f[i - 1] \o ss[i]]

\* What FlattenSeq yields is the last value of such a function.
LEMMA FlattenIs ==
    ASSUME NEW ss, Len(ss) # 0
    PROVE  FlattenSeq(ss) = (CHOOSE f : Flattened(ss, f))[Len(ss)]
  BY DEF FlattenSeq, Flattened

\* Such a function exists for every sequence of words.
LEMMA FlattenedExists ==
    ASSUME NEW S, NEW ss \in Seq(Seq(S))
    PROVE  \E f : Flattened(ss, f)
  <1> DEFINE G == {n \in Nat : \A u \in Seq(Seq(S)) : Len(u) = n => \E f : Flattened(u, f)}
  <1>1. 0 \in G
    <2>1. ASSUME NEW u \in Seq(Seq(S)), Len(u) = 0
          PROVE  Flattened(u, [i \in 1..Len(u) |-> <<>>])
      BY <2>1 DEF Flattened
    <2> QED
      BY <2>1
  <1>2. ASSUME NEW n \in Nat, n \in G PROVE n + 1 \in G
    <2> SUFFICES ASSUME NEW u \in Seq(Seq(S)), Len(u) = n + 1 PROVE \E f : Flattened(u, f)
      OBVIOUS
    <2> DEFINE r == SubSeq(u, 1, n)
    <2>1. r \in Seq(Seq(S)) /\ Len(r) = n /\ \A i \in 1..n : r[i] = u[i]
      OBVIOUS
    <2>2. PICK h : Flattened(r, h)
      BY <1>2, <2>1
    <2> HIDE DEF r
    <2>3. h = [i \in 1..n |-> IF i = 1 THEN r[i] ELSE h[i - 1] \o r[i]]
      BY <2>1, <2>2 DEF Flattened
    <2> DEFINE f == [i \in 1..n + 1 |-> IF i = n + 1 THEN IF i = 1 THEN u[i] ELSE h[n] \o u[i]
                                        ELSE h[i]]
    <2>4. ASSUME NEW i \in 1..n + 1 PROVE f[i] = IF i = 1 THEN u[i] ELSE f[i - 1] \o u[i]
      <3>1. CASE i = n + 1
        <4>1. i # 1 => i - 1 \in 1..n + 1 /\ i - 1 # n + 1 /\ i - 1 = n
          BY <3>1
        <4> QED
          BY <3>1, <4>1
      <3>2. CASE i # n + 1
        <4>1. i \in 1..n /\ (i # 1 => i - 1 \in 1..n + 1 /\ i - 1 # n + 1)
          BY <3>2
        <4>2. f[i] = h[i] /\ (i # 1 => f[i - 1] = h[i - 1])
          BY <3>2, <4>1
        <4>3. h[i] = IF i = 1 THEN r[i] ELSE h[i - 1] \o r[i]
          BY <2>3, <4>1
        <4> HIDE DEF f
        <4> QED
          BY <2>1, <4>1, <4>2, <4>3
      <3> QED
        BY <3>1, <3>2
    <2>5. f = [i \in 1..n + 1 |-> f[i]]
      OBVIOUS
    <2> HIDE DEF f
    <2>6. Flattened(u, f)
      BY <2>4, <2>5 DEF Flattened
    <2> QED
      BY <2>6
  <1>3. Nat \subseteq G
    <2> HIDE DEF G
    <2> QED
      BY <1>1, <1>2, Induction
  <1> QED
    BY <1>3

\* Two of them agree as long as their sequences do.
LEMMA FlattenedAgree ==
    ASSUME NEW S, NEW ss \in Seq(Seq(S)), NEW uu \in Seq(Seq(S)), NEW f, Flattened(ss, f),
           NEW g, Flattened(uu, g), NEW n \in Nat, n >= 1, n <= Len(ss), n <= Len(uu),
           \A i \in 1..n : ss[i] = uu[i]
    PROVE  f[n] = g[n] /\ f[n] \in Seq(S)
  <1> DEFINE G == {k \in Nat : k + 1 <= n => f[k + 1] = g[k + 1] /\ f[k + 1] \in Seq(S)}
  <1>1. 0 \in G
    <2>1. 1 \in 1..n /\ 1 \in 1..Len(ss) /\ 1 \in 1..Len(uu)
      OBVIOUS
    <2>2. f[1] = ss[1] /\ g[1] = uu[1] /\ ss[1] = uu[1] /\ ss[1] \in Seq(S)
      BY <2>1 DEF Flattened
    <2> QED
      BY <2>2
  <1>2. ASSUME NEW k \in Nat, k \in G PROVE k + 1 \in G
    <2> DEFINE i == k + 2
    <2> SUFFICES ASSUME i <= n PROVE f[i] = g[i] /\ f[i] \in Seq(S)
      <3>1. (k + 1) + 1 = i
        OBVIOUS
      <3> HIDE DEF i
      <3> QED
        BY <3>1
    <2>1. i - 1 = k + 1 /\ k + 1 <= n /\ i \in 1..n /\ i \in 1..Len(ss) /\ i \in 1..Len(uu) /\ i # 1
      OBVIOUS
    <2>2. f[k + 1] = g[k + 1] /\ f[k + 1] \in Seq(S)
      BY <1>2, <2>1
    <2>3. ss[i] = uu[i] /\ ss[i] \in Seq(S)
      BY <2>1
    <2> HIDE DEF i
    <2>4. f[i] = f[i - 1] \o ss[i] /\ g[i] = g[i - 1] \o uu[i]
      BY <2>1 DEF Flattened
    <2>5. f[i] = f[k + 1] \o ss[i] /\ g[i] = f[k + 1] \o ss[i]
      BY <2>1, <2>2, <2>3, <2>4
    <2>6. f[k + 1] \o ss[i] \in Seq(S)
      BY <2>2, <2>3
    <2> QED
      BY <2>5, <2>6
  <1>3. Nat \subseteq G
    <2> HIDE DEF G
    <2> QED
      BY <1>1, <1>2, Induction
  <1>4. n - 1 \in Nat /\ (n - 1) + 1 = n
    OBVIOUS
  <1>5. n - 1 \in G
    <2> HIDE DEF G
    <2> QED
      BY <1>3, <1>4
  <1> QED
    BY <1>4, <1>5

\* FlattenSeq puts sequences together from left to right.
LEMMA FlattenAppendOf ==
    ASSUME NEW S
    PROVE
    /\ FlattenSeq(<<>>) = <<>>
    /\ \A ss \in Seq(Seq(S)) : FlattenSeq(ss) \in Seq(S)
    /\ \A ss \in Seq(Seq(S)), x \in Seq(S) :
            FlattenSeq(Append(ss, x)) = FlattenSeq(ss) \o x
  <1>1. FlattenSeq(<<>>) = <<>>
    BY DEF FlattenSeq
  <1>2. ASSUME NEW ss \in Seq(Seq(S)) PROVE FlattenSeq(ss) \in Seq(S)
    <2>1. CASE Len(ss) = 0
      <3>1. ss = <<>>
        BY <2>1
      <3>2. FlattenSeq(ss) = <<>>
        BY <1>1, <3>1
      <3> QED
        BY <3>2
    <2>2. CASE Len(ss) # 0
      <3> DEFINE f == CHOOSE f : Flattened(ss, f)
                 n == Len(ss)
      <3>1. Flattened(ss, f)
        BY FlattenedExists
      <3>2. FlattenSeq(ss) = f[n]
        BY <2>2, FlattenIs
      <3>3. n \in Nat /\ n >= 1 /\ n <= Len(ss)
        BY <2>2
      <3> HIDE DEF f, n
      <3>4. f[n] \in Seq(S)
        BY <3>1, <3>3, FlattenedAgree
      <3> QED
        BY <3>2, <3>4
    <2> QED
      BY <2>1, <2>2
  <1>3. ASSUME NEW ss \in Seq(Seq(S)), NEW x \in Seq(S)
        PROVE  FlattenSeq(Append(ss, x)) = FlattenSeq(ss) \o x
    <2> DEFINE uu == Append(ss, x)
               g == CHOOSE f : Flattened(uu, f)
               n == Len(ss)
    <2>1. uu \in Seq(Seq(S)) /\ Len(uu) = n + 1 /\ uu[n + 1] = x /\ n \in Nat
          /\ \A i \in 1..n : ss[i] = uu[i]
      OBVIOUS
    <2> HIDE DEF uu
    <2>2. Flattened(uu, g)
      BY <2>1, FlattenedExists
    <2>3. FlattenSeq(uu) = g[n + 1]
      <3>1. Len(uu) # 0
        BY <2>1
      <3>2. FlattenSeq(uu) = g[Len(uu)]
        BY <3>1, FlattenIs
      <3> QED
        BY <2>1, <3>2
    <2> HIDE DEF g
    <2>4. g[n + 1] = IF n + 1 = 1 THEN x ELSE g[(n + 1) - 1] \o x
      <3>1. n + 1 \in 1..Len(uu)
        BY <2>1
      <3> HIDE DEF n
      <3>2. g = [i \in 1..Len(uu) |-> IF i = 1 THEN uu[i] ELSE g[i - 1] \o uu[i]]
        BY <2>2 DEF Flattened
      <3> QED
        BY <2>1, <3>1, <3>2
    <2>5. CASE n = 0
      <3>1. ss = <<>> /\ <<>> \o x = x
        BY <2>5
      <3> QED
        BY <1>1, <2>3, <2>4, <2>5, <3>1 DEF uu
    <2>6. CASE n # 0
      <3> DEFINE f == CHOOSE f : Flattened(ss, f)
      <3>1. Flattened(ss, f)
        BY FlattenedExists
      <3>2. FlattenSeq(ss) = f[n]
        BY <2>6, FlattenIs
      <3>3. n >= 1 /\ n <= Len(ss) /\ n <= Len(uu) /\ (n + 1) - 1 = n /\ n + 1 # 1
        BY <2>1, <2>6
      <3> HIDE DEF f, n
      <3>4. f[n] = g[n]
        <4>1. n \in Nat /\ n >= 1 /\ n <= Len(ss) /\ n <= Len(uu) /\ uu \in Seq(Seq(S))
          BY <2>1, <3>3
        <4>2. \A i \in 1..n : ss[i] = uu[i]
          BY <2>1
        <4> QED
          BY <4>1, <4>2, <2>2, <3>1, FlattenedAgree
      <3> QED
        BY <2>3, <2>4, <3>2, <3>3, <3>4 DEF uu
    <2> QED
      BY <2>5, <2>6
  <1> QED
    BY <1>1, <1>2, <1>3

\* Of words of numbers.
LEMMA FlattenAppend ==
    /\ FlattenSeq(<<>>) = <<>>
    /\ \A ss \in Seq(Seq(Int)) : FlattenSeq(ss) \in Seq(Int)
    /\ \A ss \in Seq(Seq(Int)), x \in Seq(Int) :
            FlattenSeq(Append(ss, x)) = FlattenSeq(ss) \o x
  BY FlattenAppendOf

-----------------------------------------------------------------------------
(* AES: padding *)

\* Padding adds at least one byte and at most a block, each of them the number
\* of those added, and that number is a byte.
LEMMA PaddingLength ==
    ASSUME NEW data \in Seq(Byte)
    PROVE  BlockLen - (Len(data) % BlockLen) \in 1..BlockLen
  <1>1. BlockLen \in Nat \ {0}
    BY SealAssumption
  <1>2. Len(data) \in Nat
    OBVIOUS
  <1>3. Len(data) % BlockLen \in 0..BlockLen - 1
    BY <1>1, <1>2
  <1> QED
    BY <1>1, <1>3

\* The padding is made of bytes.
LEMMA PaddingIsBytes ==
    ASSUME NEW n \in 1..BlockLen
    PROVE  Padding(n) \in Seq(Byte) /\ Len(Padding(n)) = n
           /\ \A i \in 1..n : Padding(n)[i] = n
  <1>1. BlockLen \in Nat /\ Base \in Nat /\ BlockLen <= Base - 1
    <2>1. BlockLen \in 1..Base - 1 /\ ByteBits \in Nat
      BY SealAssumption
    <2>2. Base \in Nat
      BY <2>1, TwoToIs DEF Base
    <2> QED
      BY <2>1, <2>2
  <1>2. n \in Byte /\ n \in Nat
    BY <1>1 DEF Byte
  <1> QED
    BY <1>2 DEF Padding

\* pkcs7_unpad takes away what pkcs7_pad added and nothing else, whatever the
\* data: also when they end in bytes that look like padding themselves.
THEOREM UnpadPad ==
    ASSUME NEW data \in Seq(Byte)
    PROVE  Unpad(Pad(data)) = {data}
  <1> DEFINE n == BlockLen - (Len(data) % BlockLen)
             p == Pad(data)
  <1>1. n \in 1..BlockLen
    BY PaddingLength
  <1>2. /\ Padding(n) \in Seq(Byte) /\ Len(Padding(n)) = n
        /\ \A i \in 1..n : Padding(n)[i] = n
    BY <1>1, PaddingIsBytes
  <1>3. n \in Nat /\ n > 0
    BY <1>1
  <1> HIDE DEF n
  <1>4. p = data \o Padding(n)
    BY DEF Pad, n
  <1> HIDE DEF p
  <1>5. p \in Seq(Byte) /\ Len(p) = Len(data) + n
    <2> DEFINE z == Padding(n)
    <2>1. z \in Seq(Byte) /\ Len(z) = n /\ p = data \o z
      BY <1>2, <1>4
    <2> HIDE DEF z
    <2>2. data \o z \in Seq(Byte) /\ Len(data \o z) = Len(data) + Len(z)
      BY <2>1, ConcatProperties
    <2> QED
      BY <2>1, <2>2
  <1>6. \A i \in 1..Len(data) : p[i] = data[i]
    BY <1>2, <1>4
  <1>7. \A i \in Len(data) + 1..Len(data) + n : p[i] = n
    BY <1>2, <1>3, <1>4
  <1>8. p # <<>> /\ p[Len(p)] = n /\ n # 0 /\ n <= Len(p)
    BY <1>3, <1>5, <1>7
  <1>9. \A i \in Len(p) - n + 1..Len(p) : p[i] = n
    BY <1>3, <1>5, <1>7
  <1>10. SubSeq(p, 1, Len(p) - n) = data
    <2>1. SubSeq(p, 1, Len(p) - n) \in Seq(Byte) /\ Len(SubSeq(p, 1, Len(p) - n)) = Len(data)
      BY <1>3, <1>5
    <2>2. \A i \in 1..Len(data) : SubSeq(p, 1, Len(p) - n)[i] = data[i]
      BY <1>3, <1>5, <1>6
    <2> QED
      BY <2>1, <2>2, SeqEqual
  <1>11. Unpad(p) = {SubSeq(p, 1, Len(p) - n)}
    BY <1>3, <1>5, <1>8, <1>9 DEF Unpad
  <1> QED
    BY <1>10, <1>11 DEF p

-----------------------------------------------------------------------------
\* What adjust_digest keeps is less than a block, and the rest whole blocks.
LEMMA KeptLength ==
    ASSUME NEW len \in Nat
    PROVE  Kept(len) \in 0..HashBlock - 1
  <1>1. HashBlock \in Nat \ {0}
    BY SealAssumption
  <1>2. CASE len < HashBlock
    BY <1>1, <1>2 DEF Kept
  <1>3. CASE ~(len < HashBlock)
    <2>1. len - HashBlock \in Nat
      BY <1>1, <1>3
    <2>2. (len - HashBlock) % HashBlock \in 0..HashBlock - 1
      BY <1>1, <2>1
    <2> QED
      BY <1>3, <2>2 DEF Kept
  <1> QED
    BY <1>2, <1>3

\* digest_final takes the fewest blocks that hold what was kept, the mark's byte
\* and the length: the length never overlaps the mark or the data, and no block
\* is hashed in vain, whatever is left of the last one.
THEOREM LengthHasRoom ==
    ASSUME NEW len \in Nat
    PROVE  LET need == Kept(len) + 1 + LengthBytes
               have == LastBlocks(Kept(len)) * HashBlock
           IN  need <= have /\ have - HashBlock < need
  <1> DEFINE rest == Kept(len)
  <1>1. HashBlock \in Nat /\ LengthBytes \in Nat /\ HashBlock > LengthBytes
    BY SealAssumption
  <1>2. rest \in Nat /\ rest < HashBlock
    BY <1>1, KeptLength
  <1> HIDE DEF rest
  <1>3. rest % HashBlock = rest
    BY <1>1, <1>2
  <1>4. CASE HashBlock - (LengthBytes + 1) < rest
    <2>1. LastBlocks(rest) * HashBlock = HashBlock + HashBlock
      BY <1>1, <1>3, <1>4 DEF LastBlocks
    <2> QED
      BY <1>1, <1>2, <1>4, <2>1 DEF rest
  <1>5. CASE ~(HashBlock - (LengthBytes + 1) < rest)
    <2>1. LastBlocks(rest) * HashBlock = HashBlock
      BY <1>1, <1>3, <1>5 DEF LastBlocks
    <2> QED
      BY <1>1, <1>2, <1>5, <2>1 DEF rest
  <1> QED
    BY <1>4, <1>5

-----------------------------------------------------------------------------
(* AES: chaining *)

\* A multiple of the block's length, and what is left over.
LEMMA Multiples ==
    ASSUME NEW b \in Nat \ {0}, NEW q \in Int, NEW r \in 0..b - 1
    PROVE  (q * b + r) \div b = q /\ (q * b + r) % b = r
  <1> DEFINE x == q * b + r
  <1>1. x \in Int
    <2>1. q * b \in Int
      OBVIOUS
    <2> HIDE DEF x
    <2> QED
      BY <2>1 DEF x
  <1>2. x \div b \in Int /\ x % b \in 0..b - 1 /\ x = b * (x \div b) + (x % b)
    BY <1>1
  <1> DEFINE d == x \div b
             e == x % b
  <1> HIDE DEF d, e
  <1>3. q * b + r = b * d + e /\ d \in Int /\ e \in 0..b - 1
    BY <1>2 DEF d, e
  <1>4. ~(d < q)
    <2> SUFFICES ASSUME d < q PROVE FALSE
      OBVIOUS
    <2>1. b * (q - d) >= b
      BY <1>3
    <2>2. b * (q - d) = q * b - b * d
      BY <1>3
    <2> QED
      BY <1>3, <2>1, <2>2
  <1>5. ~(q < d)
    <2> SUFFICES ASSUME q < d PROVE FALSE
      OBVIOUS
    <2>1. b * (d - q) >= b
      BY <1>3
    <2>2. b * (d - q) = b * d - q * b
      BY <1>3
    <2> QED
      BY <1>3, <2>1, <2>2
  <1>6. d = q
    BY <1>3, <1>4, <1>5
  <1>7. e = r
    BY <1>3, <1>6
  <1> QED
    BY <1>6, <1>7 DEF d, e

\* Whole blocks follow one another.
LEMMA Times ==
    ASSUME NEW b \in Nat, NEW i \in Nat, NEW k \in Nat, i <= k
    PROVE  i * b \in Nat /\ k * b \in Nat /\ i * b <= k * b /\ (i + 1) * b = i * b + b
  <1>1. i * b \in Nat /\ k * b \in Nat /\ (i + 1) * b = i * b + b
    OBVIOUS
  <1>2. (k - i) * b >= 0 /\ (k - i) * b = k * b - i * b
    OBVIOUS
  <1> QED
    BY <1>1, <1>2

\* The places of m blocks of b bytes.
LEMMA PlacesInBlocks ==
    ASSUME NEW b \in Nat \ {0}, NEW m \in Nat
    PROVE  /\ m * b \in Nat
           /\ \A i \in 1..m, j \in 1..b : (i - 1) * b + j \in 1..m * b
           /\ \A x \in 1..m * b : \E i \in 1..m, j \in 1..b : x = (i - 1) * b + j
  <1>1. m * b \in Nat
    OBVIOUS
  <1>2. ASSUME NEW i \in 1..m, NEW j \in 1..b PROVE (i - 1) * b + j \in 1..m * b
    <2>1. i - 1 \in Nat /\ (i - 1) + 1 = i /\ i \in Nat /\ i <= m
      OBVIOUS
    <2>2. (i - 1) * b \in Nat /\ i * b = (i - 1) * b + b /\ i * b <= m * b
      BY <2>1, Times
    <2> QED
      BY <1>1, <2>2
  <1>3. ASSUME NEW x \in 1..m * b PROVE \E i \in 1..m, j \in 1..b : x = (i - 1) * b + j
    <2> DEFINE d == (x - 1) \div b
               e == (x - 1) % b
    <2>1. x - 1 \in Nat
      BY <1>1
    <2>2. d \in Nat /\ e \in 0..b - 1 /\ x - 1 = b * d + e
      BY <2>1
    <2> HIDE DEF d, e
    <2>3. d < m
      <3> SUFFICES ASSUME m <= d PROVE FALSE
        BY <2>2
      <3>1. m * b <= d * b
        BY <2>2, Times
      <3>2. d * b = b * d
        BY <2>2
      <3>3. x <= m * b
        BY <1>1
      <3> HIDE DEF d, e
      <3> QED
        BY <1>1, <2>1, <2>2, <3>1, <3>2, <3>3
    <2>4. d + 1 \in 1..m /\ e + 1 \in 1..b /\ (d + 1) - 1 = d
      BY <2>2, <2>3
    <2>5. d * b = b * d
      BY <2>2
    <2>6. x = d * b + (e + 1)
      BY <2>1, <2>2, <2>5
    <2> QED
      BY <2>4, <2>6
  <1> QED
    BY <1>1, <1>2, <1>3

\* A block is a word of bytes.
LEMMA BlockTyped ==
    /\ BlockLen \in Nat \ {0} /\ Base \in Nat
    /\ \A b \in Block : b \in Seq(Byte) /\ b \in Seq(Int) /\ Len(b) = BlockLen
    /\ \A s \in Seq(Byte) : s \in Seq(Int)
  <1>1. BlockLen \in Nat \ {0} /\ Base \in Nat
    <2>1. BlockLen \in 1..Base - 1
      BY SealAssumption
    <2>2. Base \in Nat
      BY SealAssumption, TwoToIs DEF Base
    <2> QED
      BY <2>1, <2>2
  <1>2. Byte \subseteq Int
    BY <1>1 DEF Byte
  <1>3. ASSUME NEW b \in Block PROVE b \in Seq(Byte) /\ Len(b) = BlockLen
    BY <1>1 DEF Block
  <1>4. ASSUME NEW s \in Seq(Byte) PROVE s \in Seq(Int)
    <2>1. \A i \in 1..Len(s) : s[i] \in Byte
      OBVIOUS
    <2>2. \A i \in 1..Len(s) : s[i] \in Int
      BY <1>2, <2>1
    <2>3. s = [i \in 1..Len(s) |-> s[i]] /\ Len(s) \in Nat
      OBVIOUS
    <2> QED
      BY <2>2, <2>3
  <1> QED
    BY <1>1, <1>3, <1>4

\* Blocks in a row: each stands in its place.
LEMMA Joined ==
    ASSUME NEW m \in Nat, NEW f \in [1..m -> Block]
    PROVE  /\ FlattenSeq(f) \in Seq(Int) /\ Len(FlattenSeq(f)) = m * BlockLen
           /\ \A i \in 1..m, j \in 1..BlockLen : FlattenSeq(f)[(i - 1) * BlockLen + j] = f[i][j]
  <1> DEFINE OK(k, g) == /\ FlattenSeq(g) \in Seq(Int) /\ Len(FlattenSeq(g)) = k * BlockLen
                         /\ \A i \in 1..k, j \in 1..BlockLen :
                               FlattenSeq(g)[(i - 1) * BlockLen + j] = g[i][j]
             G == {k \in Nat : \A g \in [1..k -> Block] : OK(k, g)}
  <1>1. 0 \in G
    <2>1. ASSUME NEW g \in [1..0 -> Block] PROVE OK(0, g)
      <3>1. g = <<>>
        OBVIOUS
      <3>2. FlattenSeq(g) = <<>>
        BY <3>1, FlattenAppend
      <3>3. 0 * BlockLen = 0
        BY BlockTyped
      <3> QED
        BY <3>2, <3>3
    <2> QED
      BY <2>1
  <1>2. ASSUME NEW k \in Nat, k \in G PROVE k + 1 \in G
    <2>1. ASSUME NEW g \in [1..k + 1 -> Block] PROVE OK(k + 1, g)
      <3> DEFINE h == [i \in 1..k |-> g[i]]
                 s == FlattenSeq(h)
                 b == g[k + 1]
      <3>1. h \in [1..k -> Block] /\ b \in Block
        OBVIOUS
      <3>2. OK(k, h)
        <4> HIDE DEF h, OK
        <4> QED
          BY <1>2, <3>1
      <3>3. h \in Seq(Seq(Int)) /\ b \in Seq(Int) /\ Len(b) = BlockLen
        <4>1. \A i \in 1..k : h[i] \in Seq(Int)
          BY <3>1, BlockTyped
        <4>2. h = [i \in 1..k |-> h[i]]
          OBVIOUS
        <4> HIDE DEF h
        <4>3. h \in [1..k -> Seq(Int)]
          BY <4>1, <4>2
        <4>4. h \in Seq(Seq(Int))
          BY <4>3
        <4> QED
          BY <3>1, <4>4, BlockTyped
      <3>4. g = Append(h, b)
        <4>1. Len(h) = k
          OBVIOUS
        <4> QED
          BY <4>1, <3>3
      <3>5. FlattenSeq(g) = s \o b
        <4> HIDE DEF h, b
        <4> QED
          BY <3>3, <3>4, FlattenAppend
      <3>6. s \in Seq(Int) /\ Len(s) = k * BlockLen
        BY <3>2
      <3>7. /\ k * BlockLen \in Nat /\ (k + 1) * BlockLen = k * BlockLen + BlockLen
            /\ BlockLen \in Nat
        BY BlockTyped, Times
      <3>8. \A i \in 1..k, j \in 1..BlockLen : (i - 1) * BlockLen + j \in 1..k * BlockLen
        BY BlockTyped, PlacesInBlocks
      <3> DEFINE n == k * BlockLen
                 u == s \o b
      <3>9. /\ u \in Seq(Int) /\ Len(u) = n + BlockLen
            /\ \A x \in 1..n : u[x] = s[x]
            /\ \A j \in 1..BlockLen : u[n + j] = b[j]
        <4>1. s \in Seq(Int)
          BY <3>6
        <4>2. b \in Seq(Int)
          BY <3>3
        <4>3. Len(s) = n /\ Len(b) = BlockLen /\ n \in Nat /\ BlockLen \in Nat
          BY <3>3, <3>6, <3>7
        <4> HIDE DEF s, b, n
        <4>4. /\ u \in Seq(Int) /\ Len(u) = Len(s) + Len(b)
              /\ \A x \in 1..Len(s) + Len(b) : u[x] = IF x <= Len(s) THEN s[x] ELSE b[x - Len(s)]
          BY <4>1, <4>2, ConcatProperties
        <4> HIDE DEF u
        <4>5. u \in Seq(Int) /\ Len(u) = n + BlockLen
          BY <4>3, <4>4
        <4>6. ASSUME NEW x \in 1..n PROVE u[x] = s[x]
          <5>1. x \in 1..n + BlockLen /\ x <= n
            BY <4>3
          <5> QED
            BY <4>3, <4>4, <5>1
        <4>7. ASSUME NEW j \in 1..BlockLen PROVE u[n + j] = b[j]
          <5>1. n + j \in 1..n + BlockLen /\ ~(n + j <= n) /\ (n + j) - n = j
            BY <4>3
          <5>2. u[n + j] = b[(n + j) - n]
            BY <4>3, <4>4, <5>1
          <5> QED
            BY <5>1, <5>2
        <4> QED
          BY <4>5, <4>6, <4>7
      <3> HIDE DEF u
      <3>10. ASSUME NEW i \in 1..k + 1, NEW j \in 1..BlockLen
             PROVE  u[(i - 1) * BlockLen + j] = g[i][j]
        <4>1. CASE i = k + 1
          <5>1. i - 1 = k
            BY <4>1
          <5> QED
            BY <3>9, <4>1, <5>1
        <4>2. CASE i # k + 1
          <5>1. i \in 1..k
            BY <4>2
          <5>2. u[(i - 1) * BlockLen + j] = s[(i - 1) * BlockLen + j]
            BY <3>8, <3>9, <5>1
          <5>3. s[(i - 1) * BlockLen + j] = h[i][j] /\ h[i] = g[i]
            BY <3>2, <5>1
          <5> QED
            BY <5>2, <5>3
        <4> QED
          BY <4>1, <4>2
      <3> QED
        BY <3>5, <3>7, <3>9, <3>10 DEF u
    <2> HIDE DEF OK
    <2> QED
      BY <2>1
  <1>3. Nat \subseteq G
    <2> HIDE DEF G
    <2> QED
      BY <1>1, <1>2, Induction
  <1>4. OK(m, f)
    <2> HIDE DEF OK
    <2> QED
      BY <1>3
  <1> QED
    BY <1>4

\* What BlockAt cuts out.
LEMMA BlockAtIs ==
    ASSUME NEW s \in Seq(Int), NEW m \in Nat, Len(s) = m * BlockLen, NEW i \in 1..m
    PROVE  /\ BlockAt(s, i) \in Seq(Int) /\ Len(BlockAt(s, i)) = BlockLen
           /\ \A j \in 1..BlockLen : BlockAt(s, i)[j] = s[(i - 1) * BlockLen + j]
  <1> DEFINE a == (i - 1) * BlockLen
             b == i * BlockLen
             n == Len(s)
  <1>1. BlockLen \in Nat /\ a \in Nat /\ b = a + BlockLen /\ b <= n /\ n \in Nat
    <2>1. i - 1 \in Nat /\ (i - 1) + 1 = i /\ i \in Nat /\ i <= m
      OBVIOUS
    <2>2. BlockLen \in Nat
      BY BlockTyped
    <2>3. a \in Nat /\ i * BlockLen = a + BlockLen
      BY <2>1, <2>2, Times
    <2>4. i * BlockLen <= m * BlockLen
      BY <2>1, <2>2, Times
    <2> QED
      BY <2>2, <2>3, <2>4
  <1>2. BlockAt(s, i) = SubSeq(s, a + 1, b)
    BY DEF BlockAt
  <1> HIDE DEF a, b
  <1>3. /\ SubSeq(s, a + 1, b) \in Seq(Int)
        /\ Len(SubSeq(s, a + 1, b)) = (IF a + 1 <= b THEN b - (a + 1) + 1 ELSE 0)
        /\ \A j \in 1..b - (a + 1) + 1 : SubSeq(s, a + 1, b)[j] = s[a + 1 + j - 1]
    <2>1. a + 1 \in Int /\ b \in Int
      BY <1>1
    <2>2. \A j \in a + 1..b : s[j] \in Int
      BY <1>1
    <2> QED
      BY <1>1, <2>1, <2>2, SubSeqProperties
  <1>4. b - (a + 1) + 1 = BlockLen /\ \A j \in 1..BlockLen : a + 1 + j - 1 = a + j
    BY <1>1
  <1>5. BlockLen # 0
    BY BlockTyped
  <1> QED
    BY <1>1, <1>2, <1>3, <1>4, <1>5 DEF a

\* A block that stands in its place is what BlockAt cuts out.
LEMMA BlockFound ==
    ASSUME NEW s \in Seq(Int), NEW m \in Nat, Len(s) = m * BlockLen, NEW i \in 1..m,
           NEW b \in Block, \A j \in 1..BlockLen : s[(i - 1) * BlockLen + j] = b[j]
    PROVE  BlockAt(s, i) = b
  <1>1. /\ BlockAt(s, i) \in Seq(Int) /\ Len(BlockAt(s, i)) = BlockLen
        /\ \A j \in 1..BlockLen : BlockAt(s, i)[j] = s[(i - 1) * BlockLen + j]
    BY BlockAtIs
  <1>2. b \in Seq(Int) /\ Len(b) = BlockLen
    BY BlockTyped
  <1>3. \A j \in 1..Len(b) : BlockAt(s, i)[j] = b[j]
    BY <1>1, <1>2
  <1> QED
    BY <1>1, <1>2, <1>3, SeqEqual

\* Bytes are cut into blocks, which put together are the same bytes.
LEMMA Rejoined ==
    ASSUME NEW s \in Seq(Byte), NEW m \in Nat, Len(s) = m * BlockLen
    PROVE  /\ \A i \in 1..m : BlockAt(s, i) \in Block
           /\ FlattenSeq([i \in 1..m |-> BlockAt(s, i)]) = s
  <1> DEFINE f == [i \in 1..m |-> BlockAt(s, i)]
             t == FlattenSeq(f)
  <1>1. s \in Seq(Int) /\ BlockLen \in Nat \ {0}
    BY BlockTyped
  <1>2. ASSUME NEW i \in 1..m PROVE BlockAt(s, i) \in Block
    <2> DEFINE b == BlockAt(s, i)
    <2>1. /\ b \in Seq(Int) /\ Len(b) = BlockLen
          /\ \A j \in 1..BlockLen : b[j] = s[(i - 1) * BlockLen + j]
      BY <1>1, BlockAtIs
    <2>2. \A j \in 1..BlockLen : (i - 1) * BlockLen + j \in 1..Len(s)
      BY <1>1, PlacesInBlocks
    <2>3. \A x \in 1..Len(s) : s[x] \in Byte
      OBVIOUS
    <2> HIDE DEF b
    <2>4. \A j \in 1..BlockLen : b[j] \in Byte
      BY <2>1, <2>2, <2>3
    <2>5. b = [j \in 1..BlockLen |-> b[j]]
      BY <2>1
    <2>6. b \in Block
      BY <2>4, <2>5 DEF Block
    <2> QED
      BY <2>6 DEF b
  <1>3. f \in [1..m -> Block]
    BY <1>2
  <1>4. /\ t \in Seq(Int) /\ Len(t) = m * BlockLen
        /\ \A i \in 1..m, j \in 1..BlockLen : t[(i - 1) * BlockLen + j] = f[i][j]
    <2> HIDE DEF f
    <2> QED
      BY <1>3, Joined
  <1>5. ASSUME NEW x \in 1..Len(s) PROVE t[x] = s[x]
    <2>0. \A y \in 1..m * BlockLen : \E i \in 1..m, j \in 1..BlockLen : y = (i - 1) * BlockLen + j
      BY <1>1, PlacesInBlocks
    <2>1. PICK i \in 1..m, j \in 1..BlockLen : x = (i - 1) * BlockLen + j
      <3>1. x \in 1..m * BlockLen
        OBVIOUS
      <3> QED
        BY <2>0, <3>1
    <2>2. t[x] = f[i][j]
      BY <1>4, <2>1
    <2>3. f[i] = BlockAt(s, i)
      OBVIOUS
    <2>4. BlockAt(s, i)[j] = s[x]
      BY <1>1, <2>1, BlockAtIs
    <2> QED
      BY <2>2, <2>3, <2>4
  <1> HIDE DEF t
  <1>6. t = s
    BY <1>1, <1>4, <1>5, SeqEqual
  <1> QED
    BY <1>2, <1>6 DEF t, f

\* The exclusive or of two blocks, and what undoes it.
LEMMA XorUndone ==
    ASSUME NEW a \in Block, NEW b \in Block
    PROVE  XorBytes(a, b) \in Block /\ XorBytes(a, XorBytes(a, b)) = b
  <1> DEFINE c == XorBytes(a, b)
             d == XorBytes(a, c)
  <1>1. DOMAIN a = 1..BlockLen /\ \A i \in 1..BlockLen : a[i] \in Byte /\ b[i] \in Byte
    BY DEF Block
  <1>2. c = [i \in 1..BlockLen |-> Xor(a[i], b[i])]
    BY <1>1 DEF XorBytes
  <1>3. ASSUME NEW i \in 1..BlockLen
        PROVE  Xor(a[i], b[i]) \in Byte /\ Xor(a[i], Xor(a[i], b[i])) = b[i]
    <2>1. a[i] \in Byte /\ b[i] \in Byte
      BY <1>1
    <2>2. \A x, y \in Byte : Xor(x, y) \in Byte /\ Xor(x, Xor(x, y)) = y
      BY XorAssumption
    <2> QED
      BY <2>1, <2>2
  <1> HIDE DEF c
  <1>4. \A i \in 1..BlockLen : c[i] = Xor(a[i], b[i])
    BY <1>2
  <1>5. c \in Block
    BY <1>2, <1>3 DEF Block
  <1>6. d = [i \in 1..BlockLen |-> Xor(a[i], c[i])]
    BY <1>1 DEF XorBytes
  <1> HIDE DEF d
  <1>7. \A i \in 1..BlockLen : d[i] = b[i]
    BY <1>3, <1>4, <1>6
  <1>8. d = [i \in 1..BlockLen |-> d[i]] /\ b = [i \in 1..BlockLen |-> b[i]]
    BY <1>6 DEF Block
  <1>9. [i \in 1..BlockLen |-> d[i]] = [i \in 1..BlockLen |-> b[i]]
    BY <1>7
  <1>10. d = b
    BY <1>8, <1>9
  <1> QED
    BY <1>5, <1>10 DEF d, c

\* With the key, different blocks become different blocks.
Permutes(key) == \A a, b \in Block :
    /\ Cipher(key, a) \in Block
    /\ Cipher(key, a) = Cipher(key, b) => a = b

\* Deciphering a block that was enciphered.
LEMMA DecipherCipher ==
    ASSUME NEW key, Permutes(key), NEW b \in Block
    PROVE  Cipher(key, b) \in Block /\ Decipher(key, Cipher(key, b)) = b
  BY DEF Permutes, Decipher

\* The chain of blocks that EncryptCBC makes.
Chain(c, m, data, key, iv) ==
    /\ c \in [0..m -> Block] /\ c[0] = iv
    /\ \A i \in 1..m : c[i] = Cipher(key, XorBytes(c[i - 1], BlockAt(data, i)))

\* EncryptCBC makes one.
LEMMA Chained ==
    ASSUME NEW key, Permutes(key), NEW iv \in Block, NEW data \in Seq(Byte),
           NEW m \in Nat, Len(data) = m * BlockLen
    PROVE  \E c : /\ Chain(c, m, data, key, iv)
                  /\ EncryptCBC(data, key, iv) = FlattenSeq([i \in 1..m |-> c[i]])
  <1> DEFINE F == [nx \in Nat \X Block |->
                    IF nx[1] + 1 \in 1..m
                    THEN Cipher(key, XorBytes(nx[2], BlockAt(data, nx[1] + 1))) ELSE nx[2]]
             Reads(f) == f = [i \in 0..m |-> IF i = 0 THEN iv
                                             ELSE Cipher(key, XorBytes(f[i - 1], BlockAt(data, i)))]
             out == CHOOSE f : Reads(f)
  <1>1. StepOf(F, Block)
    <2>1. ASSUME NEW n \in Nat, NEW x \in Block, n + 1 \in 1..m
          PROVE  Cipher(key, XorBytes(x, BlockAt(data, n + 1))) \in Block
      <3>1. BlockAt(data, n + 1) \in Block
        BY <2>1, Rejoined
      <3>2. XorBytes(x, BlockAt(data, n + 1)) \in Block
        BY <3>1, XorUndone
      <3> QED
        BY <3>2 DEF Permutes
    <2> QED
      BY <2>1 DEF StepOf
  <1>2. PICK g : Path(m, g, iv, F, Block)
    <2> HIDE DEF F
    <2> QED
      BY <1>1, PathExists
  <1>3. g \in [0..m -> Block] /\ g[0] = iv /\ \A i \in 0..m - 1 : g[i + 1] = F[<<i, g[i]>>]
    <2> HIDE DEF F
    <2> QED
      BY <1>2 DEF Path
  <1>4. ASSUME NEW i \in 1..m PROVE g[i] = Cipher(key, XorBytes(g[i - 1], BlockAt(data, i)))
    <2>1. i - 1 \in 0..m - 1 /\ (i - 1) + 1 = i /\ i - 1 \in Nat /\ i - 1 \in 0..m
      OBVIOUS
    <2>2. g[i - 1] \in Block /\ g[i] = F[<<i - 1, g[i - 1]>>]
      <3> HIDE DEF F
      <3> QED
        BY <1>3, <2>1
    <2> QED
      BY <2>1, <2>2
  <1>5. Reads(g)
    <2>1. g = [i \in 0..m |-> g[i]]
      BY <1>3
    <2>2. \A i \in 0..m : g[i] = IF i = 0 THEN iv ELSE Cipher(key, XorBytes(g[i - 1], BlockAt(data, i)))
      BY <1>3, <1>4
    <2> QED
      BY <2>1, <2>2
  <1>6. Reads(out)
    BY <1>5
  <1>7. out[0] = iv /\ \A i \in 1..m : out[i] = Cipher(key, XorBytes(out[i - 1], BlockAt(data, i)))
    <2> HIDE DEF out
    <2>1. 0 \in 0..m /\ \A i \in 1..m : i \in 0..m /\ i # 0
      OBVIOUS
    <2> QED
      BY <1>6, <2>1
  <1>8. \A i \in 0..m : out[i] = g[i]
    <2> DEFINE G == {n \in Nat : n <= m => out[n] = g[n]}
    <2>1. 0 \in G
      <3> HIDE DEF out
      <3> QED
        BY <1>3, <1>7
    <2>2. ASSUME NEW n \in Nat, n \in G PROVE n + 1 \in G
      <3> HIDE DEF out
      <3> SUFFICES ASSUME n + 1 <= m PROVE out[n + 1] = g[n + 1]
        OBVIOUS
      <3>1. n + 1 \in 1..m /\ (n + 1) - 1 = n /\ out[n] = g[n]
        BY <2>2
      <3> QED
        BY <1>4, <1>7, <3>1
    <2>3. Nat \subseteq G
      <3> HIDE DEF G
      <3> QED
        BY <2>1, <2>2, Induction
    <2> HIDE DEF out
    <2> QED
      BY <2>3
  <1>9. Blocks(data) = m
    <2>1. BlockLen \in Nat \ {0} /\ 0 \in 0..BlockLen - 1
      BY BlockTyped
    <2>2. (m * BlockLen + 0) \div BlockLen = m
      BY <2>1, Multiples
    <2>3. m * BlockLen + 0 = m * BlockLen
      BY <2>1
    <2> QED
      BY <2>2, <2>3 DEF Blocks
  <1>10. EncryptCBC(data, key, iv) = FlattenSeq([i \in 1..m |-> out[i]])
    BY <1>9 DEF EncryptCBC
  <1>11. [i \in 1..m |-> out[i]] = [i \in 1..m |-> g[i]]
    <2> HIDE DEF out
    <2> QED
      BY <1>8
  <1> HIDE DEF out
  <1>12. EncryptCBC(data, key, iv) = FlattenSeq([i \in 1..m |-> g[i]])
    BY <1>10, <1>11
  <1> QED
    BY <1>3, <1>4, <1>12 DEF Chain

\* A padded message is whole blocks of bytes.
LEMMA PadIsBlocks ==
    ASSUME NEW data \in Seq(Byte)
    PROVE  Pad(data) \in Seq(Byte) /\ \E m \in Nat : Len(Pad(data)) = m * BlockLen
  <1> DEFINE n == BlockLen - (Len(data) % BlockLen)
             q == Len(data) \div BlockLen
             r == Len(data) % BlockLen
  <1>1. n \in 1..BlockLen
    BY PaddingLength
  <1>2. Padding(n) \in Seq(Byte) /\ Len(Padding(n)) = n
    BY <1>1, PaddingIsBytes
  <1>3. Pad(data) = data \o Padding(n)
    BY DEF Pad
  <1>4. Pad(data) \in Seq(Byte) /\ Len(Pad(data)) = Len(data) + n
    <2> HIDE DEF n
    <2> QED
      BY <1>2, <1>3, ConcatProperties
  <1>5. BlockLen \in Nat \ {0} /\ Len(data) \in Nat
    BY BlockTyped
  <1>6. q \in Nat /\ r \in Int /\ Len(data) = BlockLen * q + r
    BY <1>5
  <1>7. n = BlockLen - r
    OBVIOUS
  <1> HIDE DEF n, q, r
  <1>8. Len(data) + n = BlockLen * q + BlockLen
    BY <1>5, <1>6, <1>7
  <1>9. (q + 1) * BlockLen = q * BlockLen + BlockLen /\ q * BlockLen = BlockLen * q
    BY <1>5, <1>6
  <1>10. Len(Pad(data)) = (q + 1) * BlockLen /\ q + 1 \in Nat
    BY <1>4, <1>6, <1>8, <1>9
  <1> QED
    BY <1>4, <1>10

\* DecryptCBC takes the chain apart again.
LEMMA DecryptChain ==
    ASSUME NEW key, Permutes(key), NEW iv \in Block, NEW data \in Seq(Byte),
           NEW m \in Nat, Len(data) = m * BlockLen, NEW c, Chain(c, m, data, key, iv)
    PROVE  LET e == FlattenSeq([i \in 1..m |-> c[i]])
           IN  /\ e \in Seq(Int) /\ Len(e) = m * BlockLen
               /\ DecryptCBC(e, key, iv) = data
  <1> DEFINE f == [i \in 1..m |-> c[i]]
             e == FlattenSeq(f)
             p(i) == BlockAt(data, i)
  <1>1. /\ c \in [0..m -> Block] /\ c[0] = iv
        /\ \A i \in 1..m : c[i] = Cipher(key, XorBytes(c[i - 1], p(i)))
    BY DEF Chain
  <1>2. f \in [1..m -> Block]
    BY <1>1
  <1>3. /\ e \in Seq(Int) /\ Len(e) = m * BlockLen
        /\ \A i \in 1..m, j \in 1..BlockLen : e[(i - 1) * BlockLen + j] = f[i][j]
    <2> HIDE DEF f
    <2> QED
      BY <1>2, Joined
  <1>4. ASSUME NEW i \in 1..m PROVE BlockAt(e, i) = c[i]
    <2>1. f[i] \in Block /\ f[i] = c[i]
      BY <1>2
    <2> HIDE DEF e, f
    <2>2. BlockAt(e, i) = f[i]
      BY <1>3, <2>1, BlockFound
    <2> QED
      BY <2>1, <2>2
  <1>5. ASSUME NEW i \in 1..m
        PROVE  XorBytes(IF i = 1 THEN iv ELSE BlockAt(e, i - 1), Decipher(key, BlockAt(e, i))) = p(i)
    <2> DEFINE b == c[i - 1]
               x == XorBytes(b, p(i))
    <2>1. i - 1 \in 0..m /\ (i # 1 => i - 1 \in 1..m) /\ (i = 1 => i - 1 = 0)
      OBVIOUS
    <2>2. b \in Block /\ p(i) \in Block
      <3>1. b \in Block
        BY <1>1, <2>1
      <3> QED
        BY <3>1, Rejoined
    <2>3. (IF i = 1 THEN iv ELSE BlockAt(e, i - 1)) = b
      <3>1. CASE i = 1
        BY <1>1, <2>1, <3>1
      <3>2. CASE i # 1
        <4> HIDE DEF e
        <4> QED
          BY <1>4, <2>1, <3>2
      <3> QED
        BY <3>1, <3>2
    <2>4. BlockAt(e, i) = Cipher(key, x)
      <3> HIDE DEF e
      <3> QED
        BY <1>1, <1>4
    <2> HIDE DEF b, p, e
    <2>5. x \in Block /\ XorBytes(b, x) = p(i)
      BY <2>2, XorUndone
    <2> HIDE DEF x
    <2>6. Decipher(key, Cipher(key, x)) = x
      BY <2>5, DecipherCipher
    <2> QED
      BY <2>3, <2>4, <2>5, <2>6
  <1>6. Blocks(e) = m
    <2> HIDE DEF e
    <2>1. BlockLen \in Nat \ {0} /\ 0 \in 0..BlockLen - 1
      BY BlockTyped
    <2>2. (m * BlockLen + 0) \div BlockLen = m
      BY <2>1, Multiples
    <2>3. m * BlockLen + 0 = m * BlockLen
      BY <2>1
    <2> QED
      BY <1>3, <2>2, <2>3 DEF Blocks
  <1> DEFINE d(i) == XorBytes(IF i = 1 THEN iv ELSE BlockAt(e, i - 1), Decipher(key, BlockAt(e, i)))
  <1>7. DecryptCBC(e, key, iv) = FlattenSeq([i \in 1..m |-> d(i)])
    BY <1>6 DEF DecryptCBC
  <1>8. [i \in 1..m |-> d(i)] = [i \in 1..m |-> p(i)]
    <2> HIDE DEF e, p
    <2> QED
      BY <1>5
  <1>9. FlattenSeq([i \in 1..m |-> p(i)]) = data
    BY Rejoined
  <1> HIDE DEF d, p, e
  <1>10. DecryptCBC(e, key, iv) = data
    BY <1>7, <1>8, <1>9
  <1> QED
    BY <1>3, <1>10 DEF e

\* A block before whole blocks: how Decrypt takes it off.
LEMMA FirstBlock ==
    ASSUME NEW iv \in Block, NEW e \in Seq(Int), NEW m \in Nat, Len(e) = m * BlockLen
    PROVE  LET w == iv \o e
           IN  /\ Len(w) >= BlockLen /\ Len(w) % BlockLen = 0
               /\ BlockAt(w, 1) = iv /\ SubSeq(w, BlockLen + 1, Len(w)) = e
  <1> DEFINE w == iv \o e
             n == m * BlockLen
  <1>1. iv \in Seq(Int) /\ Len(iv) = BlockLen /\ BlockLen \in Nat \ {0} /\ 0 \in 0..BlockLen - 1
    BY BlockTyped
  <1>2. n \in Nat /\ (m + 1) * BlockLen = n + BlockLen /\ m + 1 \in Nat
    BY <1>1
  <1>3. /\ w \in Seq(Int) /\ Len(w) = Len(iv) + Len(e)
        /\ \A i \in 1..Len(iv) + Len(e) : w[i] = IF i <= Len(iv) THEN iv[i] ELSE e[i - Len(iv)]
    BY <1>1, ConcatProperties
  <1> HIDE DEF w, n
  <1>4. Len(e) = n
    BY DEF n
  <1>5. /\ Len(w) = (m + 1) * BlockLen /\ Len(w) = BlockLen + n
        /\ \A i \in 1..BlockLen : w[i] = iv[i]
        /\ \A i \in 1..n : w[BlockLen + i] = e[i]
    BY <1>1, <1>2, <1>3, <1>4
  <1>6. Len(w) >= BlockLen
    BY <1>1, <1>2, <1>5
  <1>7. Len(w) % BlockLen = 0
    <2>1. ((m + 1) * BlockLen + 0) % BlockLen = 0
      <3> DEFINE q == m + 1
      <3>1. q \in Int
        BY <1>2
      <3> HIDE DEF q
      <3>2. (q * BlockLen + 0) % BlockLen = 0
        BY <1>1, <3>1, Multiples
      <3> QED
        BY <3>2 DEF q
    <2>2. (m + 1) * BlockLen + 0 = (m + 1) * BlockLen
      BY <1>1, <1>2
    <2> QED
      BY <1>5, <2>1, <2>2
  <1>8. BlockAt(w, 1) = iv
    <2>1. 1 \in 1..m + 1 /\ \A j \in 1..BlockLen : (1 - 1) * BlockLen + j = j
      BY <1>1
    <2>2. \A j \in 1..BlockLen : w[(1 - 1) * BlockLen + j] = iv[j]
      BY <1>5, <2>1
    <2> QED
      BY <1>2, <1>3, <1>5, <2>1, <2>2, BlockFound
  <1>9. SubSeq(w, BlockLen + 1, Len(w)) = e
    <2> DEFINE u == SubSeq(w, BlockLen + 1, BlockLen + n)
    <2>1. BlockLen + 1 \in Int /\ BlockLen + n \in Int
          /\ \A j \in BlockLen + 1..BlockLen + n : w[j] \in Int
      BY <1>1, <1>2, <1>3, <1>5
    <2>2. /\ u \in Seq(Int)
          /\ Len(u) = (IF BlockLen + 1 <= BlockLen + n THEN BlockLen + n - (BlockLen + 1) + 1 ELSE 0)
          /\ \A j \in 1..BlockLen + n - (BlockLen + 1) + 1 : u[j] = w[BlockLen + 1 + j - 1]
      BY <1>1, <1>2, <1>3, <1>5, <2>1, SubSeqProperties
    <2> HIDE DEF u
    <2>3. Len(u) = n /\ BlockLen + n - (BlockLen + 1) + 1 = n
      BY <1>1, <1>2, <2>2
    <2>4. \A j \in 1..n : u[j] = w[BlockLen + j]
      <3>1. \A j \in 1..n : BlockLen + 1 + j - 1 = BlockLen + j
        BY <1>1, <1>2
      <3> QED
        BY <2>2, <2>3, <3>1
    <2>5. \A j \in 1..Len(u) : u[j] = e[j]
      BY <1>5, <2>3, <2>4
    <2>6. u = e
      BY <1>4, <2>2, <2>3, <2>5, SeqEqual
    <2> QED
      BY <1>5, <2>6 DEF u
  <1> QED
    BY <1>6, <1>7, <1>8, <1>9 DEF w

\* What aes::CryptoF encrypts it decrypts again: any bytes, of any number, with
\* blocks of any length, under every key, and from every initial block.
THEOREM DecryptEncrypt ==
    ASSUME NEW key, Permutes(key), NEW iv \in Block, NEW data \in Seq(Byte)
    PROVE  Decrypt(Encrypt(data, key, iv), key) = {data}
  <1> DEFINE p == Pad(data)
  <1>1. PICK m \in Nat : Len(p) = m * BlockLen
    BY PadIsBlocks
  <1>2. p \in Seq(Byte)
    BY PadIsBlocks
  <1> HIDE DEF p
  <1>3. PICK c : /\ Chain(c, m, p, key, iv)
                 /\ EncryptCBC(p, key, iv) = FlattenSeq([i \in 1..m |-> c[i]])
    BY <1>1, <1>2, Chained
  <1> DEFINE e == FlattenSeq([i \in 1..m |-> c[i]])
             w == iv \o e
  <1>4. e \in Seq(Int) /\ Len(e) = m * BlockLen /\ DecryptCBC(e, key, iv) = p
    BY <1>1, <1>2, <1>3, DecryptChain
  <1>5. EncryptCBC(p, key, iv) = e
    BY <1>3
  <1> HIDE DEF e
  <1>6. Encrypt(data, key, iv) = w
    BY <1>5 DEF Encrypt, p
  <1>7. /\ Len(w) >= BlockLen /\ Len(w) % BlockLen = 0
        /\ BlockAt(w, 1) = iv /\ SubSeq(w, BlockLen + 1, Len(w)) = e
    BY <1>4, FirstBlock
  <1>8. Len(w) \in Nat /\ BlockLen \in Nat
    <2>1. iv \in Seq(Int) /\ BlockLen \in Nat
      BY BlockTyped
    <2> QED
      BY <1>4, <2>1
  <1> HIDE DEF w
  <1>9. Decrypt(w, key) = Unpad(p)
    <2>1. ~(Len(w) < BlockLen)
      BY <1>7, <1>8
    <2>2. Decrypt(w, key) = Unpad(DecryptCBC(SubSeq(w, BlockLen + 1, Len(w)), key, BlockAt(w, 1)))
      BY <1>7, <2>1 DEF Decrypt
    <2> QED
      BY <1>4, <1>7, <2>2
  <1>10. Unpad(p) = {data}
    BY UnpadPad DEF p
  <1> QED
    BY <1>6, <1>9, <1>10

-----------------------------------------------------------------------------
(* Words of digits *)

\* What a word of digits is worth in the radix b.
Worth(b, digits) == FoldLeft(LAMBDA v, d : b * v + d, 0, digits)

\* The function the fold is defined with: the value of every set of places.
Folded(b, s, g) ==
    g = [t \in SUBSET DOMAIN s |->
            IF t = {} THEN 0 ELSE b * g[t \ {Max(t)}] + s[Max(t)]]

\* It is the value of all its places under such a function.
LEMMA WorthIsFolded ==
    ASSUME NEW b, NEW s
    PROVE  Worth(b, s) = (CHOOSE g : Folded(b, s, g))[DOMAIN s]
  BY DEF Worth, FoldLeft, MapThenFoldSet, Folded

\* Such a function exists for every word, though it is defined by itself.
LEMMA FoldedExists ==
    ASSUME NEW b \in Int, NEW s \in Seq(Int)
    PROVE  \E g : Folded(b, s, g)
  <1> DEFINE G == {n \in Nat : \A u \in Seq(Int) : Len(u) = n => \E g : Folded(b, u, g)}
  <1>1. 0 \in G
    <2>1. ASSUME NEW u \in Seq(Int), Len(u) = 0 PROVE Folded(b, u, [t \in SUBSET DOMAIN u |-> 0])
      <3>1. DOMAIN u = {}
        BY <2>1
      <3> QED
        BY <3>1 DEF Folded
    <2> QED
      BY <2>1
  <1>2. ASSUME NEW n \in Nat, n \in G PROVE n + 1 \in G
    <2> SUFFICES ASSUME NEW u \in Seq(Int), Len(u) = n + 1 PROVE \E g : Folded(b, u, g)
      OBVIOUS
    <2> DEFINE r == SubSeq(u, 1, n)
    <2>1. r \in Seq(Int) /\ Len(r) = n /\ DOMAIN r = 1..n /\ DOMAIN u = 1..n + 1
          /\ \A i \in 1..n : r[i] = u[i]
      OBVIOUS
    <2>2. PICK f : Folded(b, r, f)
      BY <1>2, <2>1
    <2> HIDE DEF r
    <2>3. f = [t \in SUBSET (1..n) |-> IF t = {} THEN 0 ELSE b * f[t \ {Max(t)}] + r[Max(t)]]
      BY <2>1, <2>2 DEF Folded
    <2> DEFINE g == [t \in SUBSET (1..n + 1) |-> IF n + 1 \in t THEN b * f[t \ {n + 1}] + u[n + 1] ELSE f[t]]
    <2>4. ASSUME NEW t \in SUBSET (1..n + 1)
          PROVE  g[t] = IF t = {} THEN 0 ELSE b * g[t \ {Max(t)}] + u[Max(t)]
      <3>1. CASE n + 1 \in t
        <4>1. Max(t) \in t /\ n + 1 <= Max(t)
          <5>1. n + 1 \in Nat /\ t # {}
            BY <3>1
          <5> QED
            BY <3>1, <5>1, Greatest
        <4>2. Max(t) \in 1..n + 1
          BY <4>1
        <4>3. Max(t) = n + 1
          BY <4>1, <4>2
        <4>4. t \ {n + 1} \in SUBSET (1..n + 1) /\ n + 1 \notin t \ {n + 1}
          OBVIOUS
        <4>5. g[t \ {n + 1}] = f[t \ {n + 1}]
          BY <4>4
        <4> QED
          BY <3>1, <4>3, <4>5
      <3>2. CASE n + 1 \notin t
        <4>1. t \in SUBSET (1..n)
          <5>1. \A i \in t : i \in 1..n + 1 /\ i # n + 1
            BY <3>2
          <5> QED
            BY <5>1
        <4>2. g[t] = f[t]
          BY <3>2
        <4>3. CASE t = {}
          BY <2>3, <4>1, <4>2, <4>3
        <4>4. CASE t # {}
          <5>1. Max(t) \in 1..n
            BY <4>1, <4>4, Greatest
          <5>2. n + 1 \notin t \ {Max(t)} /\ t \ {Max(t)} \in SUBSET (1..n + 1)
            BY <3>2
          <5>3. g[t \ {Max(t)}] = f[t \ {Max(t)}]
            BY <5>2
          <5>4. f[t] = b * f[t \ {Max(t)}] + r[Max(t)]
            BY <2>3, <4>1, <4>4
          <5> QED
            BY <2>1, <4>2, <4>4, <5>1, <5>3, <5>4
        <4> QED
          BY <4>3, <4>4
      <3> QED
        BY <3>1, <3>2
    <2>5. g = [t \in SUBSET (1..n + 1) |-> IF t = {} THEN 0 ELSE b * g[t \ {Max(t)}] + u[Max(t)]]
      <3>1. g = [t \in SUBSET (1..n + 1) |-> g[t]]
        OBVIOUS
      <3> HIDE DEF g
      <3> QED
        BY <2>4, <3>1
    <2> HIDE DEF g
    <2>6. Folded(b, u, g)
      BY <2>1, <2>5 DEF Folded
    <2> QED
      BY <2>6
  <1>3. Nat \subseteq G
    <2> HIDE DEF G
    <2> QED
      BY <1>1, <1>2, Induction
  <1>4. Len(s) \in G
    BY <1>3
  <1> QED
    BY <1>4

\* The values of a word's beginnings, from the empty one to the word.
Steps(b, s, h) ==
    /\ h[0] = 0 /\ h[Len(s)] = Worth(b, s)
    /\ \A k \in 0..Len(s) - 1 : h[k + 1] = b * h[k] + s[k + 1]

\* Reading a word digit by digit: each step is worth b times the last and its digit.
LEMMA WorthSteps ==
    ASSUME NEW b \in Int, NEW s \in Seq(Int)
    PROVE  \E h : Steps(b, s, h)
  <1> DEFINE g == CHOOSE g : Folded(b, s, g)
             h == [k \in 0..Len(s) |-> g[1..k]]
  <1>1. Folded(b, s, g)
    BY FoldedExists
  <1>2. Worth(b, s) = g[DOMAIN s]
    BY WorthIsFolded
  <1> HIDE DEF g
  <1>3. g = [t \in SUBSET (1..Len(s)) |-> IF t = {} THEN 0 ELSE b * g[t \ {Max(t)}] + s[Max(t)]]
    <2>1. DOMAIN s = 1..Len(s)
      OBVIOUS
    <2> QED
      BY <1>1, <2>1 DEF Folded
  <1>4. h[0] = 0
    <2>1. 1..0 = {} /\ 1..0 \in SUBSET (1..Len(s))
      OBVIOUS
    <2>2. g[1..0] = 0
      BY <1>3, <2>1
    <2> QED
      BY <2>2
  <1>5. h[Len(s)] = Worth(b, s)
    <2>1. DOMAIN s = 1..Len(s) /\ Len(s) \in 0..Len(s)
      OBVIOUS
    <2> QED
      BY <1>2, <2>1
  <1>6. ASSUME NEW k \in 0..Len(s) - 1 PROVE h[k + 1] = b * h[k] + s[k + 1]
    <2> DEFINE t == 1..k + 1
    <2>1. t \in SUBSET (1..Len(s)) /\ k + 1 \in t /\ t # {}
      <3>1. Len(s) \in Nat /\ k \in Nat /\ k + 1 <= Len(s)
        OBVIOUS
      <3> QED
        BY <3>1
    <2>2. Max(t) = k + 1
      <3>1. Len(s) \in Nat
        OBVIOUS
      <3>2. Max(t) \in t /\ \A y \in t : y <= Max(t)
        <4> HIDE DEF t
        <4> QED
          BY <2>1, <3>1, Greatest
      <3>3. k + 1 <= Max(t) /\ Max(t) \in 1..k + 1
        BY <2>1, <3>2
      <3> QED
        BY <3>3
    <2>3. t \ {k + 1} = 1..k
      OBVIOUS
    <2>4. g[t] = b * g[t \ {Max(t)}] + s[Max(t)]
      <3> HIDE DEF t
      <3> QED
        BY <1>3, <2>1
    <2>5. h[k] = g[1..k] /\ h[k + 1] = g[t]
      OBVIOUS
    <2> QED
      BY <2>2, <2>3, <2>4, <2>5
  <1> HIDE DEF h
  <1> QED
    BY <1>4, <1>5, <1>6 DEF Steps

\* Words with the same beginning have the same values there, and integers.
LEMMA StepsAgree ==
    ASSUME NEW b \in Int, NEW s \in Seq(Int), NEW u \in Seq(Int), NEW h, Steps(b, s, h), NEW f, Steps(b, u, f),
           NEW n \in Nat, n <= Len(s), n <= Len(u), \A i \in 1..n : s[i] = u[i]
    PROVE  h[n] = f[n] /\ h[n] \in Int
  <1> DEFINE G == {k \in Nat : k <= n => h[k] = f[k] /\ h[k] \in Int}
  <1>1. 0 \in G
    BY DEF Steps
  <1>2. ASSUME NEW k \in Nat, k \in G PROVE k + 1 \in G
    <2> SUFFICES ASSUME k + 1 <= n PROVE h[k + 1] = f[k + 1] /\ h[k + 1] \in Int
      OBVIOUS
    <2>1. h[k] = f[k] /\ h[k] \in Int
      BY <1>2
    <2>2. k \in 0..Len(s) - 1 /\ k \in 0..Len(u) - 1 /\ s[k + 1] = u[k + 1] /\ s[k + 1] \in Int
      OBVIOUS
    <2>3. h[k + 1] = b * h[k] + s[k + 1] /\ f[k + 1] = b * f[k] + u[k + 1]
      BY <2>2 DEF Steps
    <2> QED
      BY <2>1, <2>2, <2>3
  <1>3. Nat \subseteq G
    <2> HIDE DEF G
    <2> QED
      BY <1>1, <1>2, Induction
  <1> QED
    BY <1>3

\* No digits are worth nothing, and a digit more makes b times as much and itself.
LEMMA WorthAppend ==
    ASSUME NEW b \in Int
    PROVE
    /\ Worth(b, <<>>) = 0
    /\ \A s \in Seq(Int) : Worth(b, s) \in Int
    /\ \A s \in Seq(Int), d \in Int : Worth(b, Append(s, d)) = b * Worth(b, s) + d
  <1>1. Worth(b, <<>>) = 0
    <2>1. <<>> \in Seq(Int) /\ Len(<<>>) = 0
      OBVIOUS
    <2>2. PICK h : Steps(b, <<>>, h)
      BY <2>1, WorthSteps
    <2> QED
      BY <2>1, <2>2 DEF Steps
  <1>2. ASSUME NEW s \in Seq(Int) PROVE Worth(b, s) \in Int
    <2>1. PICK h : Steps(b, s, h)
      BY WorthSteps
    <2>2. Len(s) \in Nat /\ Len(s) <= Len(s) /\ \A i \in 1..Len(s) : s[i] = s[i]
      OBVIOUS
    <2>3. h[Len(s)] \in Int
      BY <2>1, <2>2, StepsAgree
    <2> QED
      BY <2>1, <2>3 DEF Steps
  <1>3. ASSUME NEW s \in Seq(Int), NEW d \in Int
        PROVE  Worth(b, Append(s, d)) = b * Worth(b, s) + d
    <2> DEFINE u == Append(s, d)
    <2>1. u \in Seq(Int) /\ Len(u) = Len(s) + 1 /\ u[Len(s) + 1] = d /\ \A i \in 1..Len(s) : s[i] = u[i]
      OBVIOUS
    <2>2. Len(s) \in Nat /\ Len(s) <= Len(s) /\ Len(s) <= Len(s) + 1
      OBVIOUS
    <2> HIDE DEF u
    <2>3. PICK h : Steps(b, s, h)
      BY WorthSteps
    <2>4. PICK f : Steps(b, u, f)
      BY <2>1, WorthSteps
    <2>5. h[Len(s)] = f[Len(s)]
      <3>1. Len(s) <= Len(u)
        BY <2>1, <2>2
      <3> DEFINE n == Len(s)
      <3>2. n \in Nat /\ n <= Len(s) /\ n <= Len(u) /\ \A i \in 1..n : s[i] = u[i]
        BY <2>1, <2>2, <3>1
      <3> HIDE DEF n
      <3>3. h[n] = f[n]
        BY <2>1, <2>3, <2>4, <3>2, StepsAgree
      <3> QED
        BY <3>3 DEF n
    <2>6. h[Len(s)] = Worth(b, s)
      BY <2>3 DEF Steps
    <2>7. f[Len(s) + 1] = b * f[Len(s)] + d /\ f[Len(s) + 1] = Worth(b, u)
      <3>1. Len(s) \in 0..Len(u) - 1
        BY <2>1, <2>2
      <3> QED
        BY <2>1, <2>4, <3>1 DEF Steps
    <2> QED
      BY <2>5, <2>6, <2>7 DEF u
  <1> QED
    BY <1>1, <1>2, <1>3

-----------------------------------------------------------------------------
(* Numbers of fixed width *)

\* Dividing by a product is dividing by its factors in turn.
LEMMA DividedTwice ==
    ASSUME NEW n \in Int, NEW b \in Nat \ {0}, NEW p \in Nat \ {0}
    PROVE  /\ n \div (b * p) = (n \div b) \div p
           /\ n % (b * p) = b * ((n \div b) % p) + (n % b)
  <1> DEFINE m == n \div b
             r == n % b
             q == m \div p
             t == m % p
             x == b * t + r
  <1>1. m \in Int /\ r \in 0..b - 1 /\ n = b * m + r
    OBVIOUS
  <1> HIDE DEF m, r
  <1>2. q \in Int /\ t \in 0..p - 1 /\ m = p * q + t
    BY <1>1
  <1> HIDE DEF q, t
  <1>3. b * p \in Nat \ {0}
    OBVIOUS
  <1>4. x \in 0..b * p - 1
    <2>1. b * t \in Nat /\ b * t + b <= b * p
      <3>1. b * t \in Nat /\ b * (p - 1 - t) >= 0
        BY <1>2
      <3>2. b * (p - 1 - t) = b * p - b - b * t
        BY <1>2
      <3> QED
        BY <1>3, <3>1, <3>2
    <2> DEFINE y == b * t
               z == b * p
    <2> HIDE DEF y, z
    <2>2. y \in Nat /\ y + b <= z /\ z \in Nat
      BY <1>3, <2>1 DEF y, z
    <2>3. y + r \in 0..z - 1
      BY <1>1, <2>2
    <2> QED
      BY <2>3 DEF y, z
  <1>5. n = q * (b * p) + x
    <2>1. b * m = b * (p * q) + b * t
      BY <1>2
    <2>2. b * (p * q) = q * (b * p)
      BY <1>2
    <2>3. b * m \in Int /\ b * t \in Int /\ q * (b * p) \in Int
      BY <1>1, <1>2
    <2>4. b * m = q * (b * p) + b * t
      BY <2>1, <2>2
    <2> DEFINE u == b * m
               v == q * (b * p)
               w == b * t
    <2>5. n = u + r /\ u = v + w /\ u \in Int /\ v \in Int /\ w \in Int
      BY <1>1, <2>3, <2>4
    <2> HIDE DEF u, v, w
    <2>6. n = v + (w + r)
      BY <1>1, <2>5
    <2> QED
      BY <2>6 DEF v, w
  <1> HIDE DEF x
  <1>6. (q * (b * p) + x) \div (b * p) = q /\ (q * (b * p) + x) % (b * p) = x
    <2> DEFINE z == b * p
    <2>1. z \in Nat \ {0} /\ x \in 0..z - 1
      BY <1>3, <1>4
    <2> HIDE DEF z
    <2>2. (q * z + x) \div z = q /\ (q * z + x) % z = x
      BY <1>2, <2>1, Multiples
    <2> QED
      BY <2>2 DEF z
  <1>7. n \div (b * p) = q /\ n % (b * p) = x
    BY <1>5, <1>6
  <1> QED
    BY <1>7 DEF x, q, t, m, r

-----------------------------------------------------------------------------
(* Divisibility *)

Divides(d, x) == \E k \in Int : x = d * k

\* What divides two numbers divides what is put together of their multiples.
LEMMA DividesSum ==
    ASSUME NEW d \in Int, NEW x \in Int, NEW y \in Int, NEW a \in Int, NEW b \in Int,
           Divides(d, x), Divides(d, y)
    PROVE  Divides(d, a * x + b * y)
  <1>1. PICK k \in Int : x = d * k
    BY DEF Divides
  <1>2. PICK l \in Int : y = d * l
    BY DEF Divides
  <1>3. a * (d * k) + b * (d * l) = d * (a * k + b * l)
    OBVIOUS
  <1>4. a * k + b * l \in Int
    OBVIOUS
  <1> QED
    BY <1>1, <1>2, <1>3, <1>4 DEF Divides

\* What divides a number divides its multiples.
LEMMA DividesTimes ==
    ASSUME NEW d \in Int, NEW x \in Int, NEW a \in Int, Divides(d, x)
    PROVE  Divides(d, a * x) /\ Divides(d, x * a)
  <1>1. PICK k \in Int : x = d * k
    BY DEF Divides
  <1>2. a * (d * k) = d * (a * k) /\ (d * k) * a = d * (a * k) /\ a * k \in Int
    OBVIOUS
  <1> QED
    BY <1>1, <1>2 DEF Divides

\* A remainder is what is left above a multiple.
LEMMA Remainder ==
    ASSUME NEW x \in Int, NEW n \in Nat \ {0}
    PROVE  x \div n \in Int /\ x % n \in 0..n - 1 /\ x = n * (x \div n) + (x % n)
  OBVIOUS

\* A number that leaves nothing is a multiple.
LEMMA NothingLeft ==
    ASSUME NEW x \in Int, NEW n \in Nat \ {0}
    PROVE  x % n = 0 <=> Divides(n, x)
  <1>1. ASSUME x % n = 0 PROVE Divides(n, x)
    <2>1. x \div n \in Int /\ x = n * (x \div n)
      BY <1>1, Remainder
    <2> QED
      BY <2>1 DEF Divides
  <1>2. ASSUME Divides(n, x) PROVE x % n = 0
    <2>1. PICK k \in Int : x = n * k
      BY <1>2 DEF Divides
    <2>2. 0 \in 0..n - 1
      OBVIOUS
    <2>3. (k * n + 0) % n = 0
      BY <2>2, Multiples
    <2>4. x = k * n + 0
      BY <2>1
    <2> QED
      BY <2>3, <2>4
  <1> QED
    BY <1>1, <1>2

\* A divisor of a positive number is no larger.
LEMMA DivisorIsLess ==
    ASSUME NEW d \in Nat, NEW x \in Nat \ {0}, Divides(d, x)
    PROVE  d \in 1..x /\ \E k \in 1..x : x = d * k
  <1>1. PICK k \in Int : x = d * k
    BY DEF Divides
  <1>2. d # 0
    <2>1. SUFFICES ASSUME d = 0 PROVE FALSE
      OBVIOUS
    <2> QED
      BY <1>1, <2>1
  <1>3. k > 0
    <2>1. SUFFICES ASSUME k <= 0 PROVE FALSE
      OBVIOUS
    <2>2. d * k <= 0
      BY <1>2, <2>1
    <2> QED
      BY <1>1, <2>2
  <1>4. d * (k - 1) >= 0 /\ d * (k - 1) = d * k - d
    BY <1>2, <1>3
  <1>5. (d - 1) * k >= 0 /\ (d - 1) * k = d * k - k
    BY <1>2, <1>3
  <1>6. d <= x /\ k <= x
    <2>1. d * k \in Int
      OBVIOUS
    <2> QED
      BY <1>1, <1>4, <1>5, <2>1
  <1> QED
    BY <1>1, <1>2, <1>3, <1>6

\* Two numbers that no number but one divides put one together.
LEMMA Bezout ==
    ASSUME NEW a \in Int, NEW b \in Nat \ {0},
           \A d \in 1..b : Divides(d, a) /\ Divides(d, b) => d = 1
    PROVE  \E x, y \in Int : a * x + b * y = 1
  <1> DEFINE I == {v \in Nat \ {0} : \E x, y \in Int : v = a * x + b * y}
  <1>1. b \in I
    <2>1. b = a * 0 + b * 1 /\ 0 \in Int /\ 1 \in Int
      OBVIOUS
    <2> QED
      BY <2>1
  <1>2. PICK g \in I : \A v \in I : g <= v
    <2>1. I \subseteq Nat
      OBVIOUS
    <2> HIDE DEF I
    <2> QED
      BY <1>1, <2>1, Least
  <1>3. PICK x \in Int, y \in Int : g = a * x + b * y
    BY <1>2
  <1>4. g \in Nat \ {0}
    BY <1>2
  <1>5. ASSUME NEW u \in Int, NEW w \in Int PROVE Divides(g, a * u + b * w)
    <2> DEFINE z == a * u + b * w
               q == z \div g
               r == z % g
    <2>1. q \in Int /\ r \in 0..g - 1 /\ z = g * q + r
      <3>1. z \in Int
        OBVIOUS
      <3> HIDE DEF z
      <3> QED
        BY <1>4, <3>1, Remainder
    <2> HIDE DEF q, r
    <2>2. r = a * (u - x * q) + b * (w - y * q)
      <3>1. (a * x + b * y) * q = a * (x * q) + b * (y * q)
        BY <2>1
      <3>2. a * (u - x * q) + b * (w - y * q) = (a * u + b * w) - (a * (x * q) + b * (y * q))
        BY <2>1
      <3>3. r = z - g * q
        BY <2>1, <1>4
      <3> QED
        BY <1>3, <1>5, <3>1, <3>2, <3>3
    <2>3. u - x * q \in Int /\ w - y * q \in Int
      BY <2>1
    <2>4. r = 0
      <3> SUFFICES ASSUME r # 0 PROVE FALSE
        OBVIOUS
      <3>1. r \in I
        <4>1. r \in Nat \ {0}
          BY <2>1, <1>4
        <4> QED
          BY <2>2, <2>3, <4>1
      <3>2. g <= r
        BY <1>2, <3>1
      <3> QED
        BY <2>1, <3>2, <1>4
    <2>5. Divides(g, z)
      <3>1. z % g = 0 /\ z \in Int
        BY <2>4 DEF r
      <3> HIDE DEF z
      <3> QED
        BY <1>4, <3>1, NothingLeft
    <2> QED
      BY <2>5
  <1>6. Divides(g, a)
    <2> DEFINE one == 1
               none == 0
    <2>1. one \in Int /\ none \in Int /\ a = a * one + b * none
      OBVIOUS
    <2> HIDE DEF one, none
    <2> QED
      BY <1>5, <2>1
  <1>7. Divides(g, b)
    <2> DEFINE one == 1
               none == 0
    <2>1. one \in Int /\ none \in Int /\ b = a * none + b * one
      OBVIOUS
    <2> HIDE DEF one, none
    <2> QED
      BY <1>5, <2>1
  <1>8. g = 1
    <2>1. g \in 1..b
      BY <1>4, <1>7, DivisorIsLess
    <2> QED
      BY <1>6, <1>7, <2>1
  <1> QED
    BY <1>3, <1>8

-----------------------------------------------------------------------------
(* Primes *)

\* A prime has no divisors but one and itself.
LEMMA PrimeDivisors ==
    ASSUME NEW p \in Nat, IsPrime(p), NEW d \in 1..p, Divides(d, p)
    PROVE  d = 1 \/ d = p
  <1> SUFFICES ASSUME d \in 2..p - 1 PROVE FALSE
    OBVIOUS
  <1>1. p \in Nat \ {0}
    BY DEF IsPrime
  <1>2. PICK k \in 1..p : p = d * k
    BY <1>1, DivisorIsLess
  <1>3. k \in 2..p - 1
    <2>1. k # 1
      BY <1>2
    <2>2. k # p
      <3>1. ASSUME k = p PROVE FALSE
        <4>1. (d - 1) * p > 0 /\ (d - 1) * p = d * p - p
          BY <1>1
        <4> QED
          BY <1>2, <3>1, <4>1
      <3> QED
        BY <3>1
    <2> QED
      BY <1>2, <2>1, <2>2
  <1>4. p % d = 0 /\ p % k = 0
    <2>1. Divides(k, p)
      <3>1. p = k * d
        BY <1>2
      <3> QED
        BY <3>1 DEF Divides
    <2>2. d \in Nat \ {0} /\ k \in Nat \ {0} /\ p \in Int
      BY <1>3
    <2> QED
      BY <2>1, <2>2, NothingLeft
  <1>5. d * d > p
    BY <1>4 DEF IsPrime
  <1>6. k * k > p
    BY <1>3, <1>4 DEF IsPrime
  <1>7. d > k
    <2> SUFFICES ASSUME d <= k PROVE FALSE
      BY <1>2
    <2>1. d * (k - d) >= 0 /\ d * (k - d) = d * k - d * d
      BY <1>2
    <2> QED
      BY <1>2, <1>5, <2>1
  <1>8. k * (d - k) >= 0 /\ k * (d - k) = d * k - k * k
    BY <1>2, <1>7
  <1> QED
    BY <1>2, <1>6, <1>8

\* A prime that divides a product divides a factor.
LEMMA PrimeFactor ==
    ASSUME NEW p \in Nat, IsPrime(p), NEW a \in Int, NEW b \in Int, Divides(p, a * b)
    PROVE  Divides(p, a) \/ Divides(p, b)
  <1> SUFFICES ASSUME ~Divides(p, a) PROVE Divides(p, b)
    OBVIOUS
  <1>1. p \in Nat \ {0}
    BY DEF IsPrime
  <1>2. \A d \in 1..p : Divides(d, a) /\ Divides(d, p) => d = 1
    BY PrimeDivisors
  <1>3. PICK x \in Int, y \in Int : a * x + p * y = 1
    BY <1>1, <1>2, Bezout
  <1>4. b = x * (a * b) + (b * y) * p
    <2>1. b * (a * x + p * y) = x * (a * b) + (b * y) * p
      BY <1>1
    <2>2. b * (a * x + p * y) = b
      BY <1>3
    <2> QED
      BY <2>1, <2>2
  <1>5. Divides(p, p)
    <2>1. p = p * 1
      OBVIOUS
    <2> QED
      BY <2>1 DEF Divides
  <1>6. Divides(p, x * (a * b) + (b * y) * p)
    <2>1. a * b \in Int /\ b * y \in Int /\ p \in Int
      OBVIOUS
    <2> DEFINE u == a * b
               v == b * y
    <2> HIDE DEF u, v
    <2>2. Divides(p, x * u + v * p)
      BY <1>5, <2>1, DividesSum DEF u, v
    <2> QED
      BY <2>2 DEF u, v
  <1> QED
    BY <1>4, <1>6

-----------------------------------------------------------------------------
(* Numbers that leave the same *)

Same(x, y, n) == Divides(n, x - y)

\* Numbers with the same remainder differ by a multiple, and the other way round.
LEMMA SameIs ==
    ASSUME NEW x \in Int, NEW y \in Int, NEW n \in Nat \ {0}
    PROVE  Same(x, y, n) <=> x % n = y % n
  <1> DEFINE q == x \div n
             r == x % n
             t == y \div n
             u == y % n
  <1>1. q \in Int /\ r \in 0..n - 1 /\ x = n * q + r
    BY Remainder
  <1>2. t \in Int /\ u \in 0..n - 1 /\ y = n * t + u
    BY Remainder
  <1>3. ASSUME r = u PROVE Same(x, y, n)
    <2>1. x - y = n * (q - t) /\ q - t \in Int
      BY <1>1, <1>2, <1>3
    <2> QED
      BY <2>1 DEF Same, Divides
  <1>4. ASSUME Same(x, y, n) PROVE r = u
    <2>1. PICK k \in Int : x - y = n * k
      BY <1>4 DEF Same, Divides
    <2> HIDE DEF q, r, t, u
    <2>2. x = (k + t) * n + u /\ k + t \in Int
      <3>1. (k + t) * n = n * k + n * t
        BY <1>2
      <3>2. n * k \in Int /\ n * t \in Int /\ u \in Int
        BY <1>2
      <3> QED
        BY <1>2, <2>1, <3>1, <3>2
    <2>3. ((k + t) * n + u) % n = u
      BY <1>2, <2>2, Multiples
    <2> QED
      BY <2>2, <2>3 DEF r
  <1> QED
    BY <1>3, <1>4

\* A remainder leaves the same as the number.
LEMMA SameRemainder ==
    ASSUME NEW x \in Int, NEW n \in Nat \ {0}
    PROVE  x % n \in Int /\ Same(x % n, x, n) /\ Same(x, x % n, n)
  <1>1. x \div n \in Int /\ x % n \in Int /\ x = n * (x \div n) + (x % n)
    BY Remainder
  <1> DEFINE q == x \div n
             r == x % n
  <1> HIDE DEF q, r
  <1>2. q \in Int /\ r \in Int /\ x = n * q + r
    BY <1>1 DEF q, r
  <1>3. r - x = n * (-q) /\ -q \in Int /\ x - r = n * q
    BY <1>2
  <1> QED
    BY <1>2, <1>3 DEF Same, Divides, r

LEMMA SameTransitive ==
    ASSUME NEW n \in Int, NEW x \in Int, NEW y \in Int, NEW z \in Int, Same(x, y, n), Same(y, z, n)
    PROVE  Same(x, z, n)
  <1>1. PICK k \in Int : x - y = n * k
    BY DEF Same, Divides
  <1>2. PICK l \in Int : y - z = n * l
    BY DEF Same, Divides
  <1>3. x - z = n * (k + l) /\ k + l \in Int
    BY <1>1, <1>2
  <1> QED
    BY <1>3 DEF Same, Divides

\* Products of numbers that leave the same leave the same.
LEMMA SameTimes ==
    ASSUME NEW n \in Int, NEW x \in Int, NEW y \in Int, NEW u \in Int, NEW v \in Int,
           Same(x, y, n), Same(u, v, n)
    PROVE  Same(x * u, y * v, n)
  <1>1. x - y \in Int /\ u - v \in Int
    OBVIOUS
  <1>2. Divides(n, u * (x - y) + y * (u - v))
    <2> DEFINE a == x - y
               b == u - v
    <2>1. Divides(n, a) /\ Divides(n, b) /\ a \in Int /\ b \in Int
      BY DEF Same
    <2> HIDE DEF a, b
    <2>2. Divides(n, u * a + y * b)
      BY <2>1, DividesSum
    <2> QED
      BY <2>2 DEF a, b
  <1>3. u * (x - y) + y * (u - v) = x * u - y * v
    OBVIOUS
  <1> QED
    BY <1>2, <1>3 DEF Same

\* And so do powers.
LEMMA SamePowers ==
    ASSUME NEW n \in Int, NEW x \in Int, NEW y \in Int, Same(x, y, n),
           NEW g, Powers(x, g), NEW h, Powers(y, h), NEW k \in Nat
    PROVE  Same(g[k], h[k], n)
  <1> DEFINE G == {i \in Nat : Same(g[i], h[i], n)}
  <1>1. 0 \in G
    <2>1. g[0] - h[0] = n * 0 /\ 0 \in Int
      BY DEF Powers
    <2> QED
      BY <2>1 DEF Same, Divides
  <1>2. ASSUME NEW i \in Nat, i \in G PROVE i + 1 \in G
    <2>1. g[i] \in Int /\ h[i] \in Int /\ g[i + 1] = x * g[i] /\ h[i + 1] = y * h[i]
      BY DEF Powers
    <2>2. Same(x * g[i], y * h[i], n)
      BY <1>2, <2>1, SameTimes
    <2> QED
      BY <2>1, <2>2
  <1> HIDE DEF G
  <1>3. Nat \subseteq G
    BY <1>1, <1>2, Induction
  <1> QED
    BY <1>3 DEF G

\* A power of a power: exponents are multiplied.
LEMMA PowersTimes ==
    ASSUME NEW b \in Int, NEW g, Powers(b, g), NEW i \in Nat, NEW h, Powers(g[i], h), NEW j \in Nat
    PROVE  h[j] = g[i * j]
  <1> DEFINE G == {k \in Nat : h[k] = g[i * k]}
  <1>1. 0 \in G
    <2>1. i * 0 = 0 /\ g[0] = 1 /\ h[0] = 1
      BY DEF Powers
    <2> QED
      BY <2>1
  <1>2. ASSUME NEW k \in Nat, k \in G PROVE k + 1 \in G
    <2>1. i * k \in Nat /\ i * (k + 1) = i + i * k
      OBVIOUS
    <2>2. g[i + i * k] = g[i] * g[i * k]
      BY <2>1, PowersAdd
    <2>3. h[k + 1] = g[i] * h[k]
      BY DEF Powers
    <2> QED
      BY <1>2, <2>1, <2>2, <2>3
  <1> HIDE DEF G
  <1>3. Nat \subseteq G
    BY <1>1, <1>2, Induction
  <1> QED
    BY <1>3 DEF G

-----------------------------------------------------------------------------
(* Products *)

\* h holds the products of the first factors of f.
Products(n, f, h) ==
    /\ \A i \in 0..n : h[i] \in Int
    /\ h[0] = 1 /\ \A i \in 0..n - 1 : h[i + 1] = h[i] * f[i + 1]

LEMMA ProductsExist ==
    ASSUME NEW n \in Nat, NEW f, \A i \in 1..n : f[i] \in Int
    PROVE  \E h : Products(n, f, h)
  <1> DEFINE F == [ix \in Nat \X Int |-> IF ix[1] + 1 \in 1..n THEN ix[2] * f[ix[1] + 1] ELSE ix[2]]
  <1>1. \A i \in Nat, x \in Int : F[<<i, x>>] = IF i + 1 \in 1..n THEN x * f[i + 1] ELSE x
    OBVIOUS
  <1>2. StepOf(F, Int)
    BY DEF StepOf
  <1> HIDE DEF F
  <1>3. PICK h : Path(n, h, 1, F, Int)
    <2>1. 1 \in Int
      OBVIOUS
    <2> QED
      BY <1>2, <2>1, PathExists
  <1>4. h \in [0..n -> Int] /\ h[0] = 1 /\ \A i \in 0..n - 1 : h[i + 1] = F[<<i, h[i]>>]
    BY <1>3 DEF Path
  <1>5. ASSUME NEW i \in 0..n - 1 PROVE h[i + 1] = h[i] * f[i + 1]
    <2>1. i \in Nat /\ i \in 0..n /\ i + 1 \in 1..n
      OBVIOUS
    <2>2. h[i] \in Int /\ h[i + 1] = F[<<i, h[i]>>]
      BY <1>4, <2>1
    <2> QED
      BY <1>1, <2>1, <2>2
  <1> QED
    BY <1>4, <1>5 DEF Products

\* Another factor in one place.
LEMMA OneFactor ==
    ASSUME NEW n \in Nat, NEW f, \A i \in 1..n : f[i] \in Int, NEW g, \A i \in 1..n : g[i] \in Int,
           NEW h, Products(n, f, h), NEW k, Products(n, g, k),
           NEW j \in 1..n + 1, \A i \in 1..n : i # j => f[i] = g[i]
    PROVE  IF j <= n THEN h[n] * g[j] = k[n] * f[j] ELSE h[n] = k[n]
  <1> DEFINE G == {m \in Nat : m <= n => IF j <= m THEN h[m] * g[j] = k[m] * f[j] ELSE h[m] = k[m]}
  <1>1. 0 \in G
    BY DEF Products
  <1>2. ASSUME NEW m \in Nat, m \in G PROVE m + 1 \in G
    <2> SUFFICES ASSUME m + 1 <= n
                 PROVE  IF j <= m + 1 THEN h[m + 1] * g[j] = k[m + 1] * f[j] ELSE h[m + 1] = k[m + 1]
      OBVIOUS
    <2>1. m \in 0..n - 1 /\ m \in 0..n /\ m + 1 \in 1..n
      OBVIOUS
    <2>2. IF j <= m THEN h[m] * g[j] = k[m] * f[j] ELSE h[m] = k[m]
      BY <1>2
    <2>3. h[m] \in Int /\ k[m] \in Int /\ f[m + 1] \in Int /\ g[m + 1] \in Int
      BY <2>1 DEF Products
    <2>4. h[m + 1] = h[m] * f[m + 1] /\ k[m + 1] = k[m] * g[m + 1]
      BY <2>1 DEF Products
    <2>5. CASE j <= m
      <3>1. j \in 1..n /\ f[m + 1] = g[m + 1] /\ f[j] \in Int /\ g[j] \in Int
        BY <2>1, <2>5
      <3>2. (h[m] * g[j]) * f[m + 1] = (h[m] * f[m + 1]) * g[j]
        BY <2>3, <3>1
      <3>3. (k[m] * f[j]) * f[m + 1] = (k[m] * f[m + 1]) * f[j]
        BY <2>3, <3>1
      <3> QED
        BY <2>2, <2>4, <2>5, <3>1, <3>2, <3>3
    <2>6. CASE j = m + 1
      <3>1. h[m] = k[m] /\ (h[m] * f[j]) * g[j] = (h[m] * g[j]) * f[j]
        BY <2>2, <2>3, <2>6
      <3> QED
        BY <2>4, <2>6, <3>1
    <2>7. CASE j > m + 1
      <3>1. h[m] = k[m] /\ f[m + 1] = g[m + 1]
        BY <2>1, <2>2, <2>7
      <3> QED
        BY <2>4, <2>7, <3>1
    <2> QED
      BY <2>5, <2>6, <2>7
  <1> HIDE DEF G
  <1>3. Nat \subseteq G
    BY <1>1, <1>2, Induction
  <1> QED
    BY <1>3 DEF G

\* f takes every number of 1..n once.
Rearranges(n, f) ==
    /\ \A i \in 1..n : f[i] \in 1..n
    /\ \A i, j \in 1..n : f[i] = f[j] => i = j
    /\ \A y \in 1..n : \E i \in 1..n : f[i] = y

\* The numbers from 1 to n have the same product in whatever order.
LEMMA Rearranged ==
    ASSUME NEW n \in Nat, NEW f, Rearranges(n, f), NEW h, Products(n, f, h),
           NEW w, Products(n, [i \in Nat |-> i], w)
    PROVE  h[n] = w[n]
  <1> DEFINE id == [i \in Nat |-> i]
             Good(m) == \A e, u, v : Rearranges(m, e) /\ Products(m, e, u) /\ Products(m, id, v) => u[m] = v[m]
             G == {m \in Nat : Good(m)}
  <1>1. 0 \in G
    BY DEF Products
  <1>2. ASSUME NEW m \in Nat, m \in G PROVE m + 1 \in G
    <2> SUFFICES ASSUME NEW e, NEW u, NEW v, Rearranges(m + 1, e), Products(m + 1, e, u), Products(m + 1, id, v)
                 PROVE  u[m + 1] = v[m + 1]
      OBVIOUS
    <2>0. m + 1 \in 1..m + 1 /\ 1..m \subseteq 1..m + 1
      OBVIOUS
    <2>1. PICK j \in 1..m + 1 : e[j] = m + 1
      BY <2>0 DEF Rearranges
    <2> DEFINE g == [i \in 1..m |-> IF i = j THEN e[m + 1] ELSE e[i]]
    <2>2. ASSUME NEW i \in 1..m PROVE g[i] \in 1..m
      <3>1. e[i] \in 1..m + 1 /\ e[m + 1] \in 1..m + 1 /\ i # m + 1
        BY <2>0 DEF Rearranges
      <3>2. i # j => e[i] # m + 1
        BY <2>0, <2>1 DEF Rearranges
      <3>3. i = j => e[m + 1] # m + 1
        BY <2>0, <2>1, <3>1 DEF Rearranges
      <3> QED
        BY <3>1, <3>2, <3>3
    <2>3. ASSUME NEW i \in 1..m, NEW l \in 1..m, g[i] = g[l] PROVE i = l
      <3>1. i \in 1..m + 1 /\ l \in 1..m + 1 /\ m + 1 \in 1..m + 1 /\ i # m + 1 /\ l # m + 1
        OBVIOUS
      <3>2. \A a, b \in 1..m + 1 : e[a] = e[b] => a = b
        BY DEF Rearranges
      <3>3. e[i] = e[l] => i = l
        BY <3>1, <3>2
      <3>4. e[m + 1] # e[l] /\ e[m + 1] # e[i]
        BY <3>1, <3>2
      <3> QED
        BY <2>3, <3>3, <3>4
    <2>4. ASSUME NEW y \in 1..m PROVE \E i \in 1..m : g[i] = y
      <3>1. PICK i \in 1..m + 1 : e[i] = y
        BY <2>0 DEF Rearranges
      <3>2. y # m + 1 /\ i # j
        BY <2>1, <3>1
      <3>3. CASE i = m + 1
        <4>1. j \in 1..m
          BY <3>2, <3>3
        <4> QED
          BY <3>1, <3>3, <4>1
      <3>4. CASE i # m + 1
        <4>1. i \in 1..m
          BY <3>4
        <4> QED
          BY <3>1, <3>2, <4>1
      <3> QED
        BY <3>3, <3>4
    <2>5. \A i \in 1..m : i # j => e[i] = g[i]
      OBVIOUS
    <2>6. j <= m => g[j] = e[m + 1]
      OBVIOUS
    <2> HIDE DEF g, id
    <2>7. Rearranges(m, g)
      BY <2>2, <2>3, <2>4 DEF Rearranges
    <2>8. \A i \in 1..m : g[i] \in Int /\ e[i] \in Int
      BY <2>0, <2>2 DEF Rearranges
    <2>9. PICK k : Products(m, g, k)
      BY <2>8, ProductsExist
    <2>10. Products(m, id, v) /\ Products(m, e, u)
      <3>1. 0..m \subseteq 0..m + 1 /\ 0..m - 1 \subseteq 0..(m + 1) - 1
        OBVIOUS
      <3> QED
        BY <3>1 DEF Products
    <2>11. k[m] = v[m]
      BY <1>2, <2>7, <2>9, <2>10
    <2>12. u[m + 1] = u[m] * e[m + 1] /\ v[m + 1] = v[m] * (m + 1)
      <3>1. m \in 0..(m + 1) - 1 /\ id[m + 1] = m + 1
        BY DEF id
      <3> QED
        BY <3>1 DEF Products
    <2>13. IF j <= m THEN u[m] * g[j] = k[m] * e[j] ELSE u[m] = k[m]
      <3>1. \A i \in 1..m : i # j => e[i] = g[i]
        BY <2>5
      <3>2. /\ \A i \in 1..m : e[i] \in Int
            /\ \A i \in 1..m : g[i] \in Int
        BY <2>8
      <3>3. Products(m, e, u) /\ Products(m, g, k) /\ j \in 1..m + 1 /\ m \in Nat
        BY <2>9, <2>10
      <3> QED
        BY <3>1, <3>2, <3>3, OneFactor
    <2>14. CASE j <= m
      BY <2>1, <2>6, <2>11, <2>12, <2>13, <2>14
    <2>15. CASE ~(j <= m)
      <3>1. j = m + 1
        BY <2>15
      <3> QED
        BY <2>1, <2>11, <2>12, <2>13, <2>15, <3>1
    <2> QED
      BY <2>14, <2>15
  <1> HIDE DEF Good
  <1>3. Nat \subseteq G
    <2> HIDE DEF G
    <2> QED
      BY <1>1, <1>2, Induction
  <1>4. Good(n)
    BY <1>3
  <1> HIDE DEF G
  <1> QED
    BY <1>4 DEF Good

\* A prime divides no product of numbers it does not divide.
LEMMA PrimeFactors ==
    ASSUME NEW p \in Nat, IsPrime(p), NEW n \in Nat, NEW f, NEW h, Products(n, f, h),
           \A i \in 1..n : f[i] \in Int /\ ~Divides(p, f[i])
    PROVE  ~Divides(p, h[n])
  <1> DEFINE G == {k \in Nat : k <= n => ~Divides(p, h[k])}
  <1>1. 0 \in G
    <2> SUFFICES ASSUME Divides(p, 1) PROVE FALSE
      BY DEF Products
    <2>1. p \in 1..1
      BY DivisorIsLess
    <2> QED
      BY <2>1 DEF IsPrime
  <1>2. ASSUME NEW k \in Nat, k \in G PROVE k + 1 \in G
    <2> SUFFICES ASSUME k + 1 <= n, Divides(p, h[k + 1]) PROVE FALSE
      OBVIOUS
    <2>1. k \in 0..n - 1 /\ k \in 0..n /\ k + 1 \in 1..n /\ ~Divides(p, h[k])
      BY <1>2
    <2>2. h[k] \in Int /\ f[k + 1] \in Int /\ h[k + 1] = h[k] * f[k + 1]
      BY <2>1 DEF Products
    <2> QED
      BY <2>1, <2>2, PrimeFactor
  <1> HIDE DEF G
  <1>3. Nat \subseteq G
    BY <1>1, <1>2, Induction
  <1> QED
    BY <1>3 DEF G

-----------------------------------------------------------------------------
(* Fermat's theorem *)

\* Numbers below n that leave the same are the same.
LEMMA SameBelow ==
    ASSUME NEW n \in Nat \ {0}, NEW i \in 0..n - 1, NEW j \in 0..n - 1
    PROVE  i % n = i /\ (Same(i, j, n) => i = j)
  <1>1. ASSUME NEW x \in 0..n - 1 PROVE x % n = x
    <2> DEFINE q == 0
    <2>1. q \in Int /\ x = q * n + x
      OBVIOUS
    <2> HIDE DEF q
    <2>2. (q * n + x) % n = x
      BY <2>1, Multiples
    <2> QED
      BY <2>1, <2>2
  <1>2. i % n = i /\ j % n = j
    BY <1>1
  <1>3. i \in Int /\ j \in Int
    OBVIOUS
  <1> QED
    BY <1>2, <1>3, SameIs

\* A number that the prime p does not divide has another that makes one with it.
LEMMA PrimeInverse ==
    ASSUME NEW p \in Nat, IsPrime(p), NEW a \in Int, ~Divides(p, a)
    PROVE  \E x \in Int : Same(a * x, 1, p)
  <1>1. p \in Nat \ {0}
    BY DEF IsPrime
  <1>2. \A d \in 1..p : Divides(d, a) /\ Divides(d, p) => d = 1
    BY PrimeDivisors
  <1>3. PICK x \in Int, y \in Int : a * x + p * y = 1
    BY <1>1, <1>2, Bezout
  <1>4. a * x - 1 = p * (-y) /\ -y \in Int
    <2>1. p * (-y) = -(p * y) /\ a * x \in Int /\ p * y \in Int
      BY <1>1
    <2> QED
      BY <1>3, <2>1
  <1> QED
    BY <1>4 DEF Same, Divides

\* The multiples of a leave every number below p but zero, each once.
LEMMA MultiplesRearranged ==
    ASSUME NEW p \in Nat, IsPrime(p), NEW a \in Int, ~Divides(p, a)
    PROVE  Rearranges(p - 1, [i \in 1..p - 1 |-> (a * i) % p])
  <1> DEFINE f == [i \in 1..p - 1 |-> (a * i) % p]
  <1>1. p \in Nat \ {0} /\ p - 1 \in Nat /\ p \in Int
    BY DEF IsPrime
  <1>2. ASSUME NEW i \in 0..p - 1 PROVE i \in Int /\ a * i \in Int /\ (a * i) % p \in 0..p - 1
    <2>1. i \in Int /\ a * i \in Int
      OBVIOUS
    <2> DEFINE z == a * i
    <2> HIDE DEF z
    <2>2. z % p \in 0..p - 1
      BY <1>1, <2>1, Remainder DEF z
    <2> QED
      BY <2>1, <2>2 DEF z
  <1>3. ASSUME NEW i \in 1..p - 1 PROVE ~Divides(p, i)
    <2>1. Divides(p, i) => p \in 1..i
      BY DivisorIsLess
    <2> QED
      BY <2>1
  <1>4. ASSUME NEW i \in 1..p - 1 PROVE f[i] \in 1..p - 1
    <2>1. f[i] = (a * i) % p /\ i \in 0..p - 1
      OBVIOUS
    <2>2. a * i \in Int /\ f[i] \in 0..p - 1
      BY <1>2, <2>1
    <2>3. f[i] # 0
      <3> SUFFICES ASSUME f[i] = 0 PROVE FALSE
        OBVIOUS
      <3>1. Divides(p, a * i)
        BY <1>1, <2>1, <2>2, NothingLeft
      <3>2. i \in Int
        OBVIOUS
      <3> QED
        BY <1>3, <3>1, <3>2, PrimeFactor
    <2> QED
      BY <2>2, <2>3
  <1>5. ASSUME NEW i \in 1..p - 1, NEW j \in 1..p - 1, f[i] = f[j] PROVE i = j
    <2>1. i \in 0..p - 1 /\ j \in 0..p - 1 /\ (a * i) % p = (a * j) % p
      BY <1>5
    <2>2. Same(a * i, a * j, p)
      BY <1>1, <1>2, <2>1, SameIs
    <2>3. i - j \in Int /\ a * i - a * j = a * (i - j)
      OBVIOUS
    <2>4. Divides(p, i - j)
      BY <2>2, <2>3, PrimeFactor DEF Same
    <2>5. Same(i, j, p)
      BY <2>4 DEF Same
    <2> QED
      BY <1>1, <2>1, <2>5, SameBelow
  <1>6. ASSUME NEW y \in 1..p - 1 PROVE \E i \in 1..p - 1 : f[i] = y
    <2>1. PICK x \in Int : Same(a * x, 1, p)
      BY PrimeInverse
    <2> DEFINE z == x * y
               i == z % p
    <2>2. z \in Int /\ y \in Int /\ y \in 0..p - 1
      OBVIOUS
    <2>3. a * z = (a * x) * y /\ a * x \in Int /\ a * z \in Int
      OBVIOUS
    <2> HIDE DEF z
    <2>4. i \in 0..p - 1 /\ i \in Int /\ Same(i, z, p)
      BY <1>1, <2>2, Remainder, SameRemainder
    <2> HIDE DEF i
    <2>5. Same(a * i, a * z, p)
      <3>1. Same(a, a, p)
        <4>1. a - a = p * 0 /\ 0 \in Int
          BY <1>1
        <4> QED
          BY <4>1 DEF Same, Divides
      <3> QED
        BY <1>1, <2>2, <2>4, <3>1, SameTimes
    <2>6. Same(a * z, y, p)
      <3>1. Same(y, y, p)
        <4>1. y - y = p * 0 /\ 0 \in Int
          BY <1>1
        <4> QED
          BY <4>1 DEF Same, Divides
      <3>2. 1 \in Int /\ 1 * y = y
        OBVIOUS
      <3>3. Same((a * x) * y, 1 * y, p)
        BY <1>1, <2>1, <2>2, <2>3, <3>1, <3>2, SameTimes
      <3> QED
        BY <2>3, <3>2, <3>3
    <2>7. (a * i) % p = y
      <3>1. a * i \in Int
        BY <2>4
      <3>2. Same(a * i, y, p)
        BY <1>1, <2>2, <2>3, <2>5, <2>6, <3>1, SameTransitive
      <3>3. y % p = y
        BY <1>1, <2>2, SameBelow
      <3> QED
        BY <1>1, <2>2, <3>1, <3>2, <3>3, SameIs
    <2>8. i # 0
      <3> SUFFICES ASSUME i = 0 PROVE FALSE
        OBVIOUS
      <3>1. a * i = 0 /\ 0 \in 0..p - 1
        BY <1>1
      <3>2. 0 % p = 0
        BY <1>1, <3>1, SameBelow
      <3> QED
        BY <2>7, <3>1, <3>2
    <2>9. i \in 1..p - 1
      BY <2>4, <2>8
    <2> QED
      BY <2>7, <2>9
  <1> HIDE DEF f
  <1>7. Rearranges(p - 1, f)
    BY <1>4, <1>5, <1>6 DEF Rearranges
  <1> QED
    BY <1>7 DEF f

\* The power p - 1 of a number that the prime p does not divide leaves one.
LEMMA Fermat ==
    ASSUME NEW p \in Nat, IsPrime(p), NEW a \in Int, ~Divides(p, a), NEW g, Powers(a, g)
    PROVE  Same(g[p - 1], 1, p)
  <1> DEFINE n == p - 1
             f == [i \in 1..n |-> (a * i) % p]
             id == [i \in Nat |-> i]
  <1>1. p \in Nat \ {0} /\ n \in Nat /\ p \in Int
    BY DEF IsPrime
  <1>2. Rearranges(n, f)
    BY MultiplesRearranged
  <1>3. \A i \in 1..n : f[i] = (a * i) % p /\ i \in Int /\ a * i \in Int /\ id[i] = i
    OBVIOUS
  <1> HIDE DEF n, f
  <1>4. \A i \in 1..n : f[i] \in Int /\ id[i] \in Int
    BY <1>2, <1>3 DEF Rearranges
  <1>5. PICK h : Products(n, f, h)
    BY <1>1, <1>4, ProductsExist
  <1>6. PICK w : Products(n, id, w)
    <2> HIDE DEF id
    <2> QED
      BY <1>1, <1>4, ProductsExist
  <1>7. h[n] = w[n]
    BY <1>1, <1>2, <1>5, <1>6, Rearranged
  <1> HIDE DEF id
  <1> DEFINE G == {k \in Nat : k <= n => Same(h[k], g[k] * w[k], p)}
  <1>8. 0 \in G
    <2>1. h[0] = 1 /\ w[0] = 1 /\ g[0] = 1
      BY <1>5, <1>6 DEF Products, Powers
    <2>2. 1 - 1 * 1 = p * 0 /\ 0 \in Int
      BY <1>1
    <2> QED
      BY <2>1, <2>2 DEF Same, Divides
  <1>9. ASSUME NEW k \in Nat, k \in G PROVE k + 1 \in G
    <2> SUFFICES ASSUME k + 1 <= n PROVE Same(h[k + 1], g[k + 1] * w[k + 1], p)
      OBVIOUS
    <2>1. k \in 0..n - 1 /\ k \in 0..n /\ k + 1 \in 1..n
      BY <1>1
    <2>2. Same(h[k], g[k] * w[k], p)
      BY <1>9, <2>1
    <2>3. h[k] \in Int /\ w[k] \in Int /\ h[k + 1] = h[k] * f[k + 1] /\ w[k + 1] = w[k] * (k + 1)
      BY <1>3, <1>5, <1>6, <2>1 DEF Products
    <2>4. g[k] \in Int /\ g[k + 1] = a * g[k]
      BY DEF Powers
    <2>5. f[k + 1] \in Int /\ a * (k + 1) \in Int /\ Same(f[k + 1], a * (k + 1), p)
      <3>1. f[k + 1] = (a * (k + 1)) % p /\ a * (k + 1) \in Int
        BY <1>3, <2>1
      <3> DEFINE z == a * (k + 1)
      <3> HIDE DEF z
      <3>2. z % p \in Int /\ Same(z % p, z, p)
        BY <1>1, <3>1, SameRemainder DEF z
      <3> QED
        BY <3>1, <3>2 DEF z
    <2>6. g[k] * w[k] \in Int
      BY <2>3, <2>4
    <2>7. Same(h[k] * f[k + 1], (g[k] * w[k]) * (a * (k + 1)), p)
      BY <1>1, <2>2, <2>3, <2>5, <2>6, SameTimes
    <2>8. (g[k] * w[k]) * (a * (k + 1)) = (a * g[k]) * (w[k] * (k + 1))
      BY <2>3, <2>4
    <2> QED
      BY <2>3, <2>4, <2>7, <2>8
  <1> HIDE DEF G
  <1>10. Nat \subseteq G
    BY <1>8, <1>9, Induction
  <1>11. Same(w[n], g[n] * w[n], p)
    BY <1>1, <1>7, <1>10 DEF G
  <1>12. ~Divides(p, w[n])
    <2>1. ASSUME NEW i \in 1..n PROVE ~Divides(p, i)
      <3>1. Divides(p, i) => p \in 1..i
        BY <1>1, DivisorIsLess
      <3> QED
        BY <1>1, <3>1 DEF n
    <2> QED
      BY <1>1, <1>3, <1>4, <1>6, <2>1, PrimeFactors
  <1>13. w[n] \in Int /\ g[n] \in Int
    BY <1>1, <1>6 DEF Products, Powers
  <1>14. Divides(p, w[n] * (1 - g[n]))
    <2>1. w[n] - g[n] * w[n] = w[n] * (1 - g[n])
      BY <1>13
    <2> QED
      BY <1>11, <2>1 DEF Same
  <1>15. Divides(p, 1 - g[n])
    <2> DEFINE x == w[n]
               y == 1 - g[n]
    <2>1. x \in Int /\ y \in Int /\ Divides(p, x * y) /\ ~Divides(p, x)
      BY <1>12, <1>13, <1>14
    <2> HIDE DEF x, y
    <2> QED
      BY <2>1, PrimeFactor DEF y
  <1>16. Divides(p, g[n] - 1)
    <2>1. PICK k \in Int : 1 - g[n] = p * k
      BY <1>15 DEF Divides
    <2>2. g[n] - 1 = p * (-k) /\ -k \in Int
      <3>1. p * (-k) = -(p * k) /\ p * k \in Int
        BY <1>1
      <3> QED
        BY <1>13, <2>1, <3>1
    <2> QED
      BY <2>2 DEF Divides
  <1> QED
    BY <1>16 DEF Same, n

-----------------------------------------------------------------------------
(* Exponents that undo each other *)

\* A multiple of p - 1 in the exponent makes no difference to the prime p.
LEMMA ExponentAround ==
    ASSUME NEW p \in Nat, IsPrime(p), NEW a \in Int, NEW g, Powers(a, g), NEW j \in Nat
    PROVE  Same(g[(p - 1) * j + 1], a, p)
  <1> DEFINE n == p - 1
  <1>1. p \in Nat \ {0} /\ p \in Int /\ n \in Nat
    BY DEF IsPrime
  <1>2. n * j \in Nat
    BY <1>1
  <1> HIDE DEF n
  <1>3. g[n * j + 1] = a * g[n * j] /\ g[n * j] \in Int
    BY <1>2 DEF Powers
  <1> DEFINE x == g[n * j]
  <1> HIDE DEF x
  <1>4. CASE Divides(p, a)
    <2>1. x \in Int /\ x - 1 \in Int /\ a * x - a = a * (x - 1)
      BY <1>3 DEF x
    <2>2. Divides(p, a * (x - 1))
      <3> DEFINE y == x - 1
      <3>1. y \in Int
        BY <2>1
      <3> HIDE DEF y
      <3>2. Divides(p, a * y)
        BY <1>1, <1>4, <3>1, DividesTimes
      <3> QED
        BY <3>2 DEF y
    <2> QED
      BY <1>3, <2>1, <2>2 DEF Same, n, x
  <1>5. CASE ~Divides(p, a)
    <2>1. Same(g[n], 1, p) /\ g[n] \in Int
      <3>1. g[n] \in Int
        BY <1>1 DEF Powers
      <3> QED
        BY <1>5, <3>1, Fermat DEF n
    <2>2. PICK h : Powers(g[n], h)
      BY <2>1, PowersExist
    <2> DEFINE ones == [k \in Nat |-> 1]
    <2>3. Powers(1, ones) /\ ones[j] = 1
      BY DEF Powers
    <2> HIDE DEF ones
    <2>4. h[j] = x
      BY <1>1, <2>2, PowersTimes DEF x
    <2>5. Same(x, 1, p)
      <3>1. 1 \in Int
        OBVIOUS
      <3>2. Same(h[j], ones[j], p)
        BY <1>1, <2>1, <2>2, <2>3, <3>1, SamePowers
      <3> QED
        BY <2>3, <2>4, <3>2
    <2>6. a * x - a = a * (x - 1) /\ x - 1 \in Int
      BY <1>3 DEF x
    <2>7. Divides(p, a * (x - 1))
      <3> DEFINE y == x - 1
      <3>1. y \in Int /\ Divides(p, y)
        BY <2>5, <2>6 DEF Same
      <3> HIDE DEF y
      <3>2. Divides(p, a * y)
        BY <1>1, <3>1, DividesTimes
      <3> QED
        BY <3>2 DEF y
    <2> QED
      BY <1>3, <2>6, <2>7 DEF Same, n, x
  <1> QED
    BY <1>4, <1>5

\* What two primes divide their product divides.
LEMMA PrimesTogether ==
    ASSUME NEW p \in Nat, IsPrime(p), NEW q \in Nat, IsPrime(q), p # q, NEW x \in Int,
           Divides(p, x), Divides(q, x)
    PROVE  Divides(p * q, x)
  <1>1. PICK k \in Int : x = p * k
    BY DEF Divides
  <1>2. ~Divides(q, p)
    <2> SUFFICES ASSUME Divides(q, p) PROVE FALSE
      OBVIOUS
    <2>1. p \in Nat \ {0} /\ q # 1
      BY DEF IsPrime
    <2>2. q \in 1..p
      BY <2>1, DivisorIsLess
    <2> QED
      BY <2>1, <2>2, PrimeDivisors
  <1>3. Divides(q, k)
    BY <1>1, <1>2, PrimeFactor
  <1>4. PICK l \in Int : k = q * l
    BY <1>3 DEF Divides
  <1>5. p * (q * l) = (p * q) * l
    OBVIOUS
  <1> QED
    BY <1>1, <1>4, <1>5 DEF Divides

\* With exponents whose product leaves one, powers of powers leave the number.
LEMMA ExponentsUndo ==
    ASSUME NEW p \in Nat, IsPrime(p), NEW q \in Nat, IsPrime(q), p # q,
           NEW e \in Nat, NEW d \in Nat, (e * d) % ((p - 1) * (q - 1)) = 1,
           NEW a \in Int, NEW g, Powers(a, g)
    PROVE  Same(g[e * d], a, p * q)
  <1> DEFINE r == p - 1
             s == q - 1
             n == r * s
             x == e * d
             j == x \div n
  <1>1. r \in Nat \ {0} /\ s \in Nat \ {0} /\ p \in Int /\ q \in Int
    BY DEF IsPrime
  <1>2. n \in Nat \ {0} /\ x \in Nat /\ x % n = 1
    <2> HIDE DEF r, s
    <2>1. r * s \in Nat \ {0}
      BY <1>1
    <2> QED
      BY <2>1 DEF r, s
  <1> HIDE DEF n, x
  <1>3. j \in Int /\ x = n * j + 1
    BY <1>2, Remainder
  <1>4. j \in Nat
    <2> SUFFICES ASSUME j < 0 PROVE FALSE
      BY <1>3
    <2> HIDE DEF j
    <2>1. n * (-j - 1) >= 0 /\ n * (-j - 1) = -(n * j) - n /\ n * j \in Int
      BY <1>2, <1>3
    <2> QED
      BY <1>2, <1>3, <2>1
  <1> HIDE DEF j
  <1>5. r * (s * j) = n * j /\ s * (r * j) = n * j /\ s * j \in Nat /\ r * j \in Nat
    <2> HIDE DEF r, s
    <2> QED
      BY <1>1, <1>4 DEF n
  <1>6. Same(g[x], a, p)
    <2> DEFINE z == s * j
    <2>1. z \in Nat /\ r * z = n * j
      BY <1>5
    <2> HIDE DEF z
    <2>2. Same(g[(p - 1) * z + 1], a, p)
      BY <2>1, ExponentAround
    <2> QED
      BY <1>3, <2>1, <2>2
  <1>7. Same(g[x], a, q)
    <2> DEFINE z == r * j
    <2>1. z \in Nat /\ s * z = n * j
      BY <1>5
    <2> HIDE DEF z
    <2>2. Same(g[(q - 1) * z + 1], a, q)
      BY <2>1, ExponentAround
    <2> QED
      BY <1>3, <2>1, <2>2
  <1>8. g[x] - a \in Int
    BY <1>2 DEF Powers
  <1>9. Divides(p * q, g[x] - a)
    BY <1>6, <1>7, <1>8, PrimesTogether DEF Same
  <1> QED
    BY <1>9 DEF Same, x

-----------------------------------------------------------------------------
(* Modular exponentiation *)

\* How PowMod's recursion goes on from the smaller exponents.
Square(f, x, b, n) ==
    IF x = 0 THEN 1
    ELSE (((f[x \div 2] * f[x \div 2]) % n) * (IF x % 2 = 1 THEN b % n ELSE 1)) % n

\* Numbers that leave the same as the powers of b, the first of them one.
Leaves(f, g, x, n) == IF x = 0 THEN f[x] = 1 ELSE f[x] = g[x] % n

\* Squaring doubles the exponent.
LEMMA Doubled ==
    ASSUME NEW n \in Nat \ {0}, NEW b \in Int, NEW g, Powers(b, g), NEW x \in Nat \ {0}, NEW f,
           Leaves(f, g, x \div 2, n)
    PROVE  Square(f, x, b, n) = g[x] % n
  <1> DEFINE y == x \div 2
             h == f[y]
             s == h * h
             c == IF x % 2 = 1 THEN b % n ELSE 1
             w == IF x % 2 = 1 THEN b ELSE 1
  <1>1. y \in Nat /\ x = 2 * y + (x % 2) /\ x % 2 \in {0, 1}
    OBVIOUS
  <1>2. b % n \in Int /\ Same(b % n, b, n)
    BY SameRemainder
  <1>3. Same(1, 1, n)
    <2>1. 1 - 1 = n * 0 /\ 0 \in Int
      OBVIOUS
    <2> QED
      BY <2>1 DEF Same, Divides
  <1>4. c \in Int /\ w \in Int /\ Same(c, w, n)
    BY <1>2, <1>3
  <1> HIDE DEF y, c, w
  <1>5. g[y] \in Int /\ g[x] \in Int /\ g[2 * y] \in Int
    <2>1. 2 * y \in Nat
      BY <1>1
    <2> QED
      BY <1>1, <2>1 DEF Powers
  <1>6. h \in Int /\ Same(h, g[y], n)
    <2>1. CASE y = 0
      <3>1. h = 1 /\ g[y] = 1
        BY <2>1 DEF Leaves, Powers, y
      <3> QED
        BY <1>3, <3>1
    <2>2. CASE y # 0
      <3>1. h = g[y] % n
        BY <2>2 DEF Leaves, y
      <3> QED
        BY <1>5, <3>1, SameRemainder
    <2> QED
      BY <2>1, <2>2
  <1> HIDE DEF h
  <1>7. s \in Int /\ g[y] * g[y] \in Int /\ g[2 * y] = g[y] * g[y]
    <2>1. y + y = 2 * y
      BY <1>1
    <2> QED
      BY <1>1, <1>5, <1>6, <2>1, PowersAdd
  <1>8. Same(s, g[2 * y], n)
    <2>1. Same(h * h, g[y] * g[y], n)
      BY <1>5, <1>6, SameTimes
    <2> QED
      BY <1>7, <2>1
  <1> HIDE DEF s
  <1>9. s % n \in Int /\ Same(s % n, g[2 * y], n)
    <2>1. s % n \in Int /\ Same(s % n, s, n)
      BY <1>7, SameRemainder
    <2> QED
      BY <1>5, <1>7, <1>8, <2>1, SameTransitive
  <1>10. g[x] = g[2 * y] * w
    <2>1. CASE x % 2 = 1
      <3>1. 2 * y \in Nat /\ x = 2 * y + 1
        BY <1>1, <2>1
      <3>2. g[x] = b * g[2 * y]
        BY <3>1 DEF Powers
      <3> QED
        BY <1>5, <2>1, <3>2 DEF w
    <2>2. CASE x % 2 # 1
      <3>1. x = 2 * y
        BY <1>1, <2>2
      <3> QED
        BY <1>5, <2>2, <3>1 DEF w
    <2> QED
      BY <2>1, <2>2
  <1> DEFINE r == s % n
  <1>11. r \in Int /\ Same(r, g[2 * y], n) /\ Square(f, x, b, n) = (r * c) % n
    BY <1>9 DEF Square, s, h, y, c
  <1> HIDE DEF r
  <1>12. Same(r * c, g[x], n) /\ r * c \in Int
    <2> DEFINE t == g[2 * y]
    <2>1. t \in Int /\ Same(r, t, n)
      BY <1>5, <1>11
    <2> HIDE DEF t
    <2>2. Same(r * c, t * w, n)
      BY <1>4, <1>11, <2>1, SameTimes
    <2> QED
      BY <1>4, <1>10, <1>11, <2>2 DEF t
  <1> DEFINE e == r * c
             d == g[x]
  <1>13. e \in Int /\ d \in Int /\ Same(e, d, n) /\ Square(f, x, b, n) = e % n
    BY <1>5, <1>11, <1>12
  <1> HIDE DEF e, d
  <1>14. e % n = d % n
    BY <1>13, SameIs
  <1> QED
    BY <1>13, <1>14 DEF d

\* mpz_powm: the power, reduced.
LEMMA PowModIs ==
    ASSUME NEW b \in Int, NEW e \in Nat \ {0}, NEW n \in Nat \ {0}, NEW g, Powers(b, g)
    PROVE  PowMod(b, e, n) = g[e] % n
  <1> DEFINE W == [x \in Nat |-> IF x = 0 THEN 1 ELSE g[x] % n]
             Reads(f) == f = [x \in Nat |-> Square(f, x, b, n)]
             f == CHOOSE f : Reads(f)
  <1>1. ASSUME NEW x \in Nat PROVE W[x] = Square(W, x, b, n)
    <2>1. CASE x = 0
      BY <2>1 DEF Square
    <2>2. CASE x # 0
      <3>1. W[x] = g[x] % n /\ x \div 2 \in Nat
        BY <2>2
      <3>2. Leaves(W, g, x \div 2, n)
        BY <3>1 DEF Leaves
      <3> HIDE DEF W
      <3> QED
        BY <2>2, <3>1, <3>2, Doubled
    <2> QED
      BY <2>1, <2>2
  <1>2. Reads(W)
    <2>1. W = [x \in Nat |-> W[x]]
      OBVIOUS
    <2> HIDE DEF W
    <2> QED
      BY <1>1, <2>1
  <1>3. Reads(f)
    <2> HIDE DEF W, Reads
    <2> QED
      BY <1>2
  <1>4. PowMod(b, e, n) = f[e]
    BY DEF PowMod, Square
  <1> HIDE DEF f, W
  <1>5. \A x \in Nat : f[x] = Square(f, x, b, n)
    BY <1>3
  <1> HIDE DEF Reads
  <1> DEFINE T == {x \in Nat : ~Leaves(f, g, x, n)}
  <1>6. ASSUME NEW x \in Nat, \A y \in Nat : y < x => y \notin T PROVE x \notin T
    <2>1. CASE x = 0
      <3>1. f[x] = 1
        BY <1>5, <2>1 DEF Square
      <3> QED
        BY <2>1, <3>1 DEF Leaves
    <2>2. CASE x # 0
      <3>1. x \div 2 \in Nat /\ x \div 2 < x
        BY <2>2
      <3>2. Leaves(f, g, x \div 2, n)
        BY <1>6, <3>1
      <3>3. f[x] = g[x] % n
        BY <1>5, <2>2, <3>2, Doubled
      <3> QED
        BY <2>2, <3>3 DEF Leaves
    <2> QED
      BY <2>1, <2>2
  <1>7. e \notin T
    <2> SUFFICES ASSUME e \in T PROVE FALSE
      OBVIOUS
    <2>1. T \subseteq Nat
      OBVIOUS
    <2> HIDE DEF T
    <2>2. PICK x \in T : \A y \in T : x <= y
      BY <2>1, Least
    <2>3. x \in Nat /\ \A y \in Nat : y < x => y \notin T
      BY <2>1, <2>2
    <2> QED
      BY <1>6, <2>2, <2>3
  <1>8. Leaves(f, g, e, n)
    BY <1>7
  <1> QED
    BY <1>4, <1>8 DEF Leaves

\* RSA: whatever is below the product of two primes comes back.
THEOREM RsaUndone ==
    ASSUME NEW p \in Nat, IsPrime(p), NEW q \in Nat, IsPrime(q), p # q,
           NEW e \in Nat \ {0}, NEW d \in Nat \ {0}, (e * d) % ((p - 1) * (q - 1)) = 1,
           NEW m \in 0..p * q - 1
    PROVE  /\ PowMod(m, e, p * q) \in 0..p * q - 1
           /\ PowMod(PowMod(m, e, p * q), d, p * q) = m
  <1> DEFINE n == p * q
             c == PowMod(m, e, n)
  <1>1. n \in Nat \ {0} /\ m \in Nat
    BY DEF IsPrime
  <1>2. PICK g : Powers(m, g)
    BY <1>1, PowersExist
  <1>3. Same(g[e * d], m, n)
    BY <1>1, <1>2, ExponentsUndo
  <1>4. g[e] \in Int /\ g[e * d] \in Int
    <2>1. e * d \in Nat
      OBVIOUS
    <2> QED
      BY <1>2, <2>1 DEF Powers
  <1>5. m \in 0..n - 1
    OBVIOUS
  <1> HIDE DEF n
  <1>6. c = g[e] % n
    BY <1>1, <1>2, PowModIs
  <1> HIDE DEF c
  <1>7. c \in 0..n - 1 /\ c \in Nat /\ c \in Int /\ Same(c, g[e], n)
    <2>1. g[e] % n \in 0..n - 1 /\ Same(g[e] % n, g[e], n)
      BY <1>1, <1>4, Remainder, SameRemainder
    <2> QED
      BY <1>1, <1>6, <2>1
  <1>8. PICK h : Powers(c, h)
    BY <1>7, PowersExist
  <1>9. PICK k : Powers(g[e], k)
    BY <1>4, PowersExist
  <1>10. k[d] = g[e * d]
    BY <1>1, <1>2, <1>9, PowersTimes
  <1>11. Same(h[d], k[d], n)
    BY <1>1, <1>4, <1>7, <1>8, <1>9, SamePowers
  <1>12. h[d] \in Int
    BY <1>8 DEF Powers
  <1>13. Same(h[d], m, n)
    BY <1>1, <1>3, <1>4, <1>10, <1>11, <1>12, SameTransitive
  <1>14. PowMod(c, d, n) = h[d] % n
    BY <1>1, <1>7, <1>8, PowModIs
  <1>15. h[d] % n = m % n /\ m % n = m
    <2>1. m % n = m
      BY <1>1, <1>5, SameBelow
    <2> DEFINE z == h[d]
    <2>2. z \in Int /\ m \in Int /\ Same(z, m, n)
      BY <1>1, <1>12, <1>13
    <2> HIDE DEF z
    <2>3. z % n = m % n
      BY <1>1, <2>2, SameIs
    <2> QED
      BY <2>1, <2>3 DEF z
  <1> QED
    BY <1>7, <1>14, <1>15 DEF c, n

-----------------------------------------------------------------------------
(* Key pairs *)

\* What has no divisor with m has an inverse, which modinv finds.
LEMMA ModInvIs ==
    ASSUME NEW a \in Nat, NEW m \in Nat, m >= 2, Coprime(a, m)
    PROVE  ModInv(a, m) \in 1..m - 1 /\ (a * ModInv(a, m)) % m = 1
  <1>1. m \in Nat \ {0} /\ m \in Int /\ a \in Int
    OBVIOUS
  <1>2. ASSUME NEW d \in 1..m, Divides(d, a), Divides(d, m) PROVE d = 1
    <2>1. d \in Nat \ {0}
      OBVIOUS
    <2>2. a % d = 0 /\ m % d = 0
      BY <1>1, <1>2, <2>1, NothingLeft
    <2> SUFFICES ASSUME d # 1 PROVE FALSE
      OBVIOUS
    <2>3. d \in 2..m
      OBVIOUS
    <2> QED
      BY <2>2, <2>3 DEF Coprime
  <1>3. PICK x \in Int, y \in Int : a * x + m * y = 1
    BY <1>1, <1>2, Bezout
  <1>4. Same(a * x, 1, m) /\ a * x \in Int
    <2>1. a * x - 1 = m * (-y) /\ -y \in Int /\ a * x \in Int
      <3>1. m * (-y) = -(m * y) /\ m * y \in Int /\ a * x \in Int
        BY <1>1
      <3> QED
        BY <1>3, <3>1
    <2> QED
      BY <2>1 DEF Same, Divides
  <1>5. 1 % m = 1
    <2>1. 1 \in 0..m - 1
      OBVIOUS
    <2> QED
      BY <1>1, <2>1, SameBelow
  <1> DEFINE b == a % m
  <1>6. b \in Int /\ Same(b, a, m) /\ Same(a, b, m)
    BY <1>1, SameRemainder
  <1> HIDE DEF b
  <1>7. ASSUME NEW z \in Int PROVE Same(b * z, a * z, m) /\ b * z \in Int /\ a * z \in Int
    <2>1. z - z = m * 0 /\ 0 \in Int
      BY <1>1
    <2>2. Same(z, z, m)
      BY <2>1 DEF Same, Divides
    <2> QED
      BY <1>1, <1>6, <2>2, SameTimes
  <1> DEFINE d == x % m
  <1>8. d \in 0..m - 1 /\ d \in Int /\ Same(d, x, m)
    BY <1>1, Remainder, SameRemainder
  <1> HIDE DEF d
  <1>9. (b * d) % m = 1
    <2>1. a * d \in Int /\ b * d \in Int /\ Same(b * d, a * d, m)
      BY <1>7, <1>8
    <2>2. Same(a * d, a * x, m)
      <3>1. a - a = m * 0 /\ 0 \in Int
        BY <1>1
      <3>2. Same(a, a, m)
        BY <3>1 DEF Same, Divides
      <3> QED
        BY <1>1, <1>8, <3>2, SameTimes
    <2>3. Same(a * d, 1, m)
      BY <1>1, <1>4, <2>1, <2>2, SameTransitive
    <2>4. Same(b * d, 1, m)
      BY <1>1, <2>1, <2>3, SameTransitive
    <2> DEFINE z == b * d
    <2>5. z \in Int /\ Same(z, 1, m) /\ 1 \in Int
      BY <2>1, <2>4
    <2> HIDE DEF z
    <2>6. z % m = 1 % m
      BY <1>1, <2>5, SameIs
    <2> QED
      BY <1>5, <2>6 DEF z
  <1>10. d # 0
    <2> SUFFICES ASSUME d = 0 PROVE FALSE
      OBVIOUS
    <2>1. b * d = 0
      BY <1>6
    <2>2. 0 \in 0..m - 1
      BY <1>1
    <2>3. 0 % m = 0
      BY <1>1, <2>2, SameBelow
    <2> QED
      BY <1>9, <2>1, <2>3
  <1>11. \E z \in 1..m - 1 : (b * z) % m = 1
    BY <1>8, <1>9, <1>10
  <1> DEFINE i == ModInv(a, m)
  <1>12. i \in 1..m - 1 /\ (b * i) % m = 1
    <2>1. i = CHOOSE z \in 1..m - 1 : (b * z) % m = 1
      BY DEF ModInv, b
    <2> HIDE DEF i
    <2> QED
      BY <1>11, <2>1
  <1> HIDE DEF i
  <1>13. (a * i) % m = (b * i) % m
    <2>1. i \in Int
      BY <1>12
    <2>2. Same(b * i, a * i, m) /\ b * i \in Int /\ a * i \in Int
      BY <1>7, <2>1
    <2> DEFINE u == a * i
               v == b * i
    <2>3. u \in Int /\ v \in Int /\ Same(v, u, m)
      BY <2>2
    <2> HIDE DEF u, v
    <2>4. v % m = u % m
      BY <1>1, <2>3, SameIs
    <2> QED
      BY <2>4 DEF u, v
  <1> QED
    BY <1>12, <1>13 DEF i

\* genPair finds a public exponent.
LEMMA ExponentIs ==
    ASSUME NEW phi \in Nat, phi >= 4, phi % 2 = 0
    PROVE  Exponent(phi) \in Nat \ {0} /\ Coprime(Exponent(phi), phi)
  <1>1. CASE Coprime(65537, phi)
    BY <1>1 DEF Exponent
  <1>2. CASE ~Coprime(65537, phi)
    <2> DEFINE T == {e \in 3..phi : e % 2 = 1 /\ Coprime(e, phi)}
    <2>1. phi - 1 \in T
      <3>1. phi - 1 \in 3..phi /\ (phi - 1) % 2 = 1
        OBVIOUS
      <3>2. ASSUME NEW d \in 2..phi, (phi - 1) % d = 0, phi % d = 0 PROVE FALSE
        <4>1. d \in Nat \ {0} /\ d \in Int /\ phi - 1 \in Int /\ phi \in Int
          OBVIOUS
        <4>2. Divides(d, phi - 1) /\ Divides(d, phi)
          BY <3>2, <4>1, NothingLeft
        <4> DEFINE one == 1
                   minus == -1
                   f == phi - 1
        <4>3. one \in Int /\ minus \in Int /\ f \in Int /\ one * phi + minus * f = 1 /\ Divides(d, f)
          BY <4>2
        <4> HIDE DEF one, minus, f
        <4>4. Divides(d, one * phi + minus * f)
          BY <4>1, <4>2, <4>3, DividesSum
        <4>5. d \in 1..1
          BY <4>1, <4>3, <4>4, DivisorIsLess
        <4> QED
          BY <4>5
      <3>3. Coprime(phi - 1, phi)
        BY <3>2 DEF Coprime
      <3> QED
        BY <3>1, <3>3
    <2>2. PICK e \in T : \A f \in T : e <= f
      <3>1. T \subseteq Nat
        OBVIOUS
      <3> HIDE DEF T
      <3> QED
        BY <2>1, <3>1, Least
    <2> DEFINE Is(x) == /\ x % 2 = 1 /\ Coprime(x, phi)
                        /\ \A f \in 3..x - 1 : f % 2 = 0 \/ ~Coprime(f, phi)
    <2>3. e \in 3..phi /\ Is(e)
      <3>1. ASSUME NEW f \in 3..e - 1 PROVE f % 2 = 0 \/ ~Coprime(f, phi)
        <4>1. f \in 3..phi /\ f \notin T
          BY <2>2
        <4>2. f % 2 = 0 \/ f % 2 = 1
          OBVIOUS
        <4> QED
          BY <4>1, <4>2
      <3> QED
        BY <3>1
    <2>4. Exponent(phi) = CHOOSE x \in 3..phi : Is(x)
      BY <1>2 DEF Exponent
    <2>5. Exponent(phi) \in 3..phi /\ Is(Exponent(phi))
      <3> HIDE DEF Is, T
      <3> QED
        BY <2>3, <2>4
    <2> QED
      BY <2>5
  <1> QED
    BY <1>1, <1>2

\* A pair of two primes, neither of them two: its exponents undo each other.
LEMMA KeyPairOfIs ==
    ASSUME NEW p \in Nat, IsPrime(p), NEW q \in Nat, IsPrime(q), p > 2, q > 2
    PROVE  LET key == KeyPairOf(p, q)
           IN  /\ key.n = p * q /\ key.e \in Nat \ {0} /\ key.d \in Nat \ {0}
               /\ (key.e * key.d) % ((p - 1) * (q - 1)) = 1
  <1> DEFINE phi == (p - 1) * (q - 1)
  <1>1. p % 2 = 1
    <2>1. CASE p = 3
      BY <2>1
    <2>2. CASE p # 3
      <3>1. 2 \in 2..p - 1 /\ 2 * 2 <= p
        BY <2>2
      <3>2. p % 2 # 0
        BY <3>1 DEF IsPrime
      <3> QED
        BY <3>2
    <2> QED
      BY <2>1, <2>2
  <1>2. PICK i \in Nat : p - 1 = 2 * i
    <2>1. p - 1 = 2 * (p \div 2) /\ p \div 2 \in Nat
      BY <1>1
    <2> QED
      BY <2>1
  <1>3. phi \in Nat /\ phi >= 4 /\ phi % 2 = 0
    <2>1. p - 1 >= 2 /\ q - 1 >= 2 /\ p - 1 \in Nat /\ q - 1 \in Nat
      OBVIOUS
    <2> DEFINE r == p - 1
               s == q - 1
    <2>2. r >= 2 /\ s >= 2 /\ r \in Nat /\ s \in Nat /\ r = 2 * i
      BY <1>2, <2>1
    <2> HIDE DEF r, s
    <2>3. r * s \in Nat /\ r * s >= 4
      <3>1. (r - 2) * s >= 0 /\ (r - 2) * s = r * s - 2 * s
        BY <2>2
      <3> QED
        BY <2>2, <3>1
    <2>4. r * s = 2 * (i * s) /\ i * s \in Nat
      BY <2>2
    <2>5. (r * s) % 2 = 0
      <3> DEFINE z == i * s
      <3>1. z \in Nat /\ r * s = 2 * z
        BY <2>4
      <3> HIDE DEF z
      <3>2. (2 * z) % 2 = 0
        BY <3>1
      <3> QED
        BY <3>1, <3>2
    <2> QED
      BY <2>3, <2>5 DEF r, s
  <1> DEFINE e == Exponent(phi)
             d == ModInv(e, phi)
  <1>4. KeyPairOf(p, q) = [n |-> p * q, e |-> e, d |-> d]
    BY DEF KeyPairOf
  <1> HIDE DEF phi
  <1>5. e \in Nat \ {0} /\ Coprime(e, phi)
    BY <1>3, ExponentIs
  <1> HIDE DEF e
  <1>6. d \in 1..phi - 1 /\ (e * d) % phi = 1
    <2>1. phi >= 2 /\ e \in Nat
      BY <1>3, <1>5
    <2> QED
      BY <1>3, <1>5, <2>1, ModInvIs
  <1> HIDE DEF d
  <1>7. d \in Nat \ {0}
    BY <1>3, <1>6
  <1> QED
    BY <1>4, <1>5, <1>6, <1>7 DEF phi

\* The next prime is one, if there is any before twice the number.
LEMMA NextPrimeIs ==
    ASSUME NEW x \in Nat, \E p \in x + 1..2 * x : IsPrime(p)
    PROVE  NextPrime(x) \in x + 1..2 * x /\ IsPrime(NextPrime(x))
  <1> DEFINE T == {p \in x + 1..2 * x : IsPrime(p)}
             Is(p) == IsPrime(p) /\ \A q \in x + 1..p - 1 : ~IsPrime(q)
  <1>1. PICK p \in T : \A q \in T : p <= q
    <2>1. T \subseteq Nat /\ T # {}
      OBVIOUS
    <2> HIDE DEF T
    <2> QED
      BY <2>1, Least
  <1>2. p \in x + 1..2 * x /\ Is(p)
    <2>1. ASSUME NEW q \in x + 1..p - 1 PROVE ~IsPrime(q)
      <3>1. q \in x + 1..2 * x /\ q \notin T
        BY <1>1
      <3> QED
        BY <3>1
    <2> QED
      BY <2>1
  <1>3. NextPrime(x) = CHOOSE q \in x + 1..2 * x : Is(q)
    BY DEF NextPrime
  <1>4. NextPrime(x) \in x + 1..2 * x /\ Is(NextPrime(x))
    <2> HIDE DEF Is, T
    <2> QED
      BY <1>2, <1>3
  <1> QED
    BY <1>4

\* Between a number that genPair may draw and its double there is a prime.
PrimesFound(bits) ==
    \A x \in TwoTo[bits \div 2 - 1]..TwoTo[bits \div 2] - 1 : \E p \in x + 1..2 * x : IsPrime(p)

\* What genPair returns is the pair of two primes.
LEMMA GenPairIs ==
    ASSUME NEW bits \in Nat, bits >= 4, PrimesFound(bits), NEW key \in GenPair(bits)
    PROVE  \E p, q \in Nat :
               /\ IsPrime(p) /\ IsPrime(q) /\ p # q /\ p > 2 /\ q > 2
               /\ key = KeyPairOf(p, q) /\ BitsIn(p * q) \in {bits - 1, bits}
  <1>1. PICK p \in LargePrimes(bits \div 2), q \in LargePrimes(bits \div 2) :
            p # q /\ BitsIn(p * q) \in {bits - 1, bits} /\ key = KeyPairOf(p, q)
    BY DEF GenPair
  <1>2. ASSUME NEW r \in LargePrimes(bits \div 2) PROVE r \in Nat /\ IsPrime(r) /\ r > 2
    <2>1. bits \div 2 \in Nat /\ bits \div 2 - 1 \in Nat /\ bits \div 2 >= 2
      OBVIOUS
    <2>2. PICK x \in TwoTo[bits \div 2 - 1]..TwoTo[bits \div 2] - 1 : r = NextPrime(x)
      BY DEF LargePrimes
    <2>3. TwoTo[bits \div 2 - 1] >= 2 /\ TwoTo[bits \div 2 - 1] \in Nat /\ TwoTo[bits \div 2] \in Nat
      <3>1. TwoTo[1] = 2
        <4>1. TwoTo[0] = 1 /\ TwoTo[0 + 1] = 2 * TwoTo[0]
          BY TwoToIs DEF Powers
        <4> QED
          BY <4>1
      <3>2. TwoTo[1] <= TwoTo[bits \div 2 - 1]
        BY <2>1, TwoToGrows
      <3> QED
        BY <2>1, <3>1, <3>2, TwoToIs
    <2>4. x \in Nat /\ x >= 2
      BY <2>3
    <2>5. \E z \in x + 1..2 * x : IsPrime(z)
      BY <2>2 DEF PrimesFound
    <2>6. r \in x + 1..2 * x /\ IsPrime(r)
      BY <2>2, <2>4, <2>5, NextPrimeIs
    <2> QED
      BY <2>4, <2>6
  <1> QED
    BY <1>1, <1>2

-----------------------------------------------------------------------------
(* The length of a key *)

\* A number has a number of bits.
LEMMA BitsInIs ==
    ASSUME NEW n \in Nat \ {0}
    PROVE  BitsIn(n) \in 1..n /\ TwoTo[BitsIn(n) - 1] <= n /\ n < TwoTo[BitsIn(n)]
  <1> DEFINE G == {k \in Nat : k < TwoTo[k]}
             T == {b \in Nat : n < TwoTo[b]}
             Is(b) == TwoTo[b - 1] <= n /\ n < TwoTo[b]
  <1>1. TwoTo[0] = 1 /\ \A k \in Nat : TwoTo[k] \in Nat /\ TwoTo[k + 1] = 2 * TwoTo[k]
    BY TwoToIs DEF Powers
  <1>2. Nat \subseteq G
    <2>1. 0 \in G
      BY <1>1
    <2>2. ASSUME NEW k \in Nat, k \in G PROVE k + 1 \in G
      <3>1. TwoTo[k + 1] = 2 * TwoTo[k] /\ k < TwoTo[k] /\ TwoTo[k] \in Nat
        BY <1>1, <2>2
      <3> QED
        BY <3>1
    <2> HIDE DEF G
    <2> QED
      BY <2>1, <2>2, Induction
  <1>3. n \in T
    BY <1>2
  <1>4. PICK b \in T : \A c \in T : b <= c
    <2>1. T \subseteq Nat
      OBVIOUS
    <2> HIDE DEF T
    <2> QED
      BY <1>3, <2>1, Least
  <1>5. b # 0
    BY <1>1
  <1>6. b - 1 \in Nat /\ b - 1 \notin T
    BY <1>4, <1>5
  <1>7. b \in 1..n /\ Is(b)
    <2>1. TwoTo[b - 1] \in Nat /\ ~(n < TwoTo[b - 1])
      BY <1>1, <1>6
    <2> QED
      BY <1>3, <1>4, <1>5, <2>1
  <1>8. BitsIn(n) = CHOOSE c \in 1..n : Is(c)
    BY DEF BitsIn
  <1>9. BitsIn(n) \in 1..n /\ Is(BitsIn(n))
    <2> HIDE DEF Is, T, G
    <2> QED
      BY <1>7, <1>8
  <1> QED
    BY <1>9

\* A modulus one bit short of whole bytes takes as many as one that is not.
LEMMA KeyLenIs ==
    ASSUME NEW bits \in Nat, bits # 0, ByteBits > 1, bits % ByteBits = 0,
           NEW key, key.n \in Nat \ {0}, BitsIn(key.n) \in {bits - 1, bits}
    PROVE  /\ KeyLen(key) = bits \div ByteBits /\ KeyLen(key) \in Nat \ {0}
           /\ Power[KeyLen(key) - 1] <= key.n /\ key.n < Power[KeyLen(key)]
  <1> DEFINE b == BitsIn(key.n)
             k == bits \div ByteBits
  <1>1. ByteBits \in Nat \ {0}
    BY SealAssumption
  <1>2. k \in Int /\ bits = ByteBits * k
    BY <1>1, Remainder
  <1>3. b \in {bits - 1, bits} /\ TwoTo[b - 1] <= key.n /\ key.n < TwoTo[b] /\ b \in Nat \ {0}
    BY BitsInIs
  <1> HIDE DEF b, k
  <1>4. k \in Nat \ {0}
    <2> SUFFICES ASSUME k <= 0 PROVE FALSE
      BY <1>2
    <2>1. ByteBits * (-k) >= 0 /\ ByteBits * (-k) = -(ByteBits * k)
      BY <1>1, <1>2
    <2> QED
      BY <1>2, <2>1
  <1>5. (b + ByteBits - 1) \div ByteBits = k
    <2>1. PICK r \in 0..ByteBits - 1 : b + ByteBits - 1 = k * ByteBits + r
      <3>1. k * ByteBits = bits
        BY <1>1, <1>2
      <3>2. CASE b = bits
        <4>1. ByteBits - 1 \in 0..ByteBits - 1 /\ b + ByteBits - 1 = k * ByteBits + (ByteBits - 1)
          BY <1>1, <3>1, <3>2
        <4> QED
          BY <4>1
      <3>3. CASE b = bits - 1
        <4>1. ByteBits - 2 \in 0..ByteBits - 1 /\ b + ByteBits - 1 = k * ByteBits + (ByteBits - 2)
          BY <1>1, <3>1, <3>3
        <4> QED
          BY <4>1
      <3> QED
        BY <1>3, <3>2, <3>3
    <2>2. (k * ByteBits + r) \div ByteBits = k
      BY <1>1, <1>2, Multiples
    <2> QED
      BY <2>1, <2>2
  <1>6. KeyLen(key) = k
    BY <1>5 DEF KeyLen, b
  <1>7. Power[k] = TwoTo[bits]
    BY <1>2, <1>4 DEF Power
  <1>8. key.n < Power[k]
    <2>1. TwoTo[b] <= TwoTo[bits] /\ TwoTo[b] \in Nat /\ TwoTo[bits] \in Nat
      BY <1>3, TwoToIs, TwoToGrows
    <2> QED
      BY <1>3, <1>7, <2>1
  <1>9. Power[k - 1] <= key.n
    <2>1. k - 1 \in Nat /\ ByteBits * (k - 1) = bits - ByteBits /\ bits - ByteBits \in Nat
      <3>1. k - 1 \in Nat /\ ByteBits * (k - 1) = ByteBits * k - ByteBits /\ ByteBits * (k - 1) \in Nat
        BY <1>1, <1>4
      <3> QED
        BY <1>2, <3>1
    <2>2. Power[k - 1] = TwoTo[bits - ByteBits]
      BY <2>1 DEF Power
    <2>3. b - 1 \in Nat /\ bits - ByteBits <= b - 1
      BY <1>1, <1>3
    <2>4. TwoTo[bits - ByteBits] <= TwoTo[b - 1]
      BY <2>1, <2>3, TwoToGrows
    <2>5. TwoTo[bits - ByteBits] \in Nat /\ TwoTo[b - 1] \in Nat
      BY <2>1, <2>3, TwoToIs
    <2> QED
      BY <1>3, <2>2, <2>4, <2>5
  <1> QED
    BY <1>4, <1>6, <1>8, <1>9 DEF k

-----------------------------------------------------------------------------
(* Numbers written in a radix *)

\* How the recursion of to_string goes on from the numbers before, and a
\* beginning of the function it defines.
Rule(b, t, m) == IF m < b THEN <<m>> ELSE Append(t[m \div b], m % b)

Beginning(b, n, t) ==
    /\ t \in [0..n -> Seq(0..b - 1) \ {<<>>}]
    /\ \A m \in 0..n : t[m] = Rule(b, t, m)

\* It writes a digit, or one behind what it wrote before.
LEMMA RuleIs ==
    ASSUME NEW b \in Nat, NEW t, NEW m \in Nat
    PROVE  /\ m < b => Rule(b, t, m) = <<m>>
           /\ m >= b => Rule(b, t, m) = Append(t[m \div b], m % b)
  BY DEF Rule

\* A number of two digits or more is the radix times a smaller one and a digit.
LEMMA RadixTimes ==
    ASSUME NEW b \in Nat, b >= 2, NEW m \in Nat, m >= b
    PROVE  m \div b \in Nat /\ m \div b < m /\ m % b \in 0..b - 1 /\ m = b * (m \div b) + (m % b)
  <1> DEFINE q == m \div b
             r == m % b
  <1>1. q \in Int /\ r \in 0..b - 1 /\ m = b * q + r
    OBVIOUS
  <1> HIDE DEF q, r
  <1>2. q >= 0
    <2> SUFFICES ASSUME q <= -1 PROVE FALSE
      BY <1>1
    <2>1. b * (-1 - q) >= 0 /\ b * (-1 - q) = -b - b * q
      BY <1>1
    <2> QED
      BY <1>1, <2>1
  <1>3. q < m
    <2> SUFFICES ASSUME q >= m PROVE FALSE
      BY <1>1
    <2>1. (b - 2) * q >= 0 /\ (b - 2) * q = b * q - 2 * q
      BY <1>1, <1>2
    <2> QED
      BY <1>1, <1>2, <2>1
  <1> QED
    BY <1>1, <1>2, <1>3 DEF q, r

\* Digits are integers, and a word of digits is one of integers.
LEMMA DigitsAreInt ==
    ASSUME NEW b \in Nat, NEW s \in Seq(0..b - 1)
    PROVE  s \in Seq(Int)
  <1>1. \A i \in 1..Len(s) : s[i] \in Int
    OBVIOUS
  <1>2. s = [i \in 1..Len(s) |-> s[i]] /\ Len(s) \in Nat
    OBVIOUS
  <1> QED
    BY <1>1, <1>2

\* The recursion has a beginning of every length.
LEMMA BeginningExists ==
    ASSUME NEW b \in Nat, b >= 2, NEW n \in Nat
    PROVE  \E t : Beginning(b, n, t)
  <1> DEFINE D == 0..b - 1
             G == {k \in Nat : \E t : Beginning(b, k, t)}
  <1>1. 0 \in G
    <2> DEFINE t == [m \in 0..0 |-> <<m>>]
    <2>1. Beginning(b, 0, t)
      BY DEF Beginning, Rule
    <2> QED
      BY <2>1
  <1>2. ASSUME NEW k \in Nat, k \in G PROVE k + 1 \in G
    <2>1. PICK t : Beginning(b, k, t)
      BY <1>2
    <2> DEFINE u == [m \in 0..k + 1 |-> IF m = k + 1 THEN Rule(b, t, k + 1) ELSE t[m]]
    <2>2. Rule(b, t, k + 1) \in Seq(D) \ {<<>>}
      <3>1. CASE k + 1 < b
        BY <3>1 DEF Rule
      <3>2. CASE ~(k + 1 < b)
        <4> DEFINE q == (k + 1) \div b
                   r == (k + 1) % b
        <4>1. q \in 0..k /\ r \in D
          <5>1. k + 1 \in Nat /\ k + 1 >= b
            BY <3>2
          <5>2. q \in Nat /\ q < k + 1 /\ r \in 0..b - 1
            BY <5>1, RadixTimes
          <5> HIDE DEF q, r
          <5> QED
            BY <5>2
        <4> HIDE DEF q, r
        <4>2. t[q] \in Seq(D)
          BY <2>1, <4>1 DEF Beginning
        <4> HIDE DEF D
        <4>3. Append(t[q], r) \in Seq(D) \ {<<>>}
          BY <4>1, <4>2
        <4> QED
          BY <3>2, <4>3 DEF Rule, q, r
      <3> QED
        BY <3>1, <3>2
    <2>3. u \in [0..k + 1 -> Seq(D) \ {<<>>}]
      <3>1. ASSUME NEW m \in 0..k + 1, m # k + 1 PROVE t[m] \in Seq(D) \ {<<>>}
        <4>1. m \in 0..k
          BY <3>1
        <4> QED
          BY <2>1, <4>1 DEF Beginning
      <3> HIDE DEF D
      <3> QED
        BY <2>2, <3>1
    <2>4. ASSUME NEW m \in 0..k + 1 PROVE u[m] = Rule(b, u, m)
      <3>1. Rule(b, u, m) = Rule(b, t, m)
        <4>1. CASE m < b
          BY <4>1 DEF Rule
        <4>2. CASE ~(m < b)
          <5> DEFINE q == m \div b
          <5>1. q \in 0..k + 1 /\ q # k + 1
            <6>1. m \in Nat /\ m >= b
              BY <4>2
            <6>2. q \in Nat /\ q < m
              BY <6>1, RadixTimes
            <6> HIDE DEF q
            <6> QED
              BY <6>2
          <5> HIDE DEF q
          <5>2. u[q] = t[q]
            BY <5>1
          <5> HIDE DEF u
          <5> QED
            BY <5>2 DEF Rule, q
        <4> QED
          BY <4>1, <4>2
      <3>2. m # k + 1 => m \in 0..k
        OBVIOUS
      <3>3. m # k + 1 => t[m] = Rule(b, t, m)
        BY <2>1, <3>2 DEF Beginning
      <3>4. u[m] = IF m = k + 1 THEN Rule(b, t, k + 1) ELSE t[m]
        OBVIOUS
      <3> HIDE DEF u
      <3> QED
        BY <3>1, <3>3, <3>4
    <2> HIDE DEF u
    <2>5. Beginning(b, k + 1, u)
      BY <2>3, <2>4 DEF Beginning
    <2> QED
      BY <2>5
  <1>3. Nat \subseteq G
    <2> HIDE DEF G
    <2> QED
      BY <1>1, <1>2, Induction
  <1> QED
    BY <1>3

\* Any two of them agree where both are defined.
LEMMA BeginningsAgree ==
    ASSUME NEW b \in Nat, b >= 2, NEW n \in Nat, NEW k \in Nat, NEW t, Beginning(b, n, t),
           NEW u, Beginning(b, k, u), NEW m \in Nat, m <= n, m <= k
    PROVE  t[m] = u[m]
  <1> DEFINE T == {i \in 0..m : t[i] # u[i]}
  <1> SUFFICES ASSUME t[m] # u[m] PROVE FALSE
    OBVIOUS
  <1>1. T \subseteq Nat /\ m \in T
    OBVIOUS
  <1>2. PICK i \in T : \A j \in T : i <= j
    <2> HIDE DEF T
    <2> QED
      BY <1>1, Least
  <1>3. i \in 0..n /\ i \in 0..k /\ i \in 0..m
    OBVIOUS
  <1>4. t[i] = Rule(b, t, i) /\ u[i] = Rule(b, u, i)
    BY <1>3 DEF Beginning
  <1>5. ~(i < b)
    BY <1>4 DEF Rule
  <1> DEFINE q == i \div b
  <1>6. q \in Nat /\ q < i
    <2>1. i \in Nat /\ i >= b
      BY <1>5, <1>3
    <2> QED
      BY <2>1, RadixTimes
  <1> HIDE DEF q
  <1>7. q \in 0..m /\ q \notin T
    BY <1>2, <1>3, <1>6
  <1>8. t[q] = u[q]
    BY <1>7
  <1> QED
    BY <1>4, <1>5, <1>8 DEF Rule, q


\* There is a function that goes on by that rule.
LEMMA RuleIsFollowed ==
    ASSUME NEW b \in Nat, b >= 2
    PROVE  \E w : w = [m \in Nat |-> Rule(b, w, m)]
  <1> DEFINE D == 0..b - 1
             w == [m \in Nat |-> (CHOOSE t : Beginning(b, m, t))[m]]
  <1>1. ASSUME NEW m \in Nat PROVE w[m] \in Seq(D) /\ w[m] # <<>> /\ w[m] = Rule(b, w, m)
    <2> DEFINE t == CHOOSE t : Beginning(b, m, t)
    <2>1. Beginning(b, m, t)
      BY BeginningExists
    <2> HIDE DEF t
    <2>2. w[m] = t[m]
      BY DEF t
    <2>3. t[m] \in Seq(D) \ {<<>>} /\ t[m] = Rule(b, t, m)
      BY <2>1 DEF Beginning
    <2>4. ASSUME m >= b PROVE w[m \div b] = t[m \div b]
      <3> DEFINE k == m \div b
                 u == CHOOSE u : Beginning(b, k, u)
      <3>1. k \in Nat /\ k < m
        BY <2>4, RadixTimes
      <3>2. w[k] = u[k]
        BY <3>1
      <3> HIDE DEF k, w
      <3>3. Beginning(b, k, u)
        BY <3>1, BeginningExists
      <3> HIDE DEF u
      <3>4. k <= m /\ k <= k
        BY <3>1
      <3>5. t[k] = u[k]
        BY <2>1, <3>1, <3>3, <3>4, BeginningsAgree
      <3> QED
        BY <3>2, <3>5 DEF k
    <2> HIDE DEF w
    <2>5. Rule(b, w, m) = Rule(b, t, m)
      BY <2>4 DEF Rule
    <2> QED
      BY <2>2, <2>3, <2>5
  <1>2. w = [m \in Nat |-> Rule(b, w, m)]
    <2>1. w = [m \in Nat |-> w[m]]
      OBVIOUS
    <2> HIDE DEF w
    <2> QED
      BY <1>1, <2>1
  <1> HIDE DEF w
  <1> QED
    BY <1>2

\* How a number is written: digits, at least one, that are worth the number.
LEMMA WrittenInRadix ==
    ASSUME NEW b \in Nat, b >= 2, NEW n \in Nat, NEW text, \A m \in Nat : text[m] = Rule(b, text, m)
    PROVE  text[n] \in Seq(0..b - 1) /\ text[n] # <<>> /\ Worth(b, text[n]) = n
  <1> DEFINE D == 0..b - 1
             G == {m \in Nat : text[m] \in Seq(D) /\ text[m] # <<>> /\ Worth(b, text[m]) = m}
             T == {m \in Nat : m \notin G}
  <1>4. ASSUME NEW m \in Nat, \A k \in Nat : k < m => k \in G PROVE m \in G
    <2>1. CASE m < b
      <3>1. text[m] = <<m>> /\ m \in D
        <4>1. text[m] = Rule(b, text, m)
          OBVIOUS
        <4>2. text[m] = <<m>>
          BY <2>1, <4>1, RuleIs
        <4> HIDE DEF G, T
        <4> QED
          BY <2>1, <4>2
      <3> DEFINE none == <<>>
      <3>2. <<m>> = Append(none, m) /\ none \in Seq(Int) /\ <<m>> \in Seq(D) /\ <<m>> # <<>>
        BY <3>1
      <3>3. Worth(b, none) = 0
        BY WorthAppend
      <3> HIDE DEF none
      <3>4. Worth(b, Append(none, m)) = b * Worth(b, none) + m
        BY <3>2, WorthAppend
      <3>5. Worth(b, <<m>>) = m
        <4>1. b * 0 + m = m
          OBVIOUS
        <4>2. Worth(b, Append(none, m)) = m
          BY <3>3, <3>4, <4>1
        <4> QED
          BY <3>2, <4>2
      <3> HIDE DEF G
      <3>6. text[m] \in Seq(D) /\ text[m] # <<>> /\ Worth(b, text[m]) = m
        BY <3>1, <3>2, <3>5
      <3> QED
        BY <3>6 DEF G
    <2>2. CASE m >= b
      <3> DEFINE k == m \div b
                 d == m % b
      <3>1. k \in Nat /\ k < m /\ d \in D /\ m = b * k + d
        BY <2>2, RadixTimes
      <3>2. text[m] = Append(text[k], d)
        <4>1. text[m] = Rule(b, text, m)
          OBVIOUS
        <4> QED
          BY <2>2, <4>1, RuleIs
      <3> HIDE DEF k, d, G
      <3>3. k \in G
        BY <1>4, <3>1
      <3>4. text[k] \in Seq(D) /\ Worth(b, text[k]) = k
        BY <3>3 DEF G
      <3>5. text[k] \in Seq(Int) /\ d \in Int
        BY <3>1, <3>4, DigitsAreInt
      <3>6. Worth(b, Append(text[k], d)) = b * Worth(b, text[k]) + d
        BY <3>5, WorthAppend
      <3> HIDE DEF D
      <3>7. Append(text[k], d) \in Seq(D) /\ Append(text[k], d) # <<>>
        BY <3>1, <3>4
      <3>8. Worth(b, text[m]) = m
        BY <3>1, <3>2, <3>4, <3>6
      <3> QED
        BY <3>2, <3>7, <3>8 DEF G
    <2> QED
      BY <2>1, <2>2
  <1>5. n \in G
    <2> HIDE DEF G
    <2> SUFFICES ASSUME n \notin G PROVE FALSE
      OBVIOUS
    <2>1. T \subseteq Nat /\ n \in T
      OBVIOUS
    <2>2. PICK m \in T : \A k \in T : m <= k
      <3> HIDE DEF T
      <3> QED
        BY <2>1, Least
    <2>3. m \in Nat /\ m \notin G /\ \A k \in Nat : k < m => k \in G
      BY <2>2
    <2> QED
      BY <1>4, <2>3
  <1> QED
    BY <1>5

\* A number in hexadecimal.
LEMMA HexIs ==
    ASSUME NEW n \in Nat
    PROVE  Hex(n) \in Seq(0..15) /\ Hex(n) # <<>> /\ Worth(16, Hex(n)) = n
  <1> DEFINE text == CHOOSE t : t = [m \in Nat |-> Rule(16, t, m)]
             b == 16
  <1>1. Hex(n) = text[n]
    BY DEF Hex, Rule
  <1>2. b \in Nat /\ b >= 2 /\ b = 16 /\ 0..b - 1 = 0..15
    OBVIOUS
  <1> HIDE DEF b
  <1>3. text = [m \in Nat |-> Rule(b, text, m)]
    BY <1>2, RuleIsFollowed
  <1> HIDE DEF text
  <1>4. \A m \in Nat : text[m] = Rule(b, text, m)
    <2> DEFINE f(m) == Rule(b, text, m)
    <2>1. text = [m \in Nat |-> f(m)]
      BY <1>3
    <2> HIDE DEF f
    <2>2. \A m \in Nat : text[m] = f(m)
      BY <2>1
    <2> QED
      BY <2>2 DEF f
  <1>5. text[n] \in Seq(0..b - 1) /\ text[n] # <<>> /\ Worth(b, text[n]) = n
    BY <1>2, <1>4, WrittenInRadix
  <1> QED
    BY <1>1, <1>2, <1>5

\* A public key's text is read back.
LEMMA KeyTextIs ==
    ASSUME NEW key, key.e \in Nat, key.n \in Nat
    PROVE  LoadFromString(SaveToString(key)) = [e |-> key.e, n |-> key.n]
  <1> DEFINE x == Hex(key.e)
             y == Hex(key.n)
             s == SaveToString(key)
             T == {i \in 1..Len(s) : s[i] = NewLine}
             line == SelectInSeq(s, LAMBDA c : c = NewLine)
  <1>1. /\ x \in Seq(0..15) /\ x # <<>> /\ Worth(16, x) = key.e
        /\ y \in Seq(0..15) /\ y # <<>> /\ Worth(16, y) = key.n
    BY HexIs
  <1>2. s = x \o <<NewLine>> \o y
    BY DEF SaveToString
  <1> HIDE DEF x, y
  <1>3. x \in Seq(Int) /\ y \in Seq(Int) /\ \A i \in 1..Len(x) : x[i] # NewLine
    <2>1. \A i \in 1..Len(x) : x[i] \in 0..15
      BY <1>1
    <2>2. 16 \in Nat /\ 0..16 - 1 = 0..15
      OBVIOUS
    <2> DEFINE b == 16
    <2>3. b \in Nat /\ x \in Seq(0..b - 1) /\ y \in Seq(0..b - 1)
      BY <1>1, <2>2
    <2> HIDE DEF b
    <2>4. x \in Seq(Int) /\ y \in Seq(Int)
      BY <2>3, DigitsAreInt
    <2>5. ASSUME NEW i \in 1..Len(x) PROVE x[i] # NewLine
      <3>1. x[i] \in 0..15
        BY <2>1
      <3>2. x[i] # 16
        BY <3>1
      <3>3. NewLine = 16
        BY DEF NewLine
      <3> QED
        BY <3>2, <3>3, Zenon
    <2> QED
      BY <2>4, <2>5
  <1>4. /\ s \in Seq(Int) /\ Len(s) = Len(x) + 1 + Len(y) /\ Len(x) \in Nat /\ Len(y) \in Nat
        /\ \A i \in 1..Len(x) : s[i] = x[i]
        /\ s[Len(x) + 1] = NewLine
        /\ \A i \in 1..Len(y) : s[Len(x) + 1 + i] = y[i]
    BY <1>2, <1>3 DEF NewLine
  <1> HIDE DEF s
  <1>5. line = Len(x) + 1
    <2>1. line = IF T # {} THEN Min(T) ELSE 0
      BY DEF SelectInSeq
    <2>2. Len(x) + 1 \in T
      BY <1>4
    <2>3. Min(T) \in T /\ Min(T) <= Len(x) + 1
      <3>1. T \subseteq Nat
        OBVIOUS
      <3> HIDE DEF T
      <3> QED
        BY <2>2, <3>1, MinIsLeast
    <2>4. Min(T) \in Nat /\ Min(T) >= 1 /\ s[Min(T)] = NewLine
      BY <2>3
    <2>5. Min(T) \notin 1..Len(x)
      <3> DEFINE z == Min(T)
      <3>1. z \in Nat /\ s[z] = NewLine
        BY <2>4
      <3> HIDE DEF z
      <3>2. z \notin 1..Len(x)
        BY <1>3, <1>4, <3>1
      <3> QED
        BY <3>2 DEF z
    <2> HIDE DEF T
    <2> QED
      BY <1>4, <2>1, <2>2, <2>3, <2>4, <2>5
  <1> HIDE DEF line
  <1>6. SubSeq(s, 1, line - 1) = x
    <2> DEFINE u == SubSeq(s, 1, line - 1)
    <2>1. u \in Seq(Int) /\ Len(u) = Len(x) /\ \A i \in 1..Len(x) : u[i] = x[i]
      BY <1>3, <1>4, <1>5
    <2> HIDE DEF u
    <2>2. u = x
      BY <1>3, <2>1, SeqEqual
    <2> QED
      BY <2>2 DEF u
  <1>7. SubSeq(s, line + 1, Len(s)) = y
    <2> DEFINE u == SubSeq(s, line + 1, Len(s))
    <2>1. u \in Seq(Int) /\ Len(u) = Len(y)
      BY <1>3, <1>4, <1>5
    <2>2. ASSUME NEW i \in 1..Len(y) PROVE u[i] = y[i]
      <3>1. (line + 1) + i - 1 = Len(x) + 1 + i /\ line + 1 \in Nat /\ i \in 1..Len(s) + 1 - (line + 1)
        BY <1>4, <1>5
      <3>2. u[i] = s[(line + 1) + i - 1]
        BY <1>4, <1>5, <3>1
      <3> QED
        BY <1>4, <3>1, <3>2
    <2> HIDE DEF u
    <2>3. u = y
      BY <1>3, <2>1, <2>2, SeqEqual
    <2> QED
      BY <2>3 DEF u
  <1>8. LoadFromString(s) = [e |-> Worth(16, SubSeq(s, 1, line - 1)),
                             n |-> Worth(16, SubSeq(s, line + 1, Len(s)))]
    BY DEF LoadFromString, Worth, line
  <1> QED
    BY <1>1, <1>6, <1>7, <1>8 DEF s

-----------------------------------------------------------------------------
(* OAEP *)

\* What is asked of the hash: a digest of HLen bytes for every text, bytes
\* followed by a counter among them.
HashesAreDigests == \A s \in Seq(Nat) : Hash(s) \in [1..HLen -> Byte]

\* A byte tells at least two values apart, zero and one.
LEMMA ByteIs ==
    /\ HLen \in Nat \ {0} /\ Base \in Nat /\ Base >= 2 /\ {0, 1} \subseteq Byte /\ Byte \subseteq Nat
    /\ \A s \in Seq(Byte) : s \in Seq(Nat)
  <1>1. HLen \in Nat \ {0} /\ BlockLen \in 1..Base - 1 /\ Base \in Nat
    BY SealAssumption, BlockTyped
  <1>2. Base >= 2
    BY <1>1
  <1>3. {0, 1} \subseteq Byte /\ Byte \subseteq Nat
    BY <1>1, <1>2 DEF Byte
  <1>4. ASSUME NEW s \in Seq(Byte) PROVE s \in Seq(Nat)
    <2>1. \A i \in 1..Len(s) : s[i] \in Byte
      OBVIOUS
    <2>2. \A i \in 1..Len(s) : s[i] \in Nat
      BY <1>3, <2>1
    <2>3. s = [i \in 1..Len(s) |-> s[i]] /\ Len(s) \in Nat
      OBVIOUS
    <2> QED
      BY <2>2, <2>3
  <1> QED
    BY <1>1, <1>2, <1>3, <1>4

\* A function on the places of a word is one.
LEMMA WordOf ==
    ASSUME NEW S, NEW n \in Nat, NEW f \in [1..n -> S]
    PROVE  f \in Seq(S) /\ Len(f) = n
  OBVIOUS

\* Words of one length put together.
LEMMA FlattenLength ==
    ASSUME NEW S, NEW h \in Nat, NEW m \in Nat, NEW f \in [1..m -> Seq(S)], \A i \in 1..m : Len(f[i]) = h
    PROVE  FlattenSeq(f) \in Seq(S) /\ Len(FlattenSeq(f)) = m * h
  <1> DEFINE OK(k, g) == FlattenSeq(g) \in Seq(S) /\ Len(FlattenSeq(g)) = k * h
             G == {k \in Nat : \A g \in [1..k -> Seq(S)] : (\A i \in 1..k : Len(g[i]) = h) => OK(k, g)}
  <1>1. 0 \in G
    <2>1. ASSUME NEW g \in [1..0 -> Seq(S)] PROVE OK(0, g)
      <3>1. g = <<>>
        OBVIOUS
      <3>2. FlattenSeq(g) = <<>>
        BY <3>1, FlattenAppendOf
      <3>3. 0 * h = 0
        OBVIOUS
      <3> QED
        BY <3>2, <3>3
    <2> QED
      BY <2>1
  <1>2. ASSUME NEW k \in Nat, k \in G PROVE k + 1 \in G
    <2> SUFFICES ASSUME NEW g \in [1..k + 1 -> Seq(S)], \A i \in 1..k + 1 : Len(g[i]) = h PROVE OK(k + 1, g)
      OBVIOUS
    <2> DEFINE r == [i \in 1..k |-> g[i]]
               x == g[k + 1]
    <2>1. r \in [1..k -> Seq(S)] /\ x \in Seq(S) /\ Len(x) = h /\ \A i \in 1..k : Len(r[i]) = h
      OBVIOUS
    <2>2. r \in Seq(Seq(S)) /\ g = Append(r, x)
      OBVIOUS
    <2>3. FlattenSeq(r) \in Seq(S) /\ Len(FlattenSeq(r)) = k * h
      BY <1>2, <2>1
    <2> HIDE DEF r, x
    <2>4. FlattenSeq(g) = FlattenSeq(r) \o x
      BY <2>1, <2>2, FlattenAppendOf
    <2>5. (k + 1) * h = k * h + h
      OBVIOUS
    <2> DEFINE v == FlattenSeq(r)
    <2>6. v \in Seq(S) /\ v \o x \in Seq(S) /\ Len(v \o x) = Len(v) + h
      <3>1. v \in Seq(S)
        BY <2>3
      <3>2. x \in Seq(S) /\ Len(x) = h
        BY <2>1
      <3> HIDE DEF v
      <3> QED
        BY <3>1, <3>2, ConcatProperties
    <2>7. Len(v) = k * h
      BY <2>3
    <2> HIDE DEF v
    <2>8. Len(v \o x) = (k + 1) * h
      BY <2>5, <2>6, <2>7
    <2>9. FlattenSeq(g) = v \o x
      BY <2>4 DEF v
    <2> QED
      BY <2>6, <2>8, <2>9
  <1>3. Nat \subseteq G
    <2> HIDE DEF G
    <2> QED
      BY <1>1, <1>2, Induction
  <1>4. m \in G
    BY <1>3
  <1> QED
    BY <1>4

\* The counter of a mask is four numbers.
LEMMA CounterIs == \A i \in Nat : Counter(i) \in Seq(Nat)
  <1> SUFFICES ASSUME NEW i \in Nat PROVE Counter(i) \in Seq(Nat)
    OBVIOUS
  <1>1. ASSUME NEW j \in 1..4 PROVE (i \div Power[4 - j]) % Base \in Nat
    <2> DEFINE p == Power[4 - j]
               q == i \div p
    <2>1. p \in Nat \ {0}
      BY PowerIs
    <2> HIDE DEF p
    <2>2. q \in Int
      BY <2>1, Remainder
    <2>3. Base \in Nat \ {0}
      BY ByteIs
    <2> HIDE DEF q
    <2>4. q % Base \in 0..Base - 1
      BY <2>2, <2>3, Remainder
    <2> QED
      BY <2>3, <2>4 DEF q, p
  <1> QED
    BY <1>1 DEF Counter

\* A mask is as many bytes as were asked for.
LEMMA MaskIs ==
    ASSUME HashesAreDigests, NEW seed \in Seq(Byte), NEW len \in Nat
    PROVE  Mgf1(seed, len) \in [1..len -> Byte]
  <1> DEFINE m == (len \div HLen) + 1
             f == [i \in 1..m |-> Hash(seed \o Counter(i - 1))]
             u == FlattenSeq(f)
  <1>1. HLen \in Nat \ {0} /\ seed \in Seq(Nat)
    BY ByteIs
  <1>2. m \in Nat /\ m * HLen \in Nat /\ len <= m * HLen
    <2> DEFINE q == len \div HLen
               r == len % HLen
    <2>1. q \in Int /\ r \in 0..HLen - 1 /\ len = HLen * q + r
      BY <1>1, Remainder
    <2>2. q \in Nat
      <3> HIDE DEF r
      <3> SUFFICES ASSUME q <= -1 PROVE FALSE
        BY <2>1
      <3> HIDE DEF q
      <3>1. HLen * (-1 - q) >= 0 /\ HLen * (-1 - q) = -HLen - HLen * q
        BY <1>1, <2>1
      <3> QED
        BY <1>1, <2>1, <3>1
    <2> HIDE DEF q, r
    <2>3. (q + 1) * HLen = HLen * q + HLen /\ HLen * q \in Nat
      BY <1>1, <2>2
    <2>4. q + 1 \in Nat /\ (q + 1) * HLen \in Nat /\ len <= (q + 1) * HLen
      BY <1>1, <2>1, <2>2, <2>3
    <2> QED
      BY <2>4 DEF q
  <1> HIDE DEF m
  <1>3. ASSUME NEW i \in 1..m PROVE f[i] \in Seq(Byte) /\ Len(f[i]) = HLen
    <2>1. seed \o Counter(i - 1) \in Seq(Nat)
      BY <1>1, <1>2, CounterIs, ConcatProperties
    <2>2. f[i] \in [1..HLen -> Byte]
      BY <2>1 DEF HashesAreDigests
    <2> HIDE DEF f
    <2> QED
      BY <1>1, <2>2, WordOf
  <1>4. f \in [1..m -> Seq(Byte)]
    BY <1>3
  <1> HIDE DEF f
  <1>5. u \in Seq(Byte) /\ Len(u) = m * HLen
    BY <1>1, <1>2, <1>3, <1>4, FlattenLength
  <1>6. Mgf1(seed, len) = SubSeq(u, 1, len)
    BY DEF Mgf1, m, f
  <1> DEFINE l == m * HLen
  <1>7. l \in Nat /\ len <= l /\ Len(u) = l
    BY <1>2, <1>5
  <1> HIDE DEF u, l
  <1>8. SubSeq(u, 1, len) \in [1..len -> Byte]
    <2> DEFINE v == SubSeq(u, 1, len)
    <2>1. v \in Seq(Byte) /\ Len(v) = len
      BY <1>5, <1>7
    <2> HIDE DEF v
    <2>2. v \in [1..len -> Byte]
      BY <2>1
    <2> QED
      BY <2>2 DEF v
  <1> QED
    BY <1>6, <1>8

\* Masked twice, bytes are as they were.
LEMMA MaskedTwice ==
    ASSUME NEW n \in Nat, NEW a \in [1..n -> Byte], NEW b \in [1..n -> Byte]
    PROVE  XorBytes(a, b) \in [1..n -> Byte] /\ XorBytes(XorBytes(a, b), b) = a
  <1> DEFINE c == XorBytes(a, b)
             d == XorBytes(c, b)
  <1>1. ASSUME NEW x \in Byte, NEW y \in Byte PROVE Xor(x, y) \in Byte /\ Xor(Xor(x, y), y) = x
    <2>1. Xor(x, y) \in Byte /\ Xor(y, x) \in Byte /\ Xor(x, y) = Xor(y, x)
      BY XorAssumption
    <2>2. Xor(Xor(y, x), y) = Xor(y, Xor(y, x)) /\ Xor(y, Xor(y, x)) = x
      BY <2>1, XorAssumption
    <2> QED
      BY <2>1, <2>2
  <1>2. c = [i \in 1..n |-> Xor(a[i], b[i])]
    BY DEF XorBytes
  <1> HIDE DEF c
  <1>3. \A i \in 1..n : a[i] \in Byte /\ b[i] \in Byte /\ c[i] = Xor(a[i], b[i])
    BY <1>2
  <1>4. \A i \in 1..n : c[i] \in Byte /\ Xor(c[i], b[i]) = a[i]
    BY <1>1, <1>3
  <1>5. c \in [1..n -> Byte]
    BY <1>2, <1>4
  <1>6. d = [i \in 1..n |-> Xor(c[i], b[i])]
    BY <1>5 DEF XorBytes
  <1> HIDE DEF d
  <1>7. \A i \in 1..n : d[i] = a[i]
    BY <1>4, <1>6
  <1>8. d = [i \in 1..n |-> d[i]] /\ a = [i \in 1..n |-> a[i]]
    BY <1>6
  <1>9. [i \in 1..n |-> d[i]] = [i \in 1..n |-> a[i]]
    BY <1>7
  <1>10. d = a
    BY <1>8, <1>9
  <1> QED
    BY <1>5, <1>10 DEF d, c

\* What stands between the hash and the message in a data block: zeros and a one.
LEMMA DataBlock ==
    ASSUME HashesAreDigests, NEW message \in Seq(Byte), NEW z \in Nat
    PROVE  LET db == LabelHash \o [i \in 1..z |-> 0] \o <<1>> \o message
               n  == HLen + z + 1 + Len(message)
               marks == {i \in HLen + 1..Len(db) : db[i] # 0}
           IN  /\ db \in [1..n -> Byte] /\ Len(db) = n
               /\ SubSeq(db, 1, HLen) = LabelHash
               /\ marks # {} /\ Min(marks) = HLen + z + 1 /\ db[Min(marks)] = 1
               /\ SubSeq(db, Min(marks) + 1, Len(db)) = message
  <1> DEFINE l     == LabelHash
             zs    == [i \in 1..z |-> 0]
             db    == l \o zs \o <<1>> \o message
             n     == HLen + z + 1 + Len(message)
             at    == HLen + z + 1
             marks == {i \in HLen + 1..Len(db) : db[i] # 0}
  <1>1. HLen \in Nat \ {0} /\ {0, 1} \subseteq Byte /\ Byte \subseteq Nat /\ Len(message) \in Nat
    BY ByteIs
  <1>2. l \in Seq(Byte) /\ Len(l) = HLen
    <2>1. <<>> \in Seq(Nat)
      OBVIOUS
    <2>2. Hash(<<>>) \in [1..HLen -> Byte]
      BY <2>1 DEF HashesAreDigests
    <2> QED
      BY <1>1, <2>2, WordOf DEF LabelHash
  <1>3. zs \in Seq(Byte) /\ Len(zs) = z /\ \A i \in 1..z : zs[i] = 0
    <2>1. zs \in [1..z -> Byte]
      BY <1>1
    <2> QED
      BY <2>1, WordOf
  <1> DEFINE one == <<1>>
  <1>4. one \in Seq(Byte) /\ Len(one) = 1 /\ one[1] = 1
    BY <1>1
  <1> HIDE DEF l, zs, one
  <1>5. /\ db \in Seq(Byte) /\ Len(db) = n /\ n \in Nat /\ at \in Nat /\ at <= n
        /\ \A i \in 1..HLen : db[i] = l[i]
        /\ \A i \in 1..z : db[HLen + i] = 0
        /\ db[at] = 1
        /\ \A i \in 1..Len(message) : db[at + i] = message[i]
    <2> DEFINE a == l \o zs
               c == a \o one
    <2>1. /\ a \in Seq(Byte) /\ Len(a) = HLen + z
          /\ \A i \in 1..HLen : a[i] = l[i]
          /\ \A i \in 1..z : a[HLen + i] = zs[i]
      BY <1>1, <1>2, <1>3
    <2> HIDE DEF a
    <2>2. /\ c \in Seq(Byte) /\ Len(c) = at /\ c[at] = 1
          /\ \A i \in 1..HLen + z : c[i] = a[i]
      <3> DEFINE k == HLen + z
      <3>1. k \in Nat /\ k + 1 = at /\ a \in Seq(Byte) /\ Len(a) = k
        BY <1>1, <2>1
      <3> HIDE DEF k, at
      <3>2. c \in Seq(Byte) /\ Len(c) = k + 1 /\ c[k + 1] = 1 /\ \A i \in 1..k : c[i] = a[i]
        <4>1. /\ c \in Seq(Byte) /\ Len(c) = Len(a) + Len(one)
              /\ \A i \in 1..Len(a) + Len(one) : c[i] = IF i <= Len(a) THEN a[i] ELSE one[i - Len(a)]
          BY <1>4, <3>1, ConcatProperties
        <4> HIDE DEF c
        <4>2. c \in Seq(Byte) /\ Len(c) = k + 1 /\ \A i \in 1..k + 1 : c[i] = IF i <= k THEN a[i] ELSE one[i - k]
          BY <1>4, <3>1, <4>1
        <4>3. k + 1 \in 1..k + 1 /\ ~(k + 1 <= k) /\ (k + 1) - k = 1
          BY <3>1
        <4>4. c[k + 1] = 1
          BY <1>4, <4>2, <4>3
        <4>5. ASSUME NEW i \in 1..k PROVE c[i] = a[i]
          <5>1. i \in 1..k + 1 /\ i <= k
            BY <3>1
          <5> QED
            BY <4>2, <5>1
        <4> QED
          BY <4>2, <4>4, <4>5
      <3> QED
        BY <3>1, <3>2 DEF k
    <2> HIDE DEF c
    <2> DEFINE e == c \o message
    <2>3. /\ e \in Seq(Byte) /\ Len(e) = at + Len(message)
          /\ \A i \in 1..at : e[i] = c[i]
          /\ \A i \in 1..Len(message) : e[at + i] = message[i]
      BY <1>1, <2>2
    <2>4. db = e
      BY DEF c, a, one
    <2> HIDE DEF e, db
    <2>5. ASSUME NEW i \in 1..HLen PROVE e[i] = l[i]
      <3>1. i \in 1..at /\ i \in 1..HLen + z
        BY <1>1
      <3> QED
        BY <2>1, <2>2, <2>3, <3>1
    <2>6. ASSUME NEW i \in 1..z PROVE e[HLen + i] = 0
      <3>1. HLen + i \in 1..at /\ HLen + i \in 1..HLen + z
        BY <1>1
      <3> QED
        BY <1>3, <2>1, <2>2, <2>3, <3>1
    <2>7. e[at] = 1
      <3>1. at \in 1..at
        BY <1>1
      <3> QED
        BY <2>2, <2>3, <3>1
    <2> QED
      BY <1>1, <2>3, <2>4, <2>5, <2>6, <2>7
  <1> HIDE DEF db
  <1>6. db \in [1..n -> Byte]
    BY <1>5
  <1>7. SubSeq(db, 1, HLen) = l
    <2> DEFINE u == SubSeq(db, 1, HLen)
    <2>1. u \in Seq(Byte) /\ Len(u) = HLen /\ \A i \in 1..HLen : u[i] = l[i]
      BY <1>1, <1>5
    <2> HIDE DEF u
    <2>2. u = l
      BY <1>2, <2>1, SeqEqual
    <2> QED
      BY <2>2 DEF u
  <1>8. at \in marks /\ \A i \in marks : at <= i
    <2>1. at \in marks
      BY <1>1, <1>5
    <2>2. ASSUME NEW i \in marks PROVE at <= i
      <3>1. i \in Nat /\ i >= HLen + 1 /\ db[i] # 0
        BY <1>1
      <3> SUFFICES ASSUME i < at PROVE FALSE
        BY <1>5, <3>1
      <3> DEFINE j == i - HLen
      <3>2. j \in 1..z /\ HLen + j = i
        BY <1>1, <3>1
      <3> HIDE DEF j
      <3> QED
        BY <1>5, <3>1, <3>2
    <2> QED
      BY <2>1, <2>2
  <1>9. Min(marks) = at
    <2>1. marks \subseteq Nat /\ at \in Nat
      BY <1>1
    <2> HIDE DEF marks, at
    <2>2. Min(marks) \in marks /\ Min(marks) <= at
      BY <1>8, <2>1, MinIsLeast
    <2> DEFINE m == Min(marks)
    <2>3. m \in Nat /\ m <= at /\ at <= m
      BY <1>8, <2>1, <2>2
    <2> HIDE DEF m
    <2>4. m = at
      BY <2>1, <2>3
    <2> QED
      BY <2>4 DEF m
  <1>10. SubSeq(db, at + 1, Len(db)) = message
    <2> DEFINE u == SubSeq(db, at + 1, Len(db))
    <2>1. u \in Seq(Byte) /\ Len(u) = Len(message)
      BY <1>1, <1>5
    <2>2. ASSUME NEW i \in 1..Len(message) PROVE u[i] = message[i]
      <3>1. (at + 1) + i - 1 = at + i /\ at + 1 \in Nat /\ i \in 1..Len(db) + 1 - (at + 1)
        BY <1>1, <1>5
      <3> HIDE DEF at, n
      <3>2. u[i] = db[(at + 1) + i - 1]
        BY <1>5, <3>1
      <3> QED
        BY <1>5, <3>1, <3>2
    <2> HIDE DEF u
    <2>3. u = message
      BY <2>1, <2>2, SeqEqual
    <2> QED
      BY <2>3 DEF u
  <1>11. marks # {} /\ db[Min(marks)] = 1
    BY <1>5, <1>8, <1>9
  <1> HIDE DEF marks, at, n
  <1>12. /\ db \in [1..n -> Byte] /\ Len(db) = n
         /\ SubSeq(db, 1, HLen) = l
         /\ marks # {} /\ Min(marks) = at /\ db[Min(marks)] = 1
         /\ SubSeq(db, Min(marks) + 1, Len(db)) = message
    BY <1>5, <1>6, <1>7, <1>9, <1>10, <1>11
  <1> QED
    BY <1>12 DEF marks, at, n, db, l, zs, one

\* What OAEP has padded, with any seed and at any length that leaves room for it,
\* is what it takes off again, and its first byte is zero.
THEOREM OaepDecodeEncode ==
    ASSUME HashesAreDigests, NEW k \in Nat, NEW message \in Seq(Byte), NEW seed \in [1..HLen -> Byte],
           Len(message) <= k - 2 * HLen - 2
    PROVE  \E em \in [1..k -> Byte] :
               OaepEncode(message, k, seed) = {em} /\ em[1] = 0 /\ OaepDecode(em, k) = {message}
  <1> DEFINE z      == k - Len(message) - 2 * HLen - 2
             n      == k - HLen - 1
             db     == LabelHash \o [i \in 1..z |-> 0] \o <<1>> \o message
             masked == XorBytes(db, Mgf1(seed, k - HLen - 1))
             veiled == XorBytes(seed, Mgf1(masked, HLen))
             none   == <<0>>
             em     == none \o veiled \o masked
             m      == SubSeq(em, HLen + 2, Len(em))
             s      == XorBytes(SubSeq(em, 2, HLen + 1), Mgf1(m, HLen))
             d      == XorBytes(m, Mgf1(s, k - HLen - 1))
             marks  == {i \in HLen + 1..Len(d) : d[i] # 0}
  <1>1. HLen \in Nat \ {0} /\ {0, 1} \subseteq Byte /\ Len(message) \in Nat
    BY ByteIs
  <1>2. z \in Nat /\ n \in Nat /\ n = HLen + z + 1 + Len(message) /\ k >= 2 * HLen + 2
    BY <1>1
  <1>3. /\ db \in [1..n -> Byte] /\ SubSeq(db, 1, HLen) = LabelHash
        /\ LET ms == {i \in HLen + 1..Len(db) : db[i] # 0}
           IN  ms # {} /\ db[Min(ms)] = 1 /\ SubSeq(db, Min(ms) + 1, Len(db)) = message
    <2> HIDE DEF n, z
    <2>1. db \in [1..HLen + z + 1 + Len(message) -> Byte]
      BY <1>2, DataBlock
    <2>2. LET ms == {i \in HLen + 1..Len(db) : db[i] # 0}
          IN  /\ SubSeq(db, 1, HLen) = LabelHash
              /\ ms # {} /\ db[Min(ms)] = 1 /\ SubSeq(db, Min(ms) + 1, Len(db)) = message
      BY <1>2, DataBlock
    <2> HIDE DEF db
    <2> QED
      BY <1>2, <2>1, <2>2
  <1>4. OaepEncode(message, k, seed) = {em}
    <2>1. ~(Len(message) > k - 2 * HLen - 2)
      BY <1>1
    <2> QED
      BY <2>1, Zenon DEF OaepEncode
  <1>5. OaepDecode(em, k) =
          IF \/ Len(em) # k \/ k < 2 * HLen + 2
             \/ SubSeq(d, 1, HLen) # LabelHash
             \/ marks = {} \/ d[Min(marks)] # 1
          THEN {}
          ELSE {SubSeq(d, Min(marks) + 1, Len(d))}
    BY Zenon DEF OaepDecode
  <1> HIDE DEF z, db
  <1>6. masked \in [1..n -> Byte] /\ XorBytes(masked, Mgf1(seed, k - HLen - 1)) = db
    <2>1. seed \in Seq(Byte)
      BY <1>1, WordOf
    <2> DEFINE w == Mgf1(seed, k - HLen - 1)
    <2>2. w \in [1..n -> Byte]
      BY <1>2, <2>1, MaskIs
    <2> HIDE DEF w, n
    <2>3. XorBytes(db, w) \in [1..n -> Byte] /\ XorBytes(XorBytes(db, w), w) = db
      <3>1. n \in Nat /\ db \in [1..n -> Byte]
        BY <1>2, <1>3
      <3> QED
        BY <2>2, <3>1, MaskedTwice
    <2> QED
      BY <2>3 DEF w
  <1> HIDE DEF masked
  <1>7. veiled \in [1..HLen -> Byte] /\ XorBytes(veiled, Mgf1(masked, HLen)) = seed
    <2>1. masked \in Seq(Byte) /\ HLen \in Nat
      BY <1>1, <1>2, <1>6, WordOf
    <2> DEFINE w == Mgf1(masked, HLen)
    <2>2. w \in [1..HLen -> Byte]
      BY <2>1, MaskIs
    <2> HIDE DEF w
    <2>3. XorBytes(seed, w) \in [1..HLen -> Byte] /\ XorBytes(XorBytes(seed, w), w) = seed
      BY <2>1, <2>2, MaskedTwice
    <2> QED
      BY <2>3 DEF w
  <1> HIDE DEF veiled, none
  <1>8. /\ em \in Seq(Byte) /\ Len(em) = k /\ em[1] = 0
        /\ SubSeq(em, 2, HLen + 1) = veiled /\ m = masked
    <2> DEFINE a == none \o veiled
    <2>1. /\ none \in Seq(Byte) /\ Len(none) = 1 /\ none[1] = 0
          /\ veiled \in Seq(Byte) /\ Len(veiled) = HLen
          /\ masked \in Seq(Byte) /\ Len(masked) = n
      <3>1. none \in Seq(Byte) /\ Len(none) = 1 /\ none[1] = 0
        BY <1>1 DEF none
      <3> HIDE DEF n
      <3>2. veiled \in Seq(Byte) /\ Len(veiled) = HLen
        BY <1>1, <1>7, WordOf
      <3>3. masked \in Seq(Byte) /\ Len(masked) = n
        BY <1>2, <1>6, WordOf
      <3> QED
        BY <3>1, <3>2, <3>3
    <2>2. /\ a \in Seq(Byte) /\ Len(a) = HLen + 1
          /\ \A i \in 1..HLen + 1 : a[i] = IF i <= 1 THEN none[i] ELSE veiled[i - 1]
      <3>1. /\ a \in Seq(Byte) /\ Len(a) = Len(none) + Len(veiled)
            /\ \A i \in 1..Len(none) + Len(veiled) : a[i] = IF i <= Len(none) THEN none[i] ELSE veiled[i - Len(none)]
        BY <2>1, ConcatProperties
      <3>2. Len(none) = 1 /\ Len(veiled) = HLen /\ 1 + HLen = HLen + 1
        BY <1>1, <2>1
      <3> HIDE DEF a
      <3> QED
        BY <3>1, <3>2
    <2>3. /\ em \in Seq(Byte) /\ Len(em) = HLen + 1 + n
          /\ \A i \in 1..HLen + 1 + n : em[i] = IF i <= HLen + 1 THEN a[i] ELSE masked[i - (HLen + 1)]
      <3>1. em = a \o masked
        OBVIOUS
      <3> HIDE DEF a, em, n
      <3>2. /\ em \in Seq(Byte) /\ Len(em) = Len(a) + Len(masked)
            /\ \A i \in 1..Len(a) + Len(masked) : em[i] = IF i <= Len(a) THEN a[i] ELSE masked[i - Len(a)]
        BY <2>1, <2>2, <3>1, ConcatProperties
      <3>3. Len(a) = HLen + 1 /\ Len(masked) = n
        BY <2>1, <2>2
      <3> QED
        BY <3>2, <3>3
    <2>4. HLen + 1 + n = k
      BY <1>1
    <2> HIDE DEF a, em, n
    <2>5. em[1] = 0
      <3>1. 1 \in 1..HLen + 1 + n /\ 1 <= HLen + 1 /\ 1 \in 1..HLen + 1
        BY <1>1, <1>2
      <3> QED
        BY <2>1, <2>2, <2>3, <3>1
    <2>6. SubSeq(em, 2, HLen + 1) = veiled
      <3> DEFINE u == SubSeq(em, 2, HLen + 1)
      <3>1. u \in Seq(Byte) /\ Len(u) = HLen
        BY <1>1, <1>2, <2>3
      <3>2. ASSUME NEW i \in 1..HLen PROVE u[i] = veiled[i]
        <4>1. i + 1 \in 1..HLen + 1 + n /\ i + 1 <= HLen + 1 /\ i + 1 \in 1..HLen + 1 /\ ~(i + 1 <= 1)
              /\ (i + 1) - 1 = i /\ 2 + i - 1 = i + 1 /\ i \in 1..(HLen + 1) - 2 + 1
          BY <1>1, <1>2
        <4>2. u[i] = em[2 + i - 1]
          BY <1>1, <1>2, <2>3, <4>1
        <4>3. em[i + 1] = a[i + 1] /\ a[i + 1] = veiled[i]
          BY <2>2, <2>3, <4>1
        <4> QED
          BY <4>1, <4>2, <4>3
      <3> HIDE DEF u
      <3>3. u = veiled
        BY <2>1, <3>1, <3>2, SeqEqual
      <3> QED
        BY <3>3 DEF u
    <2>7. SubSeq(em, HLen + 2, Len(em)) = masked
      <3> DEFINE u == SubSeq(em, HLen + 2, Len(em))
      <3>1. u \in Seq(Byte) /\ Len(u) = n
        <4> DEFINE l == Len(em)
                   f == HLen + 2
        <4>1. l \in Nat /\ f \in Nat /\ l + 1 - f = n /\ f >= 1 /\ f <= l + 1 /\ em \in Seq(Byte) /\ n \in Nat /\ Len(em) = l
          BY <1>1, <1>2, <2>3
        <4> HIDE DEF l, f
        <4>2. SubSeq(em, f, l) \in Seq(Byte) /\ Len(SubSeq(em, f, l)) = n
          BY <4>1
        <4> QED
          BY <4>2 DEF l, f
      <3>2. ASSUME NEW i \in 1..n PROVE u[i] = masked[i]
        <4> DEFINE j == HLen + 1 + i
        <4>1. j \in 1..HLen + 1 + n /\ ~(j <= HLen + 1)
              /\ j - (HLen + 1) = i /\ (HLen + 2) + i - 1 = j /\ i \in 1..Len(em) + 1 - (HLen + 2)
          BY <1>1, <1>2, <2>3
        <4>2. u[i] = em[(HLen + 2) + i - 1]
          BY <1>1, <1>2, <2>3, <4>1
        <4> HIDE DEF j, u
        <4>3. em[j] = masked[i]
          BY <2>3, <4>1
        <4> QED
          BY <4>1, <4>2, <4>3
      <3> HIDE DEF u
      <3>3. u = masked
        BY <2>1, <3>1, <3>2, SeqEqual
      <3> QED
        BY <3>3 DEF u
    <2> QED
      BY <2>3, <2>4, <2>5, <2>6, <2>7
  <1> HIDE DEF em, m
  <1>9. s = seed
    BY <1>7, <1>8
  <1> HIDE DEF s
  <1>10. d = db
    BY <1>6, <1>8, <1>9
  <1> HIDE DEF d
  <1>11. marks # {} /\ d[Min(marks)] = 1 /\ SubSeq(d, Min(marks) + 1, Len(d)) = message
         /\ SubSeq(d, 1, HLen) = LabelHash
    BY <1>3, <1>10
  <1>12. OaepDecode(em, k) = {message}
    <2>1. ~(k < 2 * HLen + 2)
      BY <1>1, <1>2
    <2> HIDE DEF marks
    <2> QED
      BY <1>5, <1>8, <1>11, <2>1, Zenon
  <1>13. em \in [1..k -> Byte]
    BY <1>8
  <1> QED
    BY <1>4, <1>8, <1>12, <1>13
=============================================================================
