------------------------- MODULE RollingHashProofs -------------------------
(***************************************************************************)
(* Proofs about RollingHash, for every width of a word, table of powers,   *)
(* list of primes and text: customPow computes the power whichever way it  *)
(* takes, the hash rolled from one window to the next is the full hash,    *)
(* and so the search for a substring never says no to a key it has passed. *)
(*                                                                         *)
(* The hashes are defined by recursion over a string, the powers over the  *)
(* exponent.  The library's induction theorems have predicates as their    *)
(* parameters; Induct and RecursionExists below are the same facts for     *)
(* sets and functions.                                                     *)
(***************************************************************************)
EXTENDS RollingHash, SequenceTheorems, WellFoundedInduction, TLAPS

-----------------------------------------------------------------------------
(* Induction and recursion over the natural numbers, with sets and         *)
(* functions in place of predicates and operators.                         *)

LEMMA Induct ==
    ASSUME NEW S, 0 \in S, \A n \in Nat : n \in S => n + 1 \in S
    PROVE  Nat \subseteq S
<1> DEFINE T == {n \in Nat : n \notin S}
<1>1. SUFFICES ASSUME T # {} PROVE FALSE
  OBVIOUS
<1>2. PICK x \in T : \A y \in T : ~(<<y, x>> \in OpToRel(<, Nat))
  BY <1>1, WFMin, NatLessThanWellFounded
<1>3. x \in Nat /\ x \notin S /\ x # 0
  OBVIOUS
<1>4. x - 1 \in Nat /\ x - 1 < x /\ x = (x - 1) + 1
  BY <1>3
<1>5. <<x - 1, x>> \in OpToRel(<, Nat)
  BY <1>3, <1>4 DEF OpToRel
<1>6. x - 1 \in S
  BY <1>2, <1>4, <1>5
<1>7. QED
  BY <1>3, <1>4, <1>6

\* g is the recursion from a by step, up to n.
Begins(g, n, V, a, step) ==
    /\ g \in [0 .. n -> V] /\ g[0] = a
    /\ \A m \in Nat : m < n => g[m + 1] = step[m][g[m]]

LEMMA BeginningsAgree ==
    ASSUME NEW V, NEW a \in V, NEW step \in [Nat -> [V -> V]],
           NEW n \in Nat, NEW k \in Nat, NEW g, NEW h,
           Begins(g, n, V, a, step), Begins(h, k, V, a, step)
    PROVE  \A m \in Nat : m <= n /\ m <= k => g[m] = h[m]
<1> DEFINE S == {m \in Nat : m <= n /\ m <= k => g[m] = h[m]}
<1>1. 0 \in S
  BY DEF Begins
<1>2. ASSUME NEW m \in Nat, m \in S PROVE m + 1 \in S
  BY <1>2 DEF Begins
<1>3. Nat \subseteq S
  <2> HIDE DEF S
  <2> QED BY <1>1, <1>2, Induct
<1>4. QED
  BY <1>3

LEMMA BeginningsExist ==
    ASSUME NEW V, NEW a \in V, NEW step \in [Nat -> [V -> V]]
    PROVE  \A n \in Nat : \E g : Begins(g, n, V, a, step)
<1> DEFINE S == {n \in Nat : \E g : Begins(g, n, V, a, step)}
<1>1. 0 \in S
  <2>1. Begins([m \in 0 .. 0 |-> a], 0, V, a, step)
    BY DEF Begins
  <2>2. QED
    BY <2>1
<1>2. ASSUME NEW n \in Nat, n \in S PROVE n + 1 \in S
  <2>1. PICK g : Begins(g, n, V, a, step)
    BY <1>2
  <2> DEFINE h == [m \in 0 .. n + 1 |-> IF m = n + 1 THEN step[n][g[n]] ELSE g[m]]
  <2>2. g[n] \in V /\ step[n][g[n]] \in V
    BY <2>1 DEF Begins
  <2>3. h \in [0 .. n + 1 -> V]
    BY <2>1, <2>2 DEF Begins
  <2>4. h[0] = a
    BY <2>1 DEF Begins
  <2>5. ASSUME NEW m \in Nat, m < n + 1 PROVE h[m + 1] = step[m][h[m]]
    <3>1. h[m] = g[m] /\ m \in 0 .. n + 1 /\ m + 1 \in 0 .. n + 1
      BY <2>5
    <3>2. CASE m = n
      BY <3>1, <3>2
    <3>3. CASE m < n
      BY <2>1, <3>1, <3>3 DEF Begins
    <3>4. QED
      BY <2>5, <3>2, <3>3
  <2>6. QED
    <3> HIDE DEF h
    <3> QED BY <2>3, <2>4, <2>5 DEF Begins
<1>3. Nat \subseteq S
  <2> HIDE DEF S
  <2> QED BY <1>1, <1>2, Induct
<1>4. QED
  BY <1>3

Recursion(f, V, a, step) ==
    f \in [Nat -> V] /\ f[0] = a /\ \A n \in Nat : f[n + 1] = step[n][f[n]]

\* There is a function with a given first value and a given step.
LEMMA RecursionExists ==
    ASSUME NEW V, NEW a \in V, NEW step \in [Nat -> [V -> V]]
    PROVE  \E f : Recursion(f, V, a, step)
<1> DEFINE start(n) == CHOOSE g : Begins(g, n, V, a, step)
           f == [n \in Nat |-> start(n)[n]]
<1>1. \A n \in Nat : Begins(start(n), n, V, a, step)
  BY BeginningsExist
<1> HIDE DEF start
<1>2. \A n \in Nat : f[n] = start(n)[n]
  OBVIOUS
<1>3. f \in [Nat -> V]
  <2>1. \A n \in Nat : start(n)[n] \in V
    BY <1>1 DEF Begins
  <2>2. QED
    BY <2>1
<1>4. f[0] = a
  BY <1>1, <1>2 DEF Begins
<1>5. ASSUME NEW n \in Nat PROVE f[n + 1] = step[n][f[n]]
  <2>1. start(n + 1)[n + 1] = step[n][start(n + 1)[n]]
    BY <1>1 DEF Begins
  <2>2. start(n + 1)[n] = start(n)[n]
    BY <1>1, BeginningsAgree
  <2>3. QED
    BY <1>2, <2>1, <2>2
<1>6. QED
  <2> HIDE DEF f
  <2> QED BY <1>3, <1>4, <1>5 DEF Recursion
-----------------------------------------------------------------------------
(* Words.                                                                  *)

Size == 2^Width
Same(a, b) == \E q \in Int : a = b + q * Size

LEMMA SizeType == Size \in Nat /\ Size > 0
BY RollingOK DEF RollingOK, Size

LEMMA WordType ==
    ASSUME NEW a \in Int
    PROVE  Word(a) \in 0 .. Size - 1 /\ Word(a) \in Nat
<1> DEFINE M == Size
<1>1. M \in Nat /\ M > 0
  BY SizeType
<1>2. Word(a) = a % M
  BY DEF Word, Size
<1> HIDE DEF M
<1>3. a % M \in 0 .. M - 1
  BY <1>1
<1>4. QED
  BY <1>1, <1>2, <1>3 DEF M

LEMMA WordIsSame ==
    ASSUME NEW a \in Int
    PROVE  Same(a, Word(a))
<1> DEFINE M == Size
<1>1. M \in Nat /\ M > 0
  BY SizeType
<1>2. Word(a) = a % M
  BY DEF Word, Size
<1> HIDE DEF M
<1>3. a \div M \in Int /\ a % M \in Int /\ a = M * (a \div M) + (a % M)
  BY <1>1
<1>4. a = (a % M) + (a \div M) * M
  BY <1>1, <1>3
<1>5. QED
  BY <1>2, <1>3, <1>4 DEF Same, M

LEMMA SameIsWord ==
    ASSUME NEW a \in Int, NEW b \in Int, Same(a, b)
    PROVE  Word(a) = Word(b)
<1> DEFINE M == Size
<1>1. M \in Nat /\ M > 0
  BY SizeType
<1>2. PICK q \in Int : a = b + q * M
  BY DEF Same
<1>3. PICK x \in Int : a = Word(a) + x * M
  BY WordIsSame DEF Same
<1>4. PICK y \in Int : b = Word(b) + y * M
  BY WordIsSame DEF Same
<1>5. /\ Word(a) \in Int /\ 0 <= Word(a) /\ Word(a) < M
      /\ Word(b) \in Int /\ 0 <= Word(b) /\ Word(b) < M
  BY <1>1, WordType
<1> HIDE DEF M
<1>6. PICK z \in Int : z = q + y - x
  OBVIOUS
<1>7. z * M = q * M + y * M - x * M
  BY <1>1, <1>6
<1>8. Word(a) - Word(b) = z * M
  <2>1. PICK qM \in Int, xM \in Int, yM \in Int : qM = q * M /\ xM = x * M /\ yM = y * M
    BY <1>1
  <2>2. z * M = qM + yM - xM
    BY <1>7, <2>1
  <2>3. a = b + qM /\ a = Word(a) + xM /\ b = Word(b) + yM
    BY <1>2, <1>3, <1>4, <2>1
  <2>4. Word(a) - Word(b) = qM + yM - xM
    BY <1>5, <2>3
  <2>5. QED
    BY <2>2, <2>4
<1>9. z = 0
  <2>1. CASE z >= 1
    <3>1. z * M >= M
      BY <1>1, <2>1
    <3>2. QED
      BY <1>1, <1>5, <1>8, <3>1
  <2>2. CASE z <= -1
    <3>1. z * M <= -M
      BY <1>1, <2>2
    <3>2. QED
      BY <1>1, <1>5, <1>8, <3>1
  <2>3. QED
    BY <2>1, <2>2
<1>10. QED
  BY <1>1, <1>5, <1>8, <1>9

LEMMA WordOfWord ==
    ASSUME NEW a \in Int, NEW b \in Int
    PROVE  /\ Word(Word(a)) = Word(a)
           /\ Word(Word(a) + b) = Word(a + b)
           /\ Word(Word(a) - b) = Word(a - b)
           /\ Word(Word(a) * b) = Word(a * b)
           /\ Word(a + Word(b)) = Word(a + b)
           /\ Word(a - Word(b)) = Word(a - b)
           /\ Word(a * Word(b)) = Word(a * b)
<1>1. ASSUME NEW c \in Int, NEW d \in Int
      PROVE  /\ Word(Word(c) + d) = Word(c + d)
             /\ Word(Word(c) - d) = Word(c - d)
             /\ Word(d - Word(c)) = Word(d - c)
             /\ Word(Word(c) * d) = Word(c * d)
  <2>1. PICK M \in Int : M = Size
    BY SizeType
  <2>2. PICK w \in Int : w = Word(c)
    BY WordType
  <2>3. PICK q \in Int : c = w + q * M
    BY <2>1, <2>2, WordIsSame DEF Same
  <2>4. -q \in Int /\ q * d \in Int /\ -(q * d) \in Int
    OBVIOUS
  <2>5. w + d = (c + d) + (-q) * M
    BY <2>3
  <2>6. w - d = (c - d) + (-q) * M
    BY <2>3
  <2>7. d - w = (d - c) + q * M
    BY <2>3
  <2>8. w * d = (c * d) + (-(q * d)) * M
    BY <2>3
  <2>9. Same(w + d, c + d) /\ Same(w - d, c - d) /\ Same(d - w, d - c) /\ Same(w * d, c * d)
    BY <2>1, <2>4, <2>5, <2>6, <2>7, <2>8 DEF Same
  <2>10. w + d \in Int /\ c + d \in Int /\ w - d \in Int /\ c - d \in Int /\ d - w \in Int
         /\ d - c \in Int /\ w * d \in Int /\ c * d \in Int
    OBVIOUS
  <2>11. QED
    BY <2>2, <2>9, <2>10, SameIsWord
<1>2. /\ Word(a) \in Int /\ Word(b) \in Int
      /\ a + Word(b) = Word(b) + a /\ a * Word(b) = Word(b) * a /\ a + b = b + a /\ a * b = b * a
  BY WordType
<1>3. Word(Word(a)) = Word(a)
  <2>1. Word(Word(a) + 0) = Word(a + 0)
    BY <1>1
  <2>2. QED
    BY <1>2, <2>1
<1>4. QED
  BY <1>1, <1>2, <1>3
-----------------------------------------------------------------------------
(* Powers.                                                                 *)

ArePowers(b, f) ==
    f \in [Nat -> Nat] /\ f[0] = 1 /\ \A n \in Nat : f[n + 1] = Word(f[n] * b)
Power(b) == CHOOSE f : ArePowers(b, f)

LEMMA PowerStep ==
    ASSUME NEW b \in Nat
    PROVE  ArePowers(b, Power(b))
<1> DEFINE step == [n \in Nat |-> [v \in Nat |-> Word(v * b)]]
<1>1. step \in [Nat -> [Nat -> Nat]]
  <2>1. \A v \in Nat : Word(v * b) \in Nat
    BY WordType
  <2>2. QED
    BY <2>1
<1>2. \E f : Recursion(f, Nat, 1, step)
  <2> HIDE DEF step
  <2> QED BY <1>1, RecursionExists
<1>3. PICK f : Recursion(f, Nat, 1, step)
  BY <1>2
<1>4. ArePowers(b, f)
  <2>1. \A n \in Nat : f[n] \in Nat /\ step[n][f[n]] = Word(f[n] * b)
    BY <1>3 DEF Recursion
  <2>2. QED
    BY <1>3, <2>1 DEF ArePowers, Recursion
<1>5. QED
  BY <1>4 DEF Power

LEMMA PowerTable ==
    ASSUME NEW p \in Nat, NEW e \in 0 .. TableSize
    PROVE  precomputedPowers(p)[e] = Power(p)[e]
<1> DEFINE IsTable(f) == f = [n \in 0 .. TableSize |-> IF n = 0 THEN 1 ELSE Word(f[n - 1] * p)]
           power == CHOOSE f : IsTable(f)
           all == [n \in 0 .. TableSize |-> Power(p)[n]]
<1>1. TableSize \in Nat
  BY RollingOK DEF RollingOK
<1>2. precomputedPowers(p) = power
  BY DEF precomputedPowers
<1>3. IsTable(all)
  <2>1. \A n \in 0 .. TableSize : n # 0 => n - 1 \in 0 .. TableSize /\ n - 1 \in Nat /\ (n - 1) + 1 = n
    BY <1>1
  <2>2. \A n \in 0 .. TableSize : all[n] = IF n = 0 THEN 1 ELSE Word(all[n - 1] * p)
    BY <2>1, PowerStep DEF ArePowers
  <2>3. QED
    BY <2>2
<1>4. \A n \in 0 .. TableSize : power[n] = IF n = 0 THEN 1 ELSE Word(power[n - 1] * p)
  <2>1. IsTable(power)
    BY <1>3
  <2>2. QED
    BY <2>1
<1> HIDE DEF power
<1> DEFINE S == {n \in Nat : n <= TableSize => power[n] = Power(p)[n]}
<1>5. 0 \in S
  <2>1. 0 \in 0 .. TableSize
    BY <1>1
  <2>2. power[0] = 1
    BY <1>4, <2>1
  <2>3. Power(p)[0] = 1
    BY PowerStep DEF ArePowers
  <2>4. QED
    BY <2>2, <2>3
<1>6. ASSUME NEW n \in Nat, n \in S PROVE n + 1 \in S
  <2>1. CASE n + 1 <= TableSize
    <3>1. n + 1 \in 0 .. TableSize /\ (n + 1) - 1 = n /\ n + 1 # 0
      BY <1>1, <2>1
    <3>2. power[n + 1] = Word(power[n] * p)
      BY <1>4, <3>1
    <3>3. power[n] = Power(p)[n]
      BY <1>1, <1>6, <2>1
    <3>4. QED
      BY <3>2, <3>3, PowerStep DEF ArePowers
  <2>2. QED
    BY <2>1
<1>7. Nat \subseteq S
  <2> HIDE DEF S
  <2> QED BY <1>5, <1>6, Induct
<1>8. QED
  BY <1>1, <1>2, <1>7

LEMMA PowerType ==
    ASSUME NEW b \in Nat, NEW n \in Nat
    PROVE  Power(b)[n] \in Nat /\ Power(b)[0] = 1 /\ Power(b)[n + 1] = Word(Power(b)[n] * b)
BY PowerStep DEF ArePowers

LEMMA PowerOfSquare ==
    ASSUME NEW b \in Nat
    PROVE  \A q \in Nat : Power(Word(b * b))[q] = Power(b)[2 * q]
<1> DEFINE S == {q \in Nat : Power(Word(b * b))[q] = Power(b)[2 * q]}
<1>1. b * b \in Nat /\ Word(b * b) \in Nat
  BY WordType
<1>2. 0 \in S
  BY <1>1, PowerType
<1>3. ASSUME NEW q \in Nat, q \in S PROVE q + 1 \in S
  <2>1. PICK P \in Nat : P = Power(b)[2 * q]
    <3>1. 2 * q \in Nat
      OBVIOUS
    <3>2. QED
      BY <3>1, PowerType
  <2>2. Power(Word(b * b))[q + 1] = Word(P * Word(b * b))
    BY <1>1, <1>3, <2>1, PowerType
  <2>3. Word(P * Word(b * b)) = Word(P * (b * b))
    BY <1>1, WordOfWord
  <2>4. 2 * q \in Nat /\ 2 * q + 1 \in Nat /\ (2 * q + 1) + 1 = 2 * (q + 1)
    OBVIOUS
  <2>5. Power(b)[2 * q + 1] = Word(P * b)
    BY <2>1, <2>4, PowerType
  <2>6. Power(b)[2 * (q + 1)] = Word(Word(P * b) * b)
    BY <2>4, <2>5, PowerType
  <2>7. P * b \in Int /\ (P * b) * b = P * (b * b)
    OBVIOUS
  <2>8. Word(Word(P * b) * b) = Word(P * (b * b))
    BY <2>7, WordOfWord
  <2>9. QED
    BY <2>2, <2>3, <2>6, <2>8
<1>4. Nat \subseteq S
  <2> HIDE DEF S
  <2> QED BY <1>2, <1>3, Induct
<1>5. QED
  BY <1>4

\* One round of the loop of customPow.
LEMMA PowerOfHalf ==
    ASSUME NEW b \in Nat, NEW e \in Nat, e # 0
    PROVE  Power(b)[e] =
              Word((IF e % 2 = 1 THEN b ELSE 1) * Power(Word(b * b))[e \div 2])
<1>1. PICK q \in Nat : q = e \div 2 /\ (e = 2 * q \/ e = 2 * q + 1)
  OBVIOUS
<1>2. PICK P \in Nat : P = Power(b)[2 * q]
  <2>1. 2 * q \in Nat
    OBVIOUS
  <2>2. QED
    BY <2>1, PowerType
<1>3. Power(Word(b * b))[e \div 2] = P
  BY <1>1, <1>2, PowerOfSquare
<1>4. CASE e = 2 * q + 1
  <2>1. e % 2 = 1
    BY <1>4
  <2>2. 2 * q \in Nat /\ Power(b)[e] = Word(P * b)
    BY <1>2, <1>4, PowerType
  <2>3. P * b = b * P
    OBVIOUS
  <2>4. QED
    BY <1>3, <2>1, <2>2, <2>3
<1>5. CASE e = 2 * q
  <2>1. e % 2 # 1 /\ e - 1 \in Nat /\ (e - 1) + 1 = e
    BY <1>5
  <2>2. PICK R \in Nat : R = Power(b)[e - 1]
    BY <2>1, PowerType
  <2>3. P = Word(R * b) /\ R * b \in Int
    BY <1>2, <1>5, <2>1, <2>2, PowerType
  <2>4. Word(P) = P
    BY <2>3, WordOfWord
  <2>5. 1 * P = P
    OBVIOUS
  <2>6. QED
    BY <1>2, <1>3, <1>5, <2>1, <2>4, <2>5
<1>6. QED
  BY <1>1, <1>4, <1>5

\* The loop of customPow computes the power.
LEMMA SquaringIsPower ==
    ASSUME NEW p \in Nat, NEW exp \in Nat
    PROVE  Squaring(p, exp) = Power(p)[exp]
<1> DEFINE Round(x, e, b) ==
               IF e = 0 THEN 1
               ELSE Word((IF e % 2 = 1 THEN b ELSE 1) * x[e \div 2][Word(b * b)])
           IsResult(x) == x = [e \in 0 .. exp |-> [b \in Nat |-> Round(x, e, b)]]
           result == CHOOSE x : IsResult(x)
           all == [e \in 0 .. exp |-> [b \in Nat |-> Power(b)[e]]]
<1>1. Squaring(p, exp) = result[exp][p]
  BY DEF Squaring
<1>2. \A b \in Nat : b * b \in Int /\ Word(b * b) \in Nat
  BY WordType
<1>3. \A e \in Nat : e # 0 => e \div 2 \in Nat /\ e \div 2 < e
  OBVIOUS
<1>4. IsResult(all)
  <2>1. ASSUME NEW e \in 0 .. exp, NEW b \in Nat
        PROVE  Power(b)[e] = Round(all, e, b)
    <3>1. CASE e = 0
      BY <3>1, PowerType
    <3>2. CASE e # 0
      <4>1. e \div 2 \in 0 .. exp
        BY <1>3, <3>2
      <4>2. all[e \div 2][Word(b * b)] = Power(Word(b * b))[e \div 2]
        BY <1>2, <4>1
      <4>3. QED
        <5> HIDE DEF all
        <5> QED BY <3>2, <4>2, PowerOfHalf
    <3>3. QED
      BY <3>1, <3>2
  <2>2. QED
    <3> HIDE DEF Round
    <3> QED BY <2>1
<1>5. \A e \in 0 .. exp : \A b \in Nat : result[e][b] = Round(result, e, b)
  <2>1. IsResult(result)
    <3> HIDE DEF IsResult, all
    <3> QED BY <1>4
  <2>2. \A e \in 0 .. exp : result[e] = [b \in Nat |-> Round(result, e, b)]
    <3> HIDE DEF Round, result
    <3> QED BY <2>1
  <2>3. QED
    <3> HIDE DEF Round, result
    <3> QED BY <2>2
<1> HIDE DEF result
<1> DEFINE S == {n \in Nat : \A e \in 0 .. exp : e <= n => \A b \in Nat : result[e][b] = Power(b)[e]}
<1>6. 0 \in S
  <2>1. \A e \in 0 .. exp : e <= 0 => e = 0
    OBVIOUS
  <2>2. QED
    BY <1>5, <2>1, PowerType
<1>7. ASSUME NEW n \in Nat, n \in S PROVE n + 1 \in S
  <2>1. ASSUME NEW e \in 0 .. exp, e <= n + 1, NEW b \in Nat
        PROVE  result[e][b] = Power(b)[e]
    <3>1. CASE e = 0
      BY <1>5, <3>1, PowerType
    <3>2. CASE e # 0
      <4>1. e \div 2 \in 0 .. exp /\ e \div 2 <= n
        BY <1>3, <2>1, <3>2
      <4>2. result[e \div 2][Word(b * b)] = Power(Word(b * b))[e \div 2]
        BY <1>2, <1>7, <4>1
      <4>3. QED
        BY <1>5, <3>2, <4>2, PowerOfHalf
    <3>3. QED
      BY <3>1, <3>2
  <2>2. QED
    BY <2>1
<1>8. Nat \subseteq S
  <2> HIDE DEF S
  <2> QED BY <1>6, <1>7, Induct
<1>9. QED
  BY <1>1, <1>8

\* Whichever way it takes, through the table or by squaring, customPow gives the power
\* modulo the word (hashFn.h:13-30).
THEOREM customPowIsPower ==
    ASSUME NEW p \in Nat, NEW exp \in Nat
    PROVE  customPow(p, exp) = Power(p)[exp]
<1>1. TableSize \in Nat
  BY RollingOK DEF RollingOK
<1>2. exp < TableSize => exp \in 0 .. TableSize
  BY <1>1
<1>3. QED
  BY <1>2, PowerTable, SquaringIsPower DEF customPow
-----------------------------------------------------------------------------
(* The full hash and the rolled one.                                       *)

LEMMA SignedType ==
    ASSUME NEW c \in 0 .. 255
    PROVE  Signed(c) \in Int /\ (c < 128 => Signed(c) = c)
BY DEF Signed

\* f[n] is the hash of the first n characters, weighed as they are in s.
ArePrefixHashes(p, s, f) ==
    /\ f \in [0 .. Len(s) -> Nat] /\ f[0] = 0
    /\ \A n \in 1 .. Len(s) :
          f[n] = Word(f[n - 1] + Signed(s[n]) * Power(p)[Len(s) - n])

LEMMA PrefixHashesExist ==
    ASSUME NEW p \in Nat, NEW s \in Seq(Codes)
    PROVE  \E f : ArePrefixHashes(p, s, f)
<1> DEFINE Next1(n, v) == Word(v + Signed(s[n + 1]) * Power(p)[Len(s) - (n + 1)])
           step == [n \in Nat |-> [v \in Nat |-> IF n < Len(s) THEN Next1(n, v) ELSE 0]]
<1>1. \A n \in Nat, v \in Nat : n < Len(s) => Next1(n, v) \in Nat
  <2>1. ASSUME NEW n \in Nat, NEW v \in Nat, n < Len(s) PROVE Next1(n, v) \in Nat
    <3>1. s[n + 1] \in 0 .. 255
      <4>1. n + 1 \in 1 .. Len(s)
        BY <2>1
      <4>2. s[n + 1] \in Codes
        BY <4>1
      <4>3. QED
        BY <4>2, RollingOK DEF RollingOK
    <3>2. Signed(s[n + 1]) \in Int
      BY <3>1, SignedType
    <3>3. Len(s) - (n + 1) \in Nat
      BY <2>1
    <3>4. Power(p)[Len(s) - (n + 1)] \in Nat
      BY <3>3, PowerType
    <3>5. v + Signed(s[n + 1]) * Power(p)[Len(s) - (n + 1)] \in Int
      BY <3>2, <3>4
    <3>6. QED
      BY <3>5, WordType
  <2>2. QED
    BY <2>1
<1>2. step \in [Nat -> [Nat -> Nat]]
  <2> HIDE DEF Next1
  <2> QED BY <1>1
<1>3. PICK h : Recursion(h, Nat, 0, step)
  <2> HIDE DEF step
  <2> QED BY <1>2, RecursionExists
<1>4. h \in [Nat -> Nat] /\ h[0] = 0 /\ \A n \in Nat : h[n + 1] = step[n][h[n]]
  BY <1>3 DEF Recursion
<1> DEFINE f == [n \in 0 .. Len(s) |-> h[n]]
<1>5. Len(s) \in Nat
  OBVIOUS
<1>6. f \in [0 .. Len(s) -> Nat] /\ f[0] = 0
  BY <1>4, <1>5
<1>7. ASSUME NEW n \in 1 .. Len(s)
      PROVE  f[n] = Word(f[n - 1] + Signed(s[n]) * Power(p)[Len(s) - n])
  <2>1. PICK m \in Nat : m + 1 = n /\ m < Len(s) /\ m = n - 1
    BY <1>5
  <2>2. h[m] \in Nat /\ h[n] = step[m][h[m]]
    BY <1>4, <2>1
  <2>3. h[n] = Next1(m, h[m])
    <3> HIDE DEF Next1
    <3> QED BY <2>1, <2>2
  <2>4. f[n] = h[n] /\ f[n - 1] = h[m]
    BY <1>5, <2>1
  <2>5. QED
    BY <2>1, <2>3, <2>4
<1>8. QED
  <2> HIDE DEF f
  <2> QED BY <1>6, <1>7 DEF ArePrefixHashes

LEMMA FullHashIsTheLast ==
    ASSUME NEW p \in Nat, NEW s \in Seq(Codes), NEW f, ArePrefixHashes(p, s, f)
    PROVE  FullHash(p, s) = f[Len(s)]
<1> DEFINE Term(x, n) == IF n = 0 THEN 0
                         ELSE Word(x[n - 1] + Signed(s[n]) * customPow(p, Len(s) - n))
           IsTotal(x) == x = [n \in 0 .. Len(s) |-> Term(x, n)]
           total == CHOOSE x : IsTotal(x)
<1>1. FullHash(p, s) = total[Len(s)]
  BY DEF FullHash
<1>2. Len(s) \in Nat
  OBVIOUS
<1>3. \A n \in 0 .. Len(s) : f[n] = Term(f, n)
  <2>1. ASSUME NEW n \in 0 .. Len(s), n # 0 PROVE f[n] = Term(f, n)
    <3>1. n \in 1 .. Len(s) /\ Len(s) - n \in Nat
      BY <1>2, <2>1
    <3>2. customPow(p, Len(s) - n) = Power(p)[Len(s) - n]
      BY <3>1, customPowIsPower
    <3>3. QED
      BY <2>1, <3>1, <3>2 DEF ArePrefixHashes
  <2>2. f[0] = 0
    BY DEF ArePrefixHashes
  <2>3. QED
    BY <2>1, <2>2
<1> HIDE DEF Term
<1>4. IsTotal(f)
  BY <1>3 DEF ArePrefixHashes
<1>5. IsTotal(total)
  <2> HIDE DEF IsTotal
  <2> QED BY <1>4
<1>6. \A n \in 0 .. Len(s) : total[n] = Term(total, n)
  <2> HIDE DEF total
  <2> QED BY <1>5
<1> HIDE DEF total
<1> DEFINE S == {n \in Nat : n <= Len(s) => total[n] = f[n]}
<1>7. 0 \in S
  <2>1. 0 \in 0 .. Len(s)
    BY <1>2
  <2>2. QED
    BY <1>3, <1>6, <2>1 DEF Term
<1>8. ASSUME NEW n \in Nat, n \in S PROVE n + 1 \in S
  <2>1. CASE n + 1 <= Len(s)
    <3>1. n + 1 \in 0 .. Len(s) /\ (n + 1) - 1 = n /\ n + 1 # 0 /\ n <= Len(s)
      BY <1>2, <2>1
    <3>2. total[n] = f[n]
      BY <1>8, <3>1
    <3>3. Term(total, n + 1) = Term(f, n + 1)
      BY <3>1, <3>2 DEF Term
    <3>4. QED
      BY <1>3, <1>6, <3>1, <3>3
  <2>2. QED
    BY <2>1
<1>9. Nat \subseteq S
  <2> HIDE DEF S
  <2> QED BY <1>7, <1>8, Induct
<1>10. QED
  BY <1>1, <1>2, <1>9

\* The hash x without the term d, one place further.
Moved(x, d, p) == (x - d) * p

\* Taking words within a product or a sum changes nothing.
LEMMA WordWithinProduct ==
    ASSUME NEW x \in Int, NEW d \in Int, NEW p \in Int
    PROVE  Word(Moved(Word(x), d, p)) = Word(Moved(x, d, p))
<1>1. Word(x) \in Int /\ Word(x) - d \in Int /\ x - d \in Int
  BY WordType
<1>2. Word((Word(x) - d) * p) = Word(Word(Word(x) - d) * p)
  BY <1>1, WordOfWord
<1>3. Word(Word(x) - d) = Word(x - d)
  BY WordOfWord
<1>4. Word(Word(x - d) * p) = Word((x - d) * p)
  BY <1>1, WordOfWord
<1>5. QED
  BY <1>2, <1>3, <1>4 DEF Moved

LEMMA WordWithinSum ==
    ASSUME NEW x \in Int, NEW p \in Int, NEW c \in Int
    PROVE  Word(Word(x) * p + c) = Word(Word(x * p) + c)
<1>1. Word(x) \in Int /\ x * p \in Int /\ Word(x) * p \in Int
  BY WordType
<1>2. Word(Word(x) * p + c) = Word(Word(Word(x) * p) + c)
  BY <1>1, WordOfWord
<1>3. Word(Word(x) * p) = Word(x * p)
  BY WordOfWord
<1>4. QED
  BY <1>2, <1>3

\* t is the window after s.
Follows(s, t) ==
    /\ Len(s) > 0 /\ Len(t) = Len(s)
    /\ \A n \in Nat : n > 0 /\ n < Len(s) => t[n] = s[n + 1]

\* Without the character that has left, and one place further, the prefixes of a text
\* have the hashes of those of the text that begins one character later.
LEMMA PrefixesShift ==
    ASSUME NEW p \in Nat, NEW s \in Seq(Codes), NEW t \in Seq(Codes),
           Follows(s, t), s[1] < 128,
           NEW f, ArePrefixHashes(p, s, f), NEW g, ArePrefixHashes(p, t, g),
           NEW D \in Int, D = s[1] * Power(p)[Len(s) - 1]
    PROVE  \A k \in Nat : k < Len(s) => Word(Moved(f[k + 1], D, p)) = g[k]
<1>1. PICK L \in Nat : L = Len(s) /\ L = Len(t) /\ L > 0
  BY DEF Follows
<1>2. /\ f \in [0 .. L -> Nat] /\ f[0] = 0 /\ g \in [0 .. L -> Nat] /\ g[0] = 0
      /\ \A n \in 1 .. L : f[n] = Word(f[n - 1] + Signed(s[n]) * Power(p)[L - n])
      /\ \A n \in 1 .. L : g[n] = Word(g[n - 1] + Signed(t[n]) * Power(p)[L - n])
  BY <1>1 DEF ArePrefixHashes
<1>3. \A n \in 1 .. L : s[n] \in 0 .. 255 /\ Signed(s[n]) \in Int
  <2>1. ASSUME NEW n \in 1 .. L PROVE s[n] \in 0 .. 255
    <3>1. n \in 1 .. Len(s)
      BY <1>1
    <3>2. s[n] \in Codes
      BY <3>1
    <3>3. QED
      BY <3>2, RollingOK DEF RollingOK
  <2>2. QED
    BY <2>1, SignedType
<1> DEFINE S == {k \in Nat : k < L => Word(Moved(f[k + 1], D, p)) = g[k]}
<1>4. 0 \in S
  <2>1. 1 \in 1 .. L /\ 1 - 1 = 0
    BY <1>1
  <2>2. Signed(s[1]) = s[1]
    BY <1>3, <2>1, SignedType
  <2>3. f[1] = Word(0 + D)
    BY <1>1, <1>2, <2>1, <2>2
  <2>4. Word(Moved(Word(D), D, p)) = Word(Moved(D, D, p))
    BY WordWithinProduct
  <2>5. Moved(D, D, p) = 0 /\ 0 + D = D
    BY DEF Moved
  <2>6. Word(0) = 0
    <3>1. Word(0) = 0 % Size
      BY DEF Word, Size
    <3>2. QED
      BY <3>1, SizeType
  <2>7. Word(Moved(f[1], D, p)) = 0
    BY <2>3, <2>4, <2>5, <2>6
  <2>8. QED
    BY <1>2, <2>7
<1>5. ASSUME NEW k \in Nat, k \in S PROVE k + 1 \in S
  <2> SUFFICES ASSUME k + 1 < L
               PROVE  Word(Moved(f[(k + 1) + 1], D, p)) = g[k + 1]
    OBVIOUS
  <2>1. /\ k + 1 \in 1 .. L /\ k + 2 \in 1 .. L /\ (k + 1) + 1 = k + 2 /\ (k + 2) - 1 = k + 1
        /\ (k + 1) - 1 = k /\ k \in 0 .. L
    BY <1>1
  <2>2. PICK c \in Int : c = Signed(s[k + 2]) /\ c = Signed(t[k + 1])
    <3>1. t[k + 1] = s[k + 2]
      BY <1>1, <2>1 DEF Follows
    <3>2. QED
      BY <1>3, <2>1, <3>1
  <2>3. PICK m \in Nat : m = L - (k + 2) /\ m + 1 = L - (k + 1)
    <3>1. L - (k + 2) \in Nat /\ (L - (k + 2)) + 1 = L - (k + 1)
      BY <1>1, <2>1
    <3>2. QED
      BY <3>1
  <2>4. PICK P \in Nat : P = Power(p)[m] /\ Power(p)[m + 1] = Word(P * p)
    BY <2>3, PowerType
  <2>5. PICK X \in Nat, Y \in Nat : X = f[k + 1] /\ Y = g[k]
    <3>1. k + 1 \in 0 .. L /\ k \in 0 .. L
      BY <2>1
    <3>2. f[k + 1] \in Nat /\ g[k] \in Nat
      BY <1>2, <3>1
    <3>3. QED
      BY <3>2
  <2>6. f[k + 2] = Word(X + c * P)
    BY <1>2, <2>1, <2>2, <2>3, <2>4, <2>5
  <2>7. g[k + 1] = Word(Y + c * Word(P * p))
    BY <1>2, <2>1, <2>2, <2>3, <2>4, <2>5
  <2>8. Word(Moved(X, D, p)) = Y
    BY <1>5, <2>5
  <2>9. PICK R \in Int, Z \in Int, W \in Int, U \in Int, V \in Int :
           /\ R = P * p /\ Z = X + c * P /\ W = Moved(X, D, p)
           /\ U = c * R /\ V = c * Word(R)
    <3>1. P * p \in Int /\ X + c * P \in Int /\ Moved(X, D, p) \in Int
      BY DEF Moved
    <3>2. PICK R \in Int : R = P * p
      BY <3>1
    <3>3. Word(R) \in Int
      BY WordType
    <3>4. c * R \in Int /\ c * Word(R) \in Int
      BY <3>3
    <3>5. QED
      BY <3>1, <3>2, <3>4
  <2>10. Word(Moved(f[k + 2], D, p)) = Word(Moved(Z, D, p))
    <3>1. f[k + 2] = Word(Z)
      BY <2>6, <2>9
    <3>2. p \in Int
      OBVIOUS
    <3>3. Word(Moved(Word(Z), D, p)) = Word(Moved(Z, D, p))
      BY <3>2, WordWithinProduct
    <3>4. QED
      BY <3>1, <3>3
  <2>11. Moved(Z, D, p) = W + U
    <3>1. ((X + c * P) - D) * p = (X - D) * p + c * (P * p)
      OBVIOUS
    <3>2. Z = X + c * P /\ W = (X - D) * p /\ U = c * (P * p)
      BY <2>9 DEF Moved
    <3>3. (Z - D) * p = W + U
      BY <3>1, <3>2
    <3>4. QED
      BY <3>3 DEF Moved
  <2>12. Word(W + U) = Word(Y + U)
    <3>1. Word(Word(W) + U) = Word(W + U)
      BY WordOfWord
    <3>2. QED
      BY <2>8, <2>9, <3>1
  <2>13. Word(Y + U) = Word(Y + V)
    <3>1. Y \in Int
      OBVIOUS
    <3>2. Word(Y + Word(U)) = Word(Y + U)
      BY <3>1, WordOfWord, Zenon
    <3>3. Word(Y + Word(V)) = Word(Y + V)
      BY <3>1, WordOfWord, Zenon
    <3>4. Word(U) = Word(V)
      BY <2>9, WordOfWord
    <3>5. QED
      BY <3>2, <3>3, <3>4
  <2>14. QED
    BY <2>1, <2>7, <2>9, <2>10, <2>11, <2>12, <2>13
<1>6. Nat \subseteq S
  <2> HIDE DEF S
  <2> QED BY <1>4, <1>5, Induct
<1>7. QED
  BY <1>1, <1>6

\* The step of the rolling hash from one window to the next.
LEMMA RolledHashIsFull ==
    ASSUME NEW p \in Nat, NEW s \in Seq(Codes), NEW t \in Seq(Codes),
           Follows(s, t), s[1] < 128
    PROVE  RolledHash(p, t, s[1], FullHash(p, s)) = FullHash(p, t)
<1>1. PICK L \in Nat : L = Len(s) /\ L = Len(t) /\ L > 0 /\ L - 1 \in Nat /\ (L - 1) + 1 = L
  BY DEF Follows
<1>2. PICK f : ArePrefixHashes(p, s, f)
  BY PrefixHashesExist
<1>3. PICK g : ArePrefixHashes(p, t, g)
  BY PrefixHashesExist
<1>4. s[1] \in Int /\ Signed(t[L]) \in Int
  <2>1. 1 \in 1 .. Len(s) /\ L \in 1 .. Len(t)
    BY <1>1
  <2>2. s[1] \in Codes /\ t[L] \in Codes
    BY <2>1
  <2>3. s[1] \in 0 .. 255 /\ t[L] \in 0 .. 255
    BY <2>2, RollingOK DEF RollingOK
  <2>4. QED
    BY <2>3, SignedType
<1>5. PICK P \in Nat : P = Power(p)[L - 1]
  BY <1>1, PowerType
<1>6. PICK D \in Int : D = s[1] * P
  BY <1>4
<1>7. Word((f[L] - D) * p) = g[L - 1]
  <2>1. Word(Moved(f[(L - 1) + 1], D, p)) = g[L - 1]
    <3>1. D = s[1] * Power(p)[Len(s) - 1] /\ L - 1 < Len(s)
      BY <1>1, <1>5, <1>6
    <3>2. \A k \in Nat : k < Len(s) => Word(Moved(f[k + 1], D, p)) = g[k]
      BY <1>2, <1>3, <3>1, PrefixesShift
    <3>3. QED
      BY <1>1, <3>1, <3>2
  <2>2. QED
    BY <1>1, <2>1 DEF Moved
<1>8. f[L] \in Nat /\ g[L - 1] \in Nat
  <2>1. L \in 0 .. L /\ L - 1 \in 0 .. L
    BY <1>1
  <2>2. f \in [0 .. L -> Nat] /\ g \in [0 .. L -> Nat]
    BY <1>1, <1>2, <1>3 DEF ArePrefixHashes
  <2>3. QED
    BY <2>1, <2>2
<1>9. PICK c \in Int : c = Signed(t[L])
  BY <1>4
<1>10. RolledHash(p, t, s[1], FullHash(p, s)) = Word(Word(f[L] - D) * p + c)
  <2>1. customPow(p, Len(t) - 1) = P
    BY <1>1, <1>5, customPowIsPower
  <2>2. FullHash(p, s) = f[L]
    BY <1>1, <1>2, FullHashIsTheLast
  <2>3. QED
    BY <1>1, <1>6, <1>9, <2>1, <2>2 DEF RolledHash
<1>11. f[L] - D \in Int
  BY <1>6, <1>8
<1>12. Word(Word(f[L] - D) * p + c) = Word(g[L - 1] + c)
  <2>1. p \in Int
    OBVIOUS
  <2>2. Word(Word(f[L] - D) * p + c) = Word(Word((f[L] - D) * p) + c)
    BY <1>11, <2>1, WordWithinSum, Zenon
  <2>3. QED
    BY <1>7, <2>2
<1>13. FullHash(p, t) = Word(g[L - 1] + c)
  <2>1. FullHash(p, t) = g[L]
    BY <1>1, <1>3, FullHashIsTheLast
  <2>2. L \in 1 .. L /\ L - L = 0 /\ c * 1 = c
    BY <1>1
  <2>3. g[L] = Word(g[L - 1] + c * Power(p)[0])
    BY <1>1, <1>3, <1>9, <2>2 DEF ArePrefixHashes
  <2>4. QED
    BY <2>1, <2>2, <2>3, PowerType
<1>14. QED
  BY <1>10, <1>12, <1>13
-----------------------------------------------------------------------------
(* The search.                                                             *)

Plain == \A n \in DOMAIN text : text[n] < 128

SearchTypes ==
    /\ text \in Seq(Codes)
    /\ added \in Seq(Codes) /\ Len(added) = WindowLength
    /\ filter = BitsSetBy(added)
    /\ i \in Nat /\ i > 0

\* The windows before i lie within the text, and the state tells of the last of them.
LastWindow ==
    i > 1 => /\ i + WindowLength <= Len(text) + 2
             /\ lastCharCode = text[i - 1]
             /\ Plain => \A j \in DOMAIN Primes : lastHashes[j] = FullHash(Primes[j], Window(i - 1))

\* None of them is the key, unless the search has said yes.
NoneBefore ==
    /\ answer = "no" => i + WindowLength > Len(text) + 1
    /\ Plain /\ answer # "yes" => \A n \in 1 .. i - 1 : Window(n) # added

RollingInv == SearchTypes /\ LastWindow /\ NoneBefore

LEMMA StringsAreSequences ==
    ASSUME NEW lengths, lengths \subseteq Nat, NEW s \in Strings(lengths)
    PROVE  s \in Seq(Codes) /\ Len(s) \in lengths
<1>1. PICK n \in lengths : s \in [1 .. n -> Codes]
  BY DEF Strings
<1>2. n \in Nat
  BY <1>1
<1>3. s \in Seq(Codes) /\ Len(s) = n
  BY <1>1, <1>2
<1>4. QED
  BY <1>1, <1>3

LEMMA WindowFacts ==
    ASSUME NEW n \in Nat, n > 0, text \in Seq(Codes), n + WindowLength <= Len(text) + 1
    PROVE  /\ Window(n) \in Seq(Codes) /\ Len(Window(n)) = WindowLength
           /\ \A m \in 1 .. WindowLength : Window(n)[m] = text[n + m - 1]
<1>1. WindowLength \in Nat /\ WindowLength > 0
  BY RollingOK DEF RollingOK
<1>2. PICK k \in Nat : k = n + WindowLength - 1 /\ k \in 1 .. Len(text) /\ n \in 1 .. k
  BY <1>1
<1>3. Window(n) = SubSeq(text, n, k)
  BY <1>2 DEF Window
<1>4. \A m \in n .. k : m \in 1 .. Len(text)
  BY <1>2
<1>5. SubSeq(text, n, k) \in Seq(Codes)
  BY <1>2, <1>4, SubSeqProperties
<1>6. Len(SubSeq(text, n, k)) = WindowLength
  BY <1>1, <1>2, SubSeqProperties
<1>7. \A m \in 1 .. WindowLength : SubSeq(text, n, k)[m] = text[n + m - 1]
  BY <1>1, <1>2
<1>8. QED
  BY <1>3, <1>5, <1>6, <1>7

LEMMA RollingStart == RollingInit => RollingInv
<1> SUFFICES ASSUME RollingInit PROVE RollingInv
  OBVIOUS
<1>1. text \in Seq(Codes) /\ added \in Seq(Codes) /\ Len(added) = WindowLength
  <2>1. TextLengths \subseteq Nat /\ {WindowLength} \subseteq Nat
    BY RollingOK DEF RollingOK
  <2>2. text \in Seq(Codes)
    BY <2>1, StringsAreSequences DEF RollingInit
  <2>3. added \in Seq(Codes) /\ Len(added) \in {WindowLength}
    BY <2>1, StringsAreSequences DEF RollingInit
  <2>4. QED
    BY <2>2, <2>3
<1>2. i = 1 /\ filter = BitsSetBy(added) /\ answer = "searching"
  BY DEF RollingInit
<1>3. LastWindow
  BY <1>2 DEF LastWindow
<1>4. NoneBefore
  BY <1>2 DEF NoneBefore
<1>5. QED
  BY <1>1, <1>2, <1>3, <1>4 DEF RollingInv, SearchTypes

\* The hashes of the window at i are its full hashes.
LEMMA HashesAreFull ==
    ASSUME RollingInv, Plain, i + WindowLength <= Len(text) + 1, NEW j \in DOMAIN Primes
    PROVE  HashesAt(i)[j] = FullHash(Primes[j], Window(i))
<1>1. WindowLength \in Nat /\ WindowLength > 0 /\ Primes[j] \in Nat
  BY RollingOK DEF RollingOK
<1>2. text \in Seq(Codes) /\ i \in Nat /\ i > 0
  BY DEF RollingInv, SearchTypes
<1>3. CASE i = 1
  BY <1>3 DEF HashesAt
<1>4. CASE i # 1
  <2>1. PICK n \in Nat : n = i - 1 /\ i = n + 1 /\ n > 0 /\ n + WindowLength <= Len(text) + 1
    BY <1>1, <1>2, <1>4
  <2>2. /\ Window(n) \in Seq(Codes) /\ Len(Window(n)) = WindowLength
        /\ \A m \in 1 .. WindowLength : Window(n)[m] = text[n + m - 1]
    BY <1>2, <2>1, WindowFacts
  <2>3. /\ Window(i) \in Seq(Codes) /\ Len(Window(i)) = WindowLength
        /\ \A m \in 1 .. WindowLength : Window(i)[m] = text[i + m - 1]
    BY <1>2, WindowFacts
  <2>4. Window(n)[1] = text[n] /\ n \in DOMAIN text
    BY <1>1, <1>2, <2>1, <2>2
  <2>5. lastCharCode = Window(n)[1] /\ Window(n)[1] < 128
    BY <2>1, <2>4 DEF RollingInv, LastWindow, Plain
  <2>6. ASSUME NEW m \in Nat, m > 0, m < WindowLength PROVE Window(i)[m] = Window(n)[m + 1]
    <3>1. m \in 1 .. WindowLength /\ m + 1 \in 1 .. WindowLength /\ i + m - 1 = n + (m + 1) - 1
      BY <1>1, <2>1, <2>6
    <3>2. QED
      BY <2>2, <2>3, <3>1
  <2>7. lastHashes[j] = FullHash(Primes[j], Window(n))
    BY <2>1 DEF RollingInv, LastWindow
  <2>8. HashesAt(i)[j] = RolledHash(Primes[j], Window(i), lastCharCode, lastHashes[j])
    BY <1>4 DEF HashesAt
  <2>9. RolledHash(Primes[j], Window(i), Window(n)[1], FullHash(Primes[j], Window(n)))
           = FullHash(Primes[j], Window(i))
    <3>1. Follows(Window(n), Window(i))
      BY <1>1, <2>2, <2>3, <2>6 DEF Follows
    <3>2. QED
      BY <1>1, <2>2, <2>3, <2>5, <3>1, RolledHashIsFull
  <2>10. QED
    BY <2>5, <2>7, <2>8, <2>9
<1>5. QED
  BY <1>3, <1>4

LEMMA MoveKeepsRolling ==
    ASSUME RollingInv, MoveWindow
    PROVE  RollingInv'
<1>1. WindowLength \in Nat /\ WindowLength > 0
  BY RollingOK DEF RollingOK
<1>2. /\ text' = text /\ added' = added /\ filter' = filter /\ answer = "searching"
      /\ \A n : Window(n)' = Window(n)
  BY DEF MoveWindow, Window
<1>3. text \in Seq(Codes) /\ i \in Nat /\ i > 0 /\ filter = BitsSetBy(added)
  BY DEF RollingInv, SearchTypes
<1>4. Plain' = Plain
  BY <1>2 DEF Plain
<1>5. CASE i > Len(text) - WindowLength + 1
  <2>1. answer' = "no" /\ UNCHANGED <<i, lastHashes, lastCharCode>>
    BY <1>5 DEF MoveWindow
  <2>2. SearchTypes'
    BY <1>2, <2>1 DEF RollingInv, SearchTypes, BitsSetBy
  <2>3. LastWindow'
    BY <1>2, <1>4, <2>1 DEF RollingInv, LastWindow
  <2>4. i' + WindowLength > Len(text') + 1
    BY <1>1, <1>2, <1>3, <1>5, <2>1
  <2>5. Plain' => \A n \in 1 .. i' - 1 : Window(n)' # added'
    BY <1>2, <1>4, <2>1 DEF RollingInv, NoneBefore
  <2>6. QED
    BY <2>2, <2>3, <2>4, <2>5 DEF RollingInv, NoneBefore
<1>6. CASE ~(i > Len(text) - WindowLength + 1)
  <2>1. i + WindowLength <= Len(text) + 1
    BY <1>1, <1>3, <1>6
  <2>2. /\ lastHashes' = HashesAt(i) /\ lastCharCode' = text[i] /\ i' = i + 1
        /\ answer' = IF \A j \in DOMAIN Primes : lastHashes'[j] % FilterSize \in filter
                     THEN "yes" ELSE "searching"
    BY <1>6 DEF MoveWindow
  <2>3. i' - 1 = i /\ i' \in Nat /\ i' > 0
    BY <1>3, <2>2
  <2>4. SearchTypes'
    BY <1>2, <2>3 DEF RollingInv, SearchTypes, BitsSetBy
  <2>5. Plain => \A j \in DOMAIN Primes : lastHashes'[j] = FullHash(Primes[j], Window(i))
    BY <2>1, <2>2, HashesAreFull
  <2>6. LastWindow'
    <3>1. i' + WindowLength <= Len(text') + 2
      BY <1>1, <1>2, <1>3, <2>1, <2>2
    <3>2. lastCharCode' = text'[i' - 1]
      BY <1>2, <2>2, <2>3
    <3>3. Window(i - 1)' = Window(i)
      BY <1>2, <2>3 DEF Window
    <3>4. QED
      BY <1>4, <2>5, <3>1, <3>2, <3>3 DEF LastWindow
  <2>7. Plain /\ answer' # "yes" => Window(i) # added
    <3>1. SUFFICES ASSUME Plain, Window(i) = added PROVE answer' = "yes"
      OBVIOUS
    <3>2. \A j \in DOMAIN Primes : lastHashes'[j] % FilterSize \in filter
      BY <1>3, <2>5, <3>1 DEF BitsSetBy
    <3>3. QED
      BY <2>2, <3>2
  <2>8. Plain' /\ answer' # "yes" => \A n \in 1 .. i' - 1 : Window(n)' # added'
    <3>1. SUFFICES ASSUME Plain, answer' # "yes", NEW n \in 1 .. i PROVE Window(n) # added
      BY <1>2, <1>4, <2>3
    <3>2. CASE n = i
      BY <2>7, <3>1, <3>2
    <3>3. CASE n # i
      <4>1. n \in 1 .. i - 1
        BY <1>3, <3>3
      <4>2. QED
        BY <1>2, <3>1, <4>1 DEF RollingInv, NoneBefore
    <3>4. QED
      BY <3>2, <3>3
  <2>9. answer' # "no"
    BY <2>2
  <2>10. QED
    BY <2>4, <2>6, <2>8, <2>9 DEF RollingInv, NoneBefore
<1>7. QED
  BY <1>5, <1>6

LEMMA RollingStep == RollingInv /\ [RollingNext]_rollingVars => RollingInv'
<1> SUFFICES ASSUME RollingInv, [RollingNext]_rollingVars PROVE RollingInv'
  OBVIOUS
<1>1. CASE MoveWindow
  BY <1>1, MoveKeepsRolling
<1>2. CASE UNCHANGED rollingVars
  BY <1>2 DEF rollingVars, RollingInv, SearchTypes, LastWindow, NoneBefore, Plain, Window, BitsSetBy
<1>3. QED
  BY <1>1, <1>2 DEF RollingNext, RollingEnded

LEMMA RollingInvSearches == RollingInv => SearchIsRight
<1> SUFFICES ASSUME RollingInv PROVE SearchIsRight
  OBVIOUS
<1>1. RolledIsFull
  BY DEF RollingInv, LastWindow, RolledIsFull, Plain
<1>2. NoIsNo
  <2>1. SUFFICES ASSUME answer = "no", Plain, NEW n \in 1 .. Len(text) - WindowLength + 1
                 PROVE  Window(n) # added
    BY DEF NoIsNo, Plain
  <2>2. WindowLength \in Nat /\ Len(text) \in Nat /\ i \in Nat /\ i + WindowLength > Len(text) + 1
    BY <2>1, RollingOK DEF RollingOK, RollingInv, SearchTypes, NoneBefore
  <2>3. n \in 1 .. i - 1
    BY <2>2
  <2>4. QED
    BY <2>1, <2>3 DEF RollingInv, NoneBefore
<1>3. QED
  BY <1>1, <1>2 DEF SearchIsRight

\* Whatever the text, the primes, the width of a word and the size of the table: on
\* characters below 128 the hash rolled from window to window is the full hash, and a
\* search that says no has not passed the key (bloomFilter.cpp substringExists).
THEOREM SearchIsAlwaysRight == RollingSpec => []SearchIsRight
<1>1. RollingInit => RollingInv
  BY RollingStart
<1>2. RollingInv /\ [RollingNext]_rollingVars => RollingInv'
  BY RollingStep
<1>3. RollingInv => SearchIsRight
  BY RollingInvSearches
<1>4. QED
  BY <1>1, <1>2, <1>3, PTL DEF RollingSpec
=============================================================================
