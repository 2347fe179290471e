------------------------- MODULE StringCipherProofs -------------------------
(***************************************************************************)
(* Proofs about the block cipher and about StringCipher, for words of any  *)
(* number of bytes, any DELTA, any keys and strings, and any limits of the *)
(* buffers that hold the longest string.                                   *)
(***************************************************************************)
EXTENDS StringCipher, Iterations, SequenceTheorems

Words(n) == [1..n -> Word]
Digits   == 0..15

-----------------------------------------------------------------------------
(* Arithmetic modulo a word. *)

LEMMA BitsInWord == WordBits \in Nat /\ WordBits >= 8
BY WordAssumption DEF WordBits

LEMMA Power2Is ==
  /\ Power2 \in [0..WordBits -> Nat \ {0}]
  /\ Power2[0] = 1 /\ \A k \in 1..WordBits : Power2[k] = 2 * Power2[k - 1]
<1> DEFINE S == Nat \ {0}
           n == WordBits
           G == [k \in 1..n |-> [x \in S |-> 2 * x]]
           Is(f) == f = [k \in 0..n |-> IF k = 0 THEN 1 ELSE 2 * f[k - 1]]
<1>1. n \in Nat /\ 1 \in S
  BY BitsInWord
<1>2. G \in [1..n -> [S -> S]] /\ \A k \in 1..n : \A x \in S : G[k][x] = 2 * x
  OBVIOUS
<1>3. Is(Power2)
  <2> HIDE DEF G, n, S
  <2>1. PICK f \in [0..n -> S] : f[0] = 1 /\ \A k \in 1..n : f[k] = G[k][f[k - 1]]
    <3>1. HasIteration(S, 1, n, G)
      BY <1>1, <1>2, Iterated
    <3> QED
      BY <3>1 DEF HasIteration, Iterates
  <2>2. \A k \in 1..n : f[k] = 2 * f[k - 1]
    <3> SUFFICES ASSUME NEW k \in 1..n PROVE f[k] = 2 * f[k - 1]
      OBVIOUS
    <3>1. k - 1 \in 0..n
      BY <1>1
    <3>2. f[k - 1] \in S
      BY <3>1
    <3> QED
      BY <1>2, <2>1, <3>2
  <2>3. Is(f)
    BY <1>1, <2>1, <2>2
  <2>4. Power2 = CHOOSE f_ : Is(f_)
    BY DEF Power2, n
  <2> HIDE DEF Is
  <2> QED
    BY <2>3, <2>4
<1>4. DOMAIN Power2 = 0..n /\ Power2[0] = 1 /\ \A k \in 1..n : Power2[k] = 2 * Power2[k - 1]
  BY <1>1, <1>3
<1>5. \A k \in 0..n : Power2[k] \in S
  <2> HIDE DEF G, n, S
  <2>1. Recurs(S, Power2, 1, n, G)
    BY <1>2, <1>4 DEF Recurs
  <2>2. StaysIn(S, Power2, n)
    BY <1>1, <1>2, <2>1, IterationTyped
  <2> QED
    BY <2>2 DEF StaysIn
<1>6. Power2 \in [0..n -> S]
  BY <1>3, <1>5
<1> QED
  BY <1>4, <1>6

LEMMA Power2Steps ==
  /\ \A k \in 0..WordBits : Power2[k] \in Nat \ {0} /\ (k >= 2 => Power2[k] >= 4)
  /\ Power2[2] = 4 /\ \A k \in 2..5 : k \in 0..WordBits
<1>1. /\ 1 \in 1..WordBits /\ 2 \in 1..WordBits /\ 1 - 1 = 0 /\ 2 - 1 = 1
      /\ \A k \in 2..5 : k \in 0..WordBits
  BY BitsInWord
<1>2. Power2[1] = 2 * Power2[1 - 1] /\ Power2[2] = 2 * Power2[2 - 1]
  BY <1>1, Power2Is
<1>3. Power2[2] = 4
  BY <1>1, <1>2, Power2Is
<1>4. \A k \in 0..WordBits : Power2[k] \in Nat \ {0}
  BY Power2Is
<1> DEFINE n == WordBits
           T == {k \in 0..n : k >= 2 => Power2[k] >= 4}
<1>5. 0 \in T
  BY BitsInWord
<1>6. ASSUME NEW k \in 0..n, k \in T, k < n PROVE k + 1 \in T
  <2>1. k + 1 \in 1..n /\ k + 1 \in 0..n /\ (k + 1) - 1 = k
    BY <1>6, BitsInWord
  <2>2. Power2[k + 1] = 2 * Power2[k] /\ Power2[k] \in Nat
    BY <1>4, <2>1, Power2Is
  <2>3. CASE k + 1 = 2
    BY <1>3, <2>1, <2>3
  <2>4. CASE k + 1 # 2
    BY <1>6, <2>1, <2>2, <2>4
  <2> QED
    BY <2>3, <2>4
<1>7. \A k \in 0..n : k \in T
  <2>1. n \in Nat
    BY BitsInWord
  <2> HIDE DEF T, n
  <2> QED
    BY <1>5, <1>6, <2>1, AllUpTo
<1> QED
  BY <1>1, <1>3, <1>4, <1>7

LEMMA WordSizeIs == WordSize \in Nat \ {0} /\ WordSize >= 4 /\ Word \subseteq Nat /\ 0 \in Word
<1>1. WordBits \in 0..WordBits /\ WordBits >= 2
  BY BitsInWord
<1>2. WordSize \in Nat \ {0} /\ WordSize >= 4
  BY <1>1, Power2Steps DEF WordSize
<1> QED
  BY <1>2 DEF Word

(* The bits of x ^ y below bit k, one by one.                               *)
Bit(k, x, y) == LET bit == Power2[k - 1] IN bit * (((x \div bit) + (y \div bit)) % 2)

LEMMA XorBits ==
  ASSUME NEW x \in Nat, NEW y \in Nat
  PROVE  \E low \in [0..WordBits -> Nat] :
           /\ xor(x, y) = low[WordBits] /\ low[0] = 0
           /\ \A k \in 1..WordBits : low[k] = low[k - 1] + Bit(k, x, y)
<1> DEFINE S == Nat
           n == WordBits
           G == [k \in 1..n |-> [s \in S |-> s + Bit(k, x, y)]]
           Is(f) == f = [k \in 0..n |-> IF k = 0 THEN 0 ELSE f[k - 1] + Bit(k, x, y)]
           F == CHOOSE f_ : Is(f_)
<1>1. n \in Nat /\ 0 \in S
  BY BitsInWord
<1>2. \A k \in 1..n : Bit(k, x, y) \in Nat
  <2> SUFFICES ASSUME NEW k \in 1..n PROVE Bit(k, x, y) \in Nat
    OBVIOUS
  <2> DEFINE bit == Power2[k - 1]
  <2>1. k - 1 \in 0..n
    BY <1>1
  <2>2. bit \in Nat \ {0}
    BY <2>1, Power2Steps
  <2> HIDE DEF bit
  <2>3. x \div bit \in Nat /\ y \div bit \in Nat
    BY <2>2
  <2>4. ((x \div bit) + (y \div bit)) % 2 \in 0..1
    BY <2>3
  <2>5. bit * (((x \div bit) + (y \div bit)) % 2) \in Nat
    BY <2>2, <2>4
  <2> QED
    BY <2>5 DEF Bit, bit
<1>3. G \in [1..n -> [S -> S]] /\ \A k \in 1..n : \A s \in S : G[k][s] = s + Bit(k, x, y)
  BY <1>2
<1>4. Is(F)
  <2> HIDE DEF G, n, S
  <2>1. PICK f \in [0..n -> S] : f[0] = 0 /\ \A k \in 1..n : f[k] = G[k][f[k - 1]]
    <3>1. HasIteration(S, 0, n, G)
      BY <1>1, <1>3, Iterated
    <3> QED
      BY <3>1 DEF HasIteration, Iterates
  <2>2. \A k \in 1..n : f[k] = f[k - 1] + Bit(k, x, y)
    <3> SUFFICES ASSUME NEW k \in 1..n PROVE f[k] = f[k - 1] + Bit(k, x, y)
      OBVIOUS
    <3>1. k - 1 \in 0..n
      BY <1>1
    <3>2. f[k - 1] \in S
      BY <3>1
    <3> QED
      BY <1>3, <2>1, <3>2
  <2>3. Is(f)
    BY <1>1, <2>1, <2>2
  <2> HIDE DEF Is
  <2> QED
    BY <2>3
<1>5. xor(x, y) = F[n]
  BY DEF xor, Bit
<1> HIDE DEF F
<1>6. F[0] = 0 /\ \A k \in 1..n : F[k] = F[k - 1] + Bit(k, x, y)
  BY <1>1, <1>4
<1>7. \A k \in 0..n : F[k] \in S
  <2> HIDE DEF G, n, S
  <2>1. Recurs(S, F, 0, n, G)
    BY <1>3, <1>6 DEF Recurs
  <2>2. StaysIn(S, F, n)
    BY <1>1, <1>3, <2>1, IterationTyped
  <2> QED
    BY <2>2 DEF StaysIn
<1>8. F \in [0..n -> S]
  BY <1>4, <1>7
<1> QED
  BY <1>5, <1>6, <1>8

LEMMA XorTyped ==
  ASSUME NEW x \in Nat, NEW y \in Nat
  PROVE  xor(x, y) \in Word /\ (x \in 0..3 /\ y \in 0..3 => xor(x, y) \in 0..3)
<1>1. PICK low \in [0..WordBits -> Nat] :
        /\ xor(x, y) = low[WordBits] /\ low[0] = 0
        /\ \A k \in 1..WordBits : low[k] = low[k - 1] + Bit(k, x, y)
  BY XorBits
<1> DEFINE n == WordBits
           T == {k \in 0..n : low[k] < Power2[k] /\ (x < 4 /\ y < 4 => low[k] < 4)}
<1>2. n \in Nat
  BY BitsInWord
<1>3. 0 \in T
  BY <1>1, <1>2, Power2Is
<1>4. ASSUME NEW k \in 0..n, k \in T, k < n PROVE k + 1 \in T
  <2> DEFINE bit == Power2[k]
             b == ((x \div bit) + (y \div bit)) % 2
  <2>1. k + 1 \in 1..n /\ k + 1 \in 0..n /\ (k + 1) - 1 = k
    BY <1>2, <1>4
  <2>2. bit \in Nat \ {0} /\ (k >= 2 => bit >= 4) /\ Power2[k + 1] = 2 * bit
    BY <2>1, Power2Is, Power2Steps
  <2>3. low[k + 1] = low[k] + bit * b /\ low[k] \in Nat /\ low[k + 1] \in Nat
    BY <1>1, <2>1 DEF Bit
  <2>4. low[k] < bit /\ (x < 4 /\ y < 4 => low[k] < 4)
    BY <1>4
  <2>5. Power2[k + 1] <= 4 \/ k >= 2
    <3>1. CASE k = 0
      BY <2>1, <2>2, <3>1, Power2Is
    <3>2. CASE k = 1
      BY <2>1, <3>2, Power2Steps
    <3> QED
      BY <1>2, <3>1, <3>2
  <2> HIDE DEF bit
  <2>6. b \in 0..1
    <3>1. x \div bit \in Nat /\ y \div bit \in Nat
      BY <2>2
    <3> QED
      BY <3>1
  <2>7. ASSUME x < 4, y < 4, k >= 2 PROVE b = 0
    <3>1. x \div bit = 0 /\ y \div bit = 0
      BY <2>2, <2>7
    <3> QED
      BY <3>1
  <2> HIDE DEF b
  <2>8. low[k + 1] < Power2[k + 1]
    BY <2>2, <2>3, <2>4, <2>6
  <2>9. ASSUME x < 4, y < 4 PROVE low[k + 1] < 4
    <3>1. CASE k >= 2
      BY <2>2, <2>3, <2>4, <2>7, <2>9, <3>1
    <3>2. CASE ~(k >= 2)
      BY <2>2, <2>3, <2>5, <2>8, <3>2
    <3> QED
      BY <3>1, <3>2
  <2> QED
    BY <2>1, <2>8, <2>9
<1>5. \A k \in 0..n : k \in T
  <2> HIDE DEF T, n
  <2> QED
    BY <1>2, <1>3, <1>4, AllUpTo
<1>6. n \in T
  BY <1>2, <1>5
<1>7. low[n] \in 0..Power2[n] - 1 /\ (x < 4 /\ y < 4 => low[n] < 4)
  <2>1. low[n] \in Nat /\ Power2[n] \in Nat
    BY <1>2, Power2Steps
  <2> QED
    BY <1>6, <2>1
<1> QED
  BY <1>1, <1>7 DEF Word, WordSize

LEMMA ModTyped ==
  ASSUME NEW x \in Nat, NEW y \in Nat
  PROVE  /\ plus(x, y) \in Word
         /\ y \in Word => minus(x, y) \in Word
         /\ \A k \in 2..5 : shl(x, k) \in Word /\ shr(x, k) \in Nat
<1>1. WordSize \in Nat \ {0}
  BY WordSizeIs
<1>2. \A z \in Nat : z % WordSize \in Word
  BY <1>1 DEF Word
<1>3. x + y \in Nat /\ (y \in Word => x + WordSize - y \in Nat)
  BY <1>1 DEF Word
<1>4. ASSUME NEW k \in 2..5 PROVE shl(x, k) \in Word /\ shr(x, k) \in Nat
  <2> DEFINE q == Power2[k]
  <2>1. q \in Nat \ {0}
    BY Power2Steps
  <2> HIDE DEF q
  <2>2. x * q \in Nat /\ x \div q \in Nat
    BY <2>1
  <2>3. (x * q) % WordSize \in Word
    BY <1>2, <2>2
  <2> QED
    BY <2>2, <2>3 DEF shl, shr, q
<1> QED
  BY <1>2, <1>3, <1>4 DEF plus, minus

LEMMA SubtractUndoes ==
  ASSUME NEW x \in Word, NEW m \in Word
  PROVE  minus(plus(x, m), m) = x
<1> DEFINE W == WordSize
<1>1. W \in Nat \ {0} /\ x \in 0..W - 1 /\ m \in 0..W - 1
  BY WordSizeIs DEF Word
<1>2. minus(plus(x, m), m) = (((x + m) % W) + W - m) % W
  BY DEF minus, plus
<1> HIDE DEF W
<1>3. CASE x + m < W
  <2>1. (x + m) % W = x + m
    BY <1>1, <1>3
  <2>2. (x + m) + W - m = x + W
    BY <1>1
  <2>3. (x + W) % W = x
    BY <1>1
  <2> QED
    BY <1>2, <2>1, <2>2, <2>3
<1>4. CASE ~(x + m < W)
  <2>1. x + m - W \in 0..W - 1 /\ x + m = W + (x + m - W)
    BY <1>1, <1>4
  <2>2. (x + m) % W = x + m - W
    BY <1>1, <2>1
  <2>3. (x + m - W) + W - m = x /\ x % W = x
    BY <1>1
  <2> QED
    BY <1>2, <2>2, <2>3
<1> QED
  BY <1>3, <1>4

LEMMA MXTyped ==
  ASSUME NEW y \in Nat, NEW z \in Nat, NEW sum \in Nat, NEW k \in Nat
  PROVE  MX(y, z, sum, k) \in Word
<1>1. Word \subseteq Nat
  BY WordSizeIs
<1>2. /\ shr(z, 5) \in Nat /\ shl(y, 2) \in Nat /\ shr(y, 3) \in Nat /\ shl(z, 4) \in Nat
  <2>1. 2 \in 2..5 /\ 3 \in 2..5 /\ 4 \in 2..5 /\ 5 \in 2..5
    OBVIOUS
  <2>2. \A x \in Nat : \A i \in 2..5 : shl(x, i) \in Nat /\ shr(x, i) \in Nat
    BY <1>1, ModTyped
  <2> QED
    BY <2>1, <2>2
<1>3. /\ xor(shr(z, 5), shl(y, 2)) \in Nat /\ xor(shr(y, 3), shl(z, 4)) \in Nat
      /\ xor(sum, y) \in Nat /\ xor(k, z) \in Nat
  BY <1>1, <1>2, XorTyped
<1>4. /\ plus(xor(shr(z, 5), shl(y, 2)), xor(shr(y, 3), shl(z, 4))) \in Nat
      /\ plus(xor(sum, y), xor(k, z)) \in Nat
  BY <1>1, <1>3, ModTyped
<1> QED
  BY <1>4, XorTyped DEF MX

LEMMA KeyWordTyped ==
  ASSUME NEW key \in Words(KeyWords), NEW p \in Nat, NEW sum \in Nat
  PROVE  KeyWord(key, p, sum) \in Nat
<1>1. p % 4 \in 0..3
  OBVIOUS
<1>2. shr(sum, 2) % 4 \in 0..3
  <2>1. shr(sum, 2) \in Nat
    BY ModTyped
  <2> QED
    BY <2>1
<1>3. xor(p % 4, shr(sum, 2) % 4) \in 0..3
  BY <1>1, <1>2, XorTyped
<1>4. xor(p % 4, shr(sum, 2) % 4) + 1 \in 1..KeyWords
  BY <1>3 DEF KeyWords
<1> QED
  BY <1>4, WordSizeIs DEF KeyWord, Words

-----------------------------------------------------------------------------
(* Deciphering undoes enciphering, word by word, pass by pass and round by  *)
(* round.                                                                   *)

LEMMA WordsLen == \A n \in Nat : \A v \in Words(n) : Len(v) = n /\ v \in Seq(Word)
BY DEF Words

(* What is added to a word depends on the other words alone.                *)
LEMMA MixedTyped ==
  ASSUME NEW n \in Nat, n >= 2, NEW v \in Words(n), NEW p \in 1..n, NEW sum \in Nat,
         NEW key \in Words(KeyWords)
  PROVE  /\ Mixed(v, p, sum, key) \in Word
         /\ \A w \in Words(n) : (\A j \in 1..n : j # p => w[j] = v[j])
                                => Mixed(w, p, sum, key) = Mixed(v, p, sum, key)
<1> DEFINE a == IF p = n THEN 1 ELSE p + 1
           b == IF p = 1 THEN n ELSE p - 1
<1>1. a \in 1..n /\ b \in 1..n /\ a # p /\ b # p
  OBVIOUS
<1>2. \A w \in Words(n) : Mixed(w, p, sum, key) = MX(w[a], w[b], sum, KeyWord(key, p - 1, sum))
  BY WordsLen DEF Mixed
<1> HIDE DEF a, b
<1>3. v[a] \in Nat /\ v[b] \in Nat
  BY <1>1, WordSizeIs DEF Words
<1>4. KeyWord(key, p - 1, sum) \in Nat
  BY KeyWordTyped
<1>5. MX(v[a], v[b], sum, KeyWord(key, p - 1, sum)) \in Word
  BY <1>3, <1>4, MXTyped
<1> QED
  BY <1>1, <1>2, <1>5

LEMMA WordTyped ==
  ASSUME NEW n \in Nat, n >= 2, NEW v \in Words(n), NEW p \in 1..n, NEW sum \in Nat,
         NEW key \in Words(KeyWords)
  PROVE  CodeWord(v, p, sum, key) \in Words(n) /\ DecodeWord(v, p, sum, key) \in Words(n)
<1>1. v[p] \in Nat /\ Mixed(v, p, sum, key) \in Word /\ Mixed(v, p, sum, key) \in Nat
  BY MixedTyped, WordSizeIs DEF Words
<1>2. plus(v[p], Mixed(v, p, sum, key)) \in Word /\ minus(v[p], Mixed(v, p, sum, key)) \in Word
  BY <1>1, ModTyped
<1> QED
  BY <1>2 DEF CodeWord, DecodeWord, Words

LEMMA WordUndone ==
  ASSUME NEW n \in Nat, n >= 2, NEW v \in Words(n), NEW p \in 1..n, NEW sum \in Nat,
         NEW key \in Words(KeyWords)
  PROVE  DecodeWord(CodeWord(v, p, sum, key), p, sum, key) = v
<1> DEFINE w == CodeWord(v, p, sum, key)
           m == Mixed(v, p, sum, key)
<1>1. w \in Words(n) /\ m \in Word /\ v[p] \in Word
  BY WordTyped, MixedTyped DEF Words
<1>2. w[p] = plus(v[p], m) /\ \A j \in 1..n : j # p => w[j] = v[j]
  BY DEF CodeWord, Words
<1> HIDE DEF w, m
<1>3. Mixed(w, p, sum, key) = m
  BY <1>1, <1>2, MixedTyped DEF m
<1>4. DecodeWord(w, p, sum, key) = [w EXCEPT ![p] = minus(plus(v[p], m), m)]
  BY <1>2, <1>3 DEF DecodeWord
<1>5. DecodeWord(w, p, sum, key) = [w EXCEPT ![p] = v[p]]
  BY <1>1, <1>4, SubtractUndoes
<1>6. [w EXCEPT ![p] = v[p]] = v
  BY <1>1, <1>2 DEF Words
<1> QED
  BY <1>5, <1>6 DEF w

CodeWords(n, sum, key) ==
  [p \in 1..n |-> [u \in Words(n) |-> CodeWord(u, p, sum, key)]]
DecodeWords(n, sum, key) ==
  [i \in 1..n |-> [u \in Words(n) |-> DecodeWord(u, n + 1 - i, sum, key)]]

LEMMA WordsSteps ==
  ASSUME NEW n \in Nat, n >= 2, NEW sum \in Nat, NEW key \in Words(KeyWords)
  PROVE  /\ CodeWords(n, sum, key) \in [1..n -> [Words(n) -> Words(n)]]
         /\ DecodeWords(n, sum, key) \in [1..n -> [Words(n) -> Words(n)]]
<1>1. \A p \in 1..n : n + 1 - p \in 1..n
  OBVIOUS
<1>2. \A p \in 1..n : \A u \in Words(n) :
        CodeWord(u, p, sum, key) \in Words(n) /\ DecodeWord(u, n + 1 - p, sum, key) \in Words(n)
  BY <1>1, WordTyped
<1> QED
  BY <1>2 DEF CodeWords, DecodeWords

(* A pass is its steps in turn. *)
LEMMA CodePassIterates ==
  ASSUME NEW n \in Nat, n >= 2, NEW v \in Words(n), NEW sum \in Nat,
         NEW key \in Words(KeyWords)
  PROVE  \E f \in [0..n -> Words(n)] :
           Iterates(f, v, n, CodeWords(n, sum, key)) /\ CodePass(v, sum, key) = f[n]
<1> DEFINE S == Words(n)
           N == n
           G == CodeWords(n, sum, key)
           Is(f) == f = [k \in 0..N |-> IF k = 0 THEN v ELSE CodeWord(f[k - 1], k, sum, key)]
           F == CHOOSE f_ : Is(f_)
<1>1. N \in Nat /\ v \in S /\ Len(v) = n
  BY WordsLen
<1>2. G \in [1..N -> [S -> S]]
  BY WordsSteps
<1>3. \A k \in 1..N : \A u \in S : G[k][u] = CodeWord(u, k, sum, key)
  BY DEF CodeWords
<1>4. Is(F)
  <2> HIDE DEF G, N, S
  <2>1. PICK f \in [0..N -> S] : f[0] = v /\ \A k \in 1..N : f[k] = G[k][f[k - 1]]
    <3>1. HasIteration(S, v, N, G)
      BY <1>1, <1>2, Iterated
    <3> QED
      BY <3>1 DEF HasIteration, Iterates
  <2>2. \A k \in 1..N : f[k] = CodeWord(f[k - 1], k, sum, key)
    <3> SUFFICES ASSUME NEW k \in 1..N PROVE f[k] = CodeWord(f[k - 1], k, sum, key)
      OBVIOUS
    <3>1. k - 1 \in 0..N
      BY <1>1
    <3>2. f[k - 1] \in S
      BY <3>1
    <3> QED
      BY <1>3, <2>1, <3>2
  <2>3. Is(f)
    BY <1>1, <2>1, <2>2
  <2> HIDE DEF Is
  <2> QED
    BY <2>3
<1>5. CodePass(v, sum, key) = F[N]
  BY <1>1 DEF CodePass
<1> HIDE DEF F, G, N, S
<1>6. F = [k \in 0..N |-> F[k]]
  BY <1>4
<1>7. Recurs(S, F, v, N, G)
  BY <1>1, <1>3, <1>4 DEF Recurs
<1>8. F \in [0..N -> S] /\ Iterates(F, v, N, G)
  BY <1>1, <1>2, <1>6, <1>7, IterationIs
<1> QED
  BY <1>5, <1>8 DEF G, N, S

(* So is the pass backwards. *)
LEMMA DecodePassIterates ==
  ASSUME NEW n \in Nat, n >= 2, NEW v \in Words(n), NEW sum \in Nat,
         NEW key \in Words(KeyWords)
  PROVE  \E f \in [0..n -> Words(n)] :
           Iterates(f, v, n, DecodeWords(n, sum, key)) /\ DecodePass(v, sum, key) = f[n]
<1> DEFINE S == Words(n)
           N == n
           G == DecodeWords(n, sum, key)
           Is(f) == f = [k \in 0..N |-> IF k = 0 THEN v ELSE DecodeWord(f[k - 1], n + 1 - k, sum, key)]
           F == CHOOSE f_ : Is(f_)
<1>1. N \in Nat /\ v \in S /\ Len(v) = n
  BY WordsLen
<1>2. G \in [1..N -> [S -> S]]
  BY WordsSteps
<1>3. \A k \in 1..N : \A u \in S : G[k][u] = DecodeWord(u, n + 1 - k, sum, key)
  BY DEF DecodeWords
<1>4. Is(F)
  <2> HIDE DEF G, N, S
  <2>1. PICK f \in [0..N -> S] : f[0] = v /\ \A k \in 1..N : f[k] = G[k][f[k - 1]]
    <3>1. HasIteration(S, v, N, G)
      BY <1>1, <1>2, Iterated
    <3> QED
      BY <3>1 DEF HasIteration, Iterates
  <2>2. \A k \in 1..N : f[k] = DecodeWord(f[k - 1], n + 1 - k, sum, key)
    <3> SUFFICES ASSUME NEW k \in 1..N PROVE f[k] = DecodeWord(f[k - 1], n + 1 - k, sum, key)
      OBVIOUS
    <3>1. k - 1 \in 0..N
      BY <1>1
    <3>2. f[k - 1] \in S
      BY <3>1
    <3> QED
      BY <1>3, <2>1, <3>2
  <2>3. Is(f)
    BY <1>1, <2>1, <2>2
  <2> HIDE DEF Is
  <2> QED
    BY <2>3
<1>5. DecodePass(v, sum, key) = F[N]
  BY <1>1 DEF DecodePass
<1> HIDE DEF F, G, N, S
<1>6. F = [k \in 0..N |-> F[k]]
  BY <1>4
<1>7. Recurs(S, F, v, N, G)
  BY <1>1, <1>3, <1>4 DEF Recurs
<1>8. F \in [0..N -> S] /\ Iterates(F, v, N, G)
  BY <1>1, <1>2, <1>6, <1>7, IterationIs
<1> QED
  BY <1>5, <1>8 DEF G, N, S

LEMMA PassUndone ==
  ASSUME NEW n \in Nat, n >= 2, NEW v \in Words(n), NEW sum \in Nat,
         NEW key \in Words(KeyWords)
  PROVE  /\ CodePass(v, sum, key) \in Words(n) /\ DecodePass(v, sum, key) \in Words(n)
         /\ DecodePass(CodePass(v, sum, key), sum, key) = v
<1> DEFINE S == Words(n)
           F == CodeWords(n, sum, key)
           B == DecodeWords(n, sum, key)
           w == CodePass(v, sum, key)
<1>1. PICK f \in [0..n -> S] : Iterates(f, v, n, F) /\ w = f[n]
  BY CodePassIterates
<1>2. w \in S /\ f[0] = v
  BY <1>1 DEF Iterates
<1>3. \A u \in S : DecodePass(u, sum, key) \in S
  <2> SUFFICES ASSUME NEW u \in S PROVE DecodePass(u, sum, key) \in S
    OBVIOUS
  <2>1. PICK g \in [0..n -> S] : DecodePass(u, sum, key) = g[n]
    BY DecodePassIterates
  <2> QED
    BY <2>1
<1>4. PICK g \in [0..n -> S] : Iterates(g, w, n, B) /\ DecodePass(w, sum, key) = g[n]
  <2> HIDE DEF w
  <2> QED
    BY <1>2, DecodePassIterates
<1>5. Undoes(B, F, n, S)
  <2> SUFFICES ASSUME NEW k \in 1..n, NEW s \in S PROVE B[n + 1 - k][F[k][s]] = s
    BY DEF Undoes
  <2>1. n + 1 - k \in 1..n /\ n + 1 - (n + 1 - k) = k
    OBVIOUS
  <2>2. F[k][s] = CodeWord(s, k, sum, key) /\ CodeWord(s, k, sum, key) \in S
    BY WordTyped DEF CodeWords
  <2>3. B[n + 1 - k][CodeWord(s, k, sum, key)] = DecodeWord(CodeWord(s, k, sum, key), k, sum, key)
    BY <2>1, <2>2 DEF DecodeWords
  <2> QED
    BY <2>2, <2>3, WordUndone
<1>6. F \in [1..n -> [S -> S]] /\ B \in [1..n -> [S -> S]]
  BY WordsSteps
<1> HIDE DEF F, B, S, w
<1>7. Iterates(f, f[0], n, F) /\ Iterates(g, f[n], n, B)
  BY <1>1, <1>2, <1>4
<1>8. g[n] = f[0]
  <2>1. ComesBack(B, F, n, S)
    BY <1>5, <1>6, AllUndone
  <2> QED
    BY <1>1, <1>4, <1>7, <2>1 DEF ComesBack
<1> QED
  BY <1>2, <1>3, <1>4, <1>8 DEF S, w

LEMMA RoundsTyped == \A n \in Nat : n >= 2 => Rounds(n) \in Nat
BY DEF Rounds

LEMMA SumTyped == \A r \in Nat : SumAfter(r) \in Nat
<1> SUFFICES ASSUME NEW r \in Nat PROVE SumAfter(r) \in Nat
  OBVIOUS
<1>1. r * DELTA \in Nat /\ WordSize \in Nat \ {0}
  BY WordAssumption, WordSizeIs
<1> QED
  BY <1>1 DEF SumAfter

CodeRounds(n, key) ==
  [r \in 1..Rounds(n) |-> [u \in Words(n) |-> CodePass(u, SumAfter(r), key)]]
DecodeRounds(n, key) ==
  [i \in 1..Rounds(n) |-> [u \in Words(n) |-> DecodePass(u, SumAfter(Rounds(n) + 1 - i), key)]]

LEMMA RoundsSteps ==
  ASSUME NEW n \in Nat, n >= 2, NEW key \in Words(KeyWords)
  PROVE  /\ CodeRounds(n, key) \in [1..Rounds(n) -> [Words(n) -> Words(n)]]
         /\ DecodeRounds(n, key) \in [1..Rounds(n) -> [Words(n) -> Words(n)]]
<1>1. \A r \in 1..Rounds(n) : SumAfter(r) \in Nat /\ SumAfter(Rounds(n) + 1 - r) \in Nat
  <2> SUFFICES ASSUME NEW r \in 1..Rounds(n)
               PROVE  SumAfter(r) \in Nat /\ SumAfter(Rounds(n) + 1 - r) \in Nat
    OBVIOUS
  <2>1. r \in Nat /\ Rounds(n) + 1 - r \in Nat
    BY RoundsTyped
  <2> QED
    BY <2>1, SumTyped
<1>2. \A r \in 1..Rounds(n) : \A u \in Words(n) :
        /\ CodePass(u, SumAfter(r), key) \in Words(n)
        /\ DecodePass(u, SumAfter(Rounds(n) + 1 - r), key) \in Words(n)
  BY <1>1, PassUndone
<1> QED
  BY <1>2 DEF CodeRounds, DecodeRounds

(* Enciphering is its rounds in turn. *)
LEMMA CodeIterates ==
  ASSUME NEW n \in Nat, n >= 2, NEW v \in Words(n),
         NEW key \in Words(KeyWords)
  PROVE  \E f \in [0..Rounds(n) -> Words(n)] :
           Iterates(f, v, Rounds(n), CodeRounds(n, key)) /\ Code(v, key) = f[Rounds(n)]
<1> DEFINE S == Words(n)
           N == Rounds(n)
           G == CodeRounds(n, key)
           Is(f) == f = [k \in 0..N |-> IF k = 0 THEN v ELSE CodePass(f[k - 1], SumAfter(k), key)]
           F == CHOOSE f_ : Is(f_)
<1>1. N \in Nat /\ v \in S /\ Len(v) = n
  BY WordsLen, RoundsTyped
<1>2. G \in [1..N -> [S -> S]]
  BY RoundsSteps
<1>3. \A k \in 1..N : \A u \in S : G[k][u] = CodePass(u, SumAfter(k), key)
  BY DEF CodeRounds
<1>4. Is(F)
  <2> HIDE DEF G, N, S
  <2>1. PICK f \in [0..N -> S] : f[0] = v /\ \A k \in 1..N : f[k] = G[k][f[k - 1]]
    <3>1. HasIteration(S, v, N, G)
      BY <1>1, <1>2, Iterated
    <3> QED
      BY <3>1 DEF HasIteration, Iterates
  <2>2. \A k \in 1..N : f[k] = CodePass(f[k - 1], SumAfter(k), key)
    <3> SUFFICES ASSUME NEW k \in 1..N PROVE f[k] = CodePass(f[k - 1], SumAfter(k), key)
      OBVIOUS
    <3>1. k - 1 \in 0..N
      BY <1>1
    <3>2. f[k - 1] \in S
      BY <3>1
    <3> QED
      BY <1>3, <2>1, <3>2
  <2>3. Is(f)
    BY <1>1, <2>1, <2>2
  <2> HIDE DEF Is
  <2> QED
    BY <2>3
<1>5. Code(v, key) = F[N]
  BY <1>1 DEF Code
<1> HIDE DEF F, G, N, S
<1>6. F = [k \in 0..N |-> F[k]]
  BY <1>4
<1>7. Recurs(S, F, v, N, G)
  BY <1>1, <1>3, <1>4 DEF Recurs
<1>8. F \in [0..N -> S] /\ Iterates(F, v, N, G)
  BY <1>1, <1>2, <1>6, <1>7, IterationIs
<1> QED
  BY <1>5, <1>8 DEF G, N, S

(* So is deciphering, with the sums from the last to the first. *)
LEMMA DecodeIterates ==
  ASSUME NEW n \in Nat, n >= 2, NEW v \in Words(n),
         NEW key \in Words(KeyWords)
  PROVE  \E f \in [0..Rounds(n) -> Words(n)] :
           Iterates(f, v, Rounds(n), DecodeRounds(n, key)) /\ Decode(v, key) = f[Rounds(n)]
<1> DEFINE S == Words(n)
           N == Rounds(n)
           G == DecodeRounds(n, key)
           Is(f) == f = [k \in 0..N |-> IF k = 0 THEN v ELSE DecodePass(f[k - 1], SumAfter(Rounds(n) + 1 - k), key)]
           F == CHOOSE f_ : Is(f_)
<1>1. N \in Nat /\ v \in S /\ Len(v) = n
  BY WordsLen, RoundsTyped
<1>2. G \in [1..N -> [S -> S]]
  BY RoundsSteps
<1>3. \A k \in 1..N : \A u \in S : G[k][u] = DecodePass(u, SumAfter(Rounds(n) + 1 - k), key)
  BY DEF DecodeRounds
<1>4. Is(F)
  <2> HIDE DEF G, N, S
  <2>1. PICK f \in [0..N -> S] : f[0] = v /\ \A k \in 1..N : f[k] = G[k][f[k - 1]]
    <3>1. HasIteration(S, v, N, G)
      BY <1>1, <1>2, Iterated
    <3> QED
      BY <3>1 DEF HasIteration, Iterates
  <2>2. \A k \in 1..N : f[k] = DecodePass(f[k - 1], SumAfter(Rounds(n) + 1 - k), key)
    <3> SUFFICES ASSUME NEW k \in 1..N PROVE f[k] = DecodePass(f[k - 1], SumAfter(Rounds(n) + 1 - k), key)
      OBVIOUS
    <3>1. k - 1 \in 0..N
      BY <1>1
    <3>2. f[k - 1] \in S
      BY <3>1
    <3> QED
      BY <1>3, <2>1, <3>2
  <2>3. Is(f)
    BY <1>1, <2>1, <2>2
  <2> HIDE DEF Is
  <2> QED
    BY <2>3
<1>5. Decode(v, key) = F[N]
  BY <1>1 DEF Decode
<1> HIDE DEF F, G, N, S
<1>6. F = [k \in 0..N |-> F[k]]
  BY <1>4
<1>7. Recurs(S, F, v, N, G)
  BY <1>1, <1>3, <1>4 DEF Recurs
<1>8. F \in [0..N -> S] /\ Iterates(F, v, N, G)
  BY <1>1, <1>2, <1>6, <1>7, IterationIs
<1> QED
  BY <1>5, <1>8 DEF G, N, S

(* What was enciphered deciphers to what it was: words of any number and    *)
(* size, any key.                                                           *)
THEOREM DecodeUndoesCode ==
  ASSUME NEW n \in Nat, NEW v \in Words(n), NEW key \in Words(KeyWords)
  PROVE  /\ Code(v, key) \in Words(n) /\ Decode(v, key) \in Words(n)
         /\ Decode(Code(v, key), key) = v
<1>1. CASE n < 2
  BY <1>1, WordsLen DEF Code, Decode
<1>2. CASE n >= 2
  <2> DEFINE S == Words(n)
             N == Rounds(n)
             F == CodeRounds(n, key)
             B == DecodeRounds(n, key)
             w == Code(v, key)
  <2>1. PICK f \in [0..N -> S] : Iterates(f, v, N, F) /\ w = f[N]
    BY <1>2, CodeIterates
  <2>2. w \in S /\ f[0] = v /\ N \in Nat
    BY <1>2, <2>1, RoundsTyped DEF Iterates
  <2>3. \A u \in S : Decode(u, key) \in S
    <3> SUFFICES ASSUME NEW u \in S PROVE Decode(u, key) \in S
      OBVIOUS
    <3>1. PICK g \in [0..N -> S] : Decode(u, key) = g[N]
      BY <1>2, DecodeIterates
    <3> QED
      BY <2>2, <3>1
  <2>4. PICK g \in [0..N -> S] : Iterates(g, w, N, B) /\ Decode(w, key) = g[N]
    <3> HIDE DEF w
    <3> QED
      BY <1>2, <2>2, DecodeIterates
  <2>5. Undoes(B, F, N, S)
    <3> SUFFICES ASSUME NEW k \in 1..N, NEW s \in S PROVE B[N + 1 - k][F[k][s]] = s
      BY DEF Undoes
    <3>1. N + 1 - k \in 1..N /\ N + 1 - (N + 1 - k) = k /\ SumAfter(k) \in Nat
      <4> HIDE DEF N
      <4> QED
        BY <2>2, SumTyped
    <3>2. F[k][s] = CodePass(s, SumAfter(k), key) /\ CodePass(s, SumAfter(k), key) \in S
      BY <1>2, <3>1, PassUndone DEF CodeRounds
    <3> DEFINE t == CodePass(s, SumAfter(k), key)
    <3>3. B[N + 1 - k][t] = DecodePass(t, SumAfter(k), key)
      <4> HIDE DEF t
      <4>1. \A i \in 1..N : B[i][t] = DecodePass(t, SumAfter(N + 1 - i), key)
        BY <3>2 DEF DecodeRounds, t
      <4> HIDE DEF B, N
      <4> QED
        BY <3>1, <4>1
    <3> QED
      BY <1>2, <3>1, <3>2, <3>3, PassUndone
  <2>6. F \in [1..N -> [S -> S]] /\ B \in [1..N -> [S -> S]]
    BY <1>2, RoundsSteps
  <2> HIDE DEF F, B, S, w, N
  <2>7. Iterates(f, f[0], N, F) /\ Iterates(g, f[N], N, B)
    BY <2>1, <2>2, <2>4
  <2>8. g[N] = f[0]
    <3>1. ComesBack(B, F, N, S)
      BY <2>2, <2>5, <2>6, AllUndone
    <3> QED
      BY <2>1, <2>4, <2>7, <3>1 DEF ComesBack
  <2> QED
    BY <2>2, <2>3, <2>4, <2>8 DEF S, w
<1> QED
  BY <1>1, <1>2

-----------------------------------------------------------------------------
(* Words and their bytes. *)

Octet == 0..255

LEMMA BytesInWord ==
  /\ WordBytes \in Nat \ {0} /\ WordBits = 8 * WordBytes
  /\ \A k \in 0..WordBytes : 8 * k \in 0..WordBits
  /\ \A k \in 0..WordBytes : k < WordBytes => Power2[8 * (k + 1)] = 256 * Power2[8 * k]
<1>1. WordBytes \in Nat \ {0} /\ WordBits = 8 * WordBytes
  BY WordAssumption DEF WordBits
<1>2. \A k \in 0..WordBytes : 8 * k \in 0..WordBits
  BY <1>1
<1>3. ASSUME NEW k \in 0..WordBytes, k < WordBytes
      PROVE  Power2[8 * (k + 1)] = 256 * Power2[8 * k]
  <2> DEFINE b == 8 * k
  <2>1. /\ b \in Nat /\ 8 * (k + 1) = b + 8
        /\ \A i \in 1..8 : b + i \in 1..WordBits /\ b + i \in 0..WordBits
        /\ b \in 0..WordBits
    BY <1>1, <1>3
  <2> HIDE DEF b
  <2>2. \A i \in 1..8 : Power2[b + i] = 2 * Power2[(b + i) - 1]
    BY <2>1, Power2Is
  <2>3. /\ (b + 1) - 1 = b /\ (b + 2) - 1 = b + 1 /\ (b + 3) - 1 = b + 2 /\ (b + 4) - 1 = b + 3
        /\ (b + 5) - 1 = b + 4 /\ (b + 6) - 1 = b + 5 /\ (b + 7) - 1 = b + 6
        /\ (b + 8) - 1 = b + 7
    BY <2>1
  <2>4. /\ Power2[b + 1] = 2 * Power2[b] /\ Power2[b + 2] = 2 * Power2[b + 1]
        /\ Power2[b + 3] = 2 * Power2[b + 2] /\ Power2[b + 4] = 2 * Power2[b + 3]
        /\ Power2[b + 5] = 2 * Power2[b + 4] /\ Power2[b + 6] = 2 * Power2[b + 5]
        /\ Power2[b + 7] = 2 * Power2[b + 6] /\ Power2[b + 8] = 2 * Power2[b + 7]
    <3>1. /\ 1 \in 1..8 /\ 2 \in 1..8 /\ 3 \in 1..8 /\ 4 \in 1..8
          /\ 5 \in 1..8 /\ 6 \in 1..8 /\ 7 \in 1..8 /\ 8 \in 1..8
      OBVIOUS
    <3> QED
      BY <2>2, <2>3, <3>1
  <2>5. /\ \A i \in 1..8 : Power2[b + i] \in Nat
        /\ Power2[b] \in Nat
    BY <2>1, Power2Steps
  <2>6. Power2[b + 8] = 256 * Power2[b]
    <3> DEFINE x == Power2[b]
    <3>1. x \in Nat
      BY <2>5
    <3> HIDE DEF x
    <3>2. Power2[b + 4] = 16 * x
      BY <2>4, <3>1 DEF x
    <3>3. Power2[b + 8] = 16 * (16 * x)
      BY <2>4, <3>1, <3>2
    <3> QED
      BY <3>1, <3>3 DEF x
  <2> QED
    BY <2>1, <2>6 DEF b
<1> QED
  BY <1>1, <1>2, <1>3

(* The highest bytes of a word, one more at each step.                      *)
Gathers(high, d) ==
  /\ WordOf(d) = high[WordBytes] /\ high[0] = 0
  /\ \A k \in 1..WordBytes : high[k] = high[k - 1] * 256 + d[WordBytes + 1 - k]

LEMMA WordOfBytes ==
  \A d \in [1..WordBytes -> Octet] : \E high \in [0..WordBytes -> Nat] : Gathers(high, d)
<1> SUFFICES ASSUME NEW d \in [1..WordBytes -> Octet]
             PROVE  \E high \in [0..WordBytes -> Nat] : Gathers(high, d)
  OBVIOUS
<1> DEFINE S == Nat
           N == WordBytes
           G == [k \in 1..N |-> [h \in S |-> h * 256 + d[N + 1 - k]]]
           Is(f) == f = [b \in 0..N |-> IF b = 0 THEN 0 ELSE f[b - 1] * 256 + d[N + 1 - b]]
           F == CHOOSE f_ : Is(f_)
<1>1. N \in Nat /\ 0 \in S
  BY BytesInWord
<1>2. \A k \in 1..N : d[N + 1 - k] \in Nat
  <2> SUFFICES ASSUME NEW k \in 1..N PROVE d[N + 1 - k] \in Nat
    OBVIOUS
  <2> DEFINE j == N + 1 - k
  <2>1. j \in 1..N
    BY <1>1
  <2> HIDE DEF j
  <2>2. d[j] \in Octet
    BY <2>1
  <2>3. Octet \subseteq Nat
    BY DEF Octet
  <2> QED
    BY <2>2, <2>3 DEF j
<1>3. G \in [1..N -> [S -> S]] /\ \A k \in 1..N : \A h \in S : G[k][h] = h * 256 + d[N + 1 - k]
  BY <1>2
<1>4. Is(F)
  <2> HIDE DEF G, N, S
  <2>1. PICK f \in [0..N -> S] : f[0] = 0 /\ \A k \in 1..N : f[k] = G[k][f[k - 1]]
    <3>1. HasIteration(S, 0, N, G)
      BY <1>1, <1>3, Iterated
    <3> QED
      BY <3>1 DEF HasIteration, Iterates
  <2>2. \A k \in 1..N : f[k] = f[k - 1] * 256 + d[N + 1 - k]
    <3> SUFFICES ASSUME NEW k \in 1..N PROVE f[k] = f[k - 1] * 256 + d[N + 1 - k]
      OBVIOUS
    <3>1. k - 1 \in 0..N
      BY <1>1
    <3>2. f[k - 1] \in S
      BY <3>1
    <3> QED
      BY <1>3, <2>1, <3>2
  <2>3. Is(f)
    BY <1>1, <2>1, <2>2
  <2> HIDE DEF Is
  <2> QED
    BY <2>3
<1>5. WordOf(d) = F[N]
  BY DEF WordOf
<1> HIDE DEF F, G
<1>6. F[0] = 0 /\ \A k \in 1..N : F[k] = F[k - 1] * 256 + d[N + 1 - k]
  BY <1>1, <1>4
<1> HIDE DEF N, S
<1>7. F = [k \in 0..N |-> F[k]]
  BY <1>4
<1>8. Recurs(S, F, 0, N, G)
  BY <1>3, <1>6 DEF Recurs
<1>9. F \in [0..N -> S]
  BY <1>1, <1>3, <1>7, <1>8, IterationIs
<1> QED
  BY <1>5, <1>6, <1>9 DEF N, S, Gathers

LEMMA WordOfTyped ==
  ASSUME NEW d \in [1..WordBytes -> Octet]
  PROVE  /\ WordOf(d) \in Word
         /\ (\A b \in 1..WordBytes : d[b] = 0) => WordOf(d) = 0
<1> DEFINE W == WordBytes
<1>0. PICK high \in [0..W -> Nat] : Gathers(high, d)
  BY WordOfBytes
<1>1. /\ WordOf(d) = high[W] /\ high[0] = 0
      /\ \A k \in 1..W : high[k] = high[k - 1] * 256 + d[W + 1 - k]
  BY <1>0 DEF Gathers
<1> DEFINE T == {k \in 0..W : high[k] < Power2[8 * k]
                               /\ ((\A b \in 1..W : d[b] = 0) => high[k] = 0)}
<1>2. W \in Nat \ {0}
  BY BytesInWord
<1>3. 0 \in T
  <2>1. 8 * 0 = 0 /\ 0 \in 0..W
    BY <1>2
  <2> QED
    BY <1>1, <2>1, Power2Is
<1>4. ASSUME NEW k \in 0..W, k \in T, k < W PROVE k + 1 \in T
  <2>1. /\ k + 1 \in 1..W /\ k + 1 \in 0..W /\ (k + 1) - 1 = k
        /\ W + 1 - (k + 1) \in 1..W /\ W + 1 - (k + 1) = W - k /\ W - k \in 1..W
    BY <1>2, <1>4
  <2>2. high[k + 1] = high[k] * 256 + d[W - k] /\ d[W - k] \in Octet /\ high[k] \in Nat
    <3>1. high[k + 1] = high[(k + 1) - 1] * 256 + d[W + 1 - (k + 1)]
      BY <1>1, <2>1
    <3> QED
      BY <2>1, <3>1
  <2>3. Power2[8 * (k + 1)] = 256 * Power2[8 * k] /\ Power2[8 * k] \in Nat
    BY <1>4, BytesInWord, Power2Steps
  <2>4. high[k] < Power2[8 * k] /\ ((\A b \in 1..W : d[b] = 0) => high[k] = 0)
    BY <1>4
  <2>5. high[k + 1] < Power2[8 * (k + 1)]
    <3>1. \A h \in Nat : \A q \in Nat : \A c \in Octet : h < q => h * 256 + c < 256 * q
      BY DEF Octet
    <3> QED
      BY <2>2, <2>3, <2>4, <3>1
  <2>6. (\A b \in 1..W : d[b] = 0) => high[k + 1] = 0
    BY <2>1, <2>2, <2>4
  <2> QED
    BY <2>1, <2>5, <2>6
<1>5. \A k \in 0..W : k \in T
  <2> HIDE DEF T, W
  <2> QED
    BY <1>2, <1>3, <1>4, AllUpTo
<1>6. W \in T
  BY <1>2, <1>5
<1>7. high[W] < WordSize /\ high[W] \in Nat /\ WordSize \in Nat
  BY <1>2, <1>6, BytesInWord, WordSizeIs DEF WordSize
<1>8. high[W] \in Word
  BY <1>7 DEF Word
<1> QED
  BY <1>1, <1>6, <1>8

(* What is left of a word, one byte less at each step.                      *)
Scatters(rest, x) ==
  /\ rest[0] = x /\ \A k \in 1..WordBytes : rest[k] = rest[k - 1] \div 256
  /\ \A b \in 1..WordBytes : ByteOf(x, b) = rest[b - 1] % 256

LEMMA BytesOfWord ==
  \A x \in Nat : \E rest \in [0..WordBytes -> Nat] : Scatters(rest, x)
<1> SUFFICES ASSUME NEW x \in Nat
             PROVE  \E rest \in [0..WordBytes -> Nat] : Scatters(rest, x)
  OBVIOUS
<1> DEFINE S == Nat
           N == WordBytes
           G == [k \in 1..N |-> [h \in S |-> h \div 256]]
           Is(f) == f = [i \in 0..N |-> IF i = 0 THEN x ELSE f[i - 1] \div 256]
           F == CHOOSE f_ : Is(f_)
<1>1. N \in Nat /\ x \in S
  BY BytesInWord
<1>2. G \in [1..N -> [S -> S]] /\ \A k \in 1..N : \A h \in S : G[k][h] = h \div 256
  OBVIOUS
<1>3. Is(F)
  <2> HIDE DEF G, N, S
  <2>1. PICK f \in [0..N -> S] : f[0] = x /\ \A k \in 1..N : f[k] = G[k][f[k - 1]]
    <3>1. HasIteration(S, x, N, G)
      BY <1>1, <1>2, Iterated
    <3> QED
      BY <3>1 DEF HasIteration, Iterates
  <2>2. \A k \in 1..N : f[k] = f[k - 1] \div 256
    <3> SUFFICES ASSUME NEW k \in 1..N PROVE f[k] = f[k - 1] \div 256
      OBVIOUS
    <3>1. k - 1 \in 0..N
      BY <1>1
    <3>2. f[k - 1] \in S
      BY <3>1
    <3> QED
      BY <1>2, <2>1, <3>2
  <2>3. Is(f)
    BY <1>1, <2>1, <2>2
  <2> HIDE DEF Is
  <2> QED
    BY <2>3
<1>4. \A b \in 1..N : ByteOf(x, b) = F[b - 1] % 256
  BY DEF ByteOf
<1> HIDE DEF F, G
<1>5. F[0] = x /\ \A k \in 1..N : F[k] = F[k - 1] \div 256
  BY <1>1, <1>3
<1> HIDE DEF N, S
<1>6. F = [k \in 0..N |-> F[k]]
  BY <1>3
<1>7. Recurs(S, F, x, N, G)
  BY <1>2, <1>5 DEF Recurs
<1>8. F \in [0..N -> S]
  BY <1>1, <1>2, <1>6, <1>7, IterationIs
<1> QED
  BY <1>4, <1>5, <1>8 DEF N, S, Scatters

(* A word of some bytes has these bytes, ...                                *)
LEMMA BytesComeBack ==
  ASSUME NEW d \in [1..WordBytes -> Octet]
  PROVE  \A b \in 1..WordBytes : ByteOf(WordOf(d), b) = d[b]
<1> DEFINE W == WordBytes
<1>0. PICK high \in [0..W -> Nat] : Gathers(high, d)
  BY WordOfBytes
<1>1. /\ WordOf(d) = high[W] /\ high[0] = 0
      /\ \A k \in 1..W : high[k] = high[k - 1] * 256 + d[W + 1 - k]
  BY <1>0 DEF Gathers
<1>2. W \in Nat \ {0} /\ WordOf(d) \in Nat
  BY <1>1, BytesInWord
<1>a. PICK rest \in [0..W -> Nat] : Scatters(rest, WordOf(d))
  BY <1>2, BytesOfWord
<1>3. /\ rest[0] = WordOf(d) /\ \A k \in 1..W : rest[k] = rest[k - 1] \div 256
      /\ \A b \in 1..W : ByteOf(WordOf(d), b) = rest[b - 1] % 256
  BY <1>a DEF Scatters
<1>4. ASSUME NEW j \in 0..W, j < W
      PROVE  /\ high[W - j] = high[W - (j + 1)] * 256 + d[j + 1]
             /\ high[W - (j + 1)] \in Nat /\ d[j + 1] \in Octet
  <2>1. /\ W - j \in 1..W /\ (W - j) - 1 = W - (j + 1) /\ W + 1 - (W - j) = j + 1
        /\ W - (j + 1) \in 0..W /\ j + 1 \in 1..W
    BY <1>2, <1>4
  <2>2. high[W - j] = high[(W - j) - 1] * 256 + d[W + 1 - (W - j)]
    BY <1>1, <2>1
  <2> QED
    BY <2>1, <2>2
<1>5. \A h \in Nat : \A c \in Octet : (h * 256 + c) \div 256 = h /\ (h * 256 + c) % 256 = c
  BY DEF Octet
<1> DEFINE T == {j \in 0..W : rest[j] = high[W - j]}
<1>6. 0 \in T
  BY <1>1, <1>2, <1>3
<1>7. ASSUME NEW j \in 0..W, j \in T, j < W PROVE j + 1 \in T
  <2>1. j + 1 \in 1..W /\ j + 1 \in 0..W /\ (j + 1) - 1 = j
    BY <1>2, <1>7
  <2>2. rest[j + 1] = rest[j] \div 256
    BY <1>3, <2>1
  <2>3. rest[j] = high[W - (j + 1)] * 256 + d[j + 1]
    BY <1>4, <1>7
  <2>4. rest[j + 1] = high[W - (j + 1)]
    <3> DEFINE h == high[W - (j + 1)]
               c == d[j + 1]
               r == rest[j]
    <3>1. h \in Nat /\ c \in Octet /\ r = h * 256 + c
      BY <1>4, <1>7, <2>3
    <3> HIDE DEF h, c, r
    <3>2. r \div 256 = h
      BY <1>5, <3>1
    <3> QED
      BY <2>2, <3>2 DEF h, r
  <2> QED
    BY <2>1, <2>4
<1>8. \A j \in 0..W : j \in T
  <2> HIDE DEF T, W
  <2> QED
    BY <1>2, <1>6, <1>7, AllUpTo
<1> SUFFICES ASSUME NEW b \in 1..W PROVE ByteOf(WordOf(d), b) = d[b]
  OBVIOUS
<1>9. b - 1 \in 0..W /\ b - 1 < W /\ (b - 1) + 1 = b
  BY <1>2
<1>10. /\ rest[b - 1] = high[W - b] * 256 + d[b]
       /\ high[W - b] \in Nat /\ d[b] \in Octet
  BY <1>4, <1>8, <1>9
<1>11. rest[b - 1] % 256 = d[b]
  <2> DEFINE h == high[W - b]
             c == d[b]
             r == rest[b - 1]
  <2>1. h \in Nat /\ c \in Octet /\ r = h * 256 + c
    BY <1>10
  <2> HIDE DEF h, c, r
  <2>2. r % 256 = c
    BY <2>1, SMTT(30) DEF Octet
  <2> QED
    BY <2>2 DEF c, r
<1>12. ByteOf(WordOf(d), b) = rest[b - 1] % 256
  BY <1>a DEF Scatters
<1> QED
  BY <1>11, <1>12

(* ... and the word of the bytes of a word is this word.                    *)
LEMMA WordComesBack ==
  ASSUME NEW x \in Word, NEW d \in [1..WordBytes -> Octet],
         \A b \in 1..WordBytes : d[b] = ByteOf(x, b)
  PROVE  WordOf(d) = x
<1> DEFINE W == WordBytes
<1>0. PICK high \in [0..W -> Nat] : Gathers(high, d)
  BY WordOfBytes
<1>1. /\ WordOf(d) = high[W] /\ high[0] = 0
      /\ \A k \in 1..W : high[k] = high[k - 1] * 256 + d[W + 1 - k]
  BY <1>0 DEF Gathers
<1>2. W \in Nat \ {0} /\ x \in Nat
  BY BytesInWord, WordSizeIs
<1>a. PICK rest \in [0..W -> Nat] : Scatters(rest, x)
  BY <1>2, BytesOfWord
<1>3. /\ rest[0] = x /\ \A k \in 1..W : rest[k] = rest[k - 1] \div 256
      /\ \A b \in 1..W : ByteOf(x, b) = rest[b - 1] % 256
  BY <1>a DEF Scatters
<1> DEFINE U == {j \in 0..W : rest[j] < Power2[8 * (W - j)]}
<1>4. 0 \in U
  <2>1. rest[0] < WordSize
    BY <1>3, WordSizeIs DEF Word
  <2> QED
    BY <1>2, <2>1, BytesInWord DEF WordSize
<1>5. ASSUME NEW j \in 0..W, j \in U, j < W PROVE j + 1 \in U
  <2>1. /\ j + 1 \in 1..W /\ j + 1 \in 0..W /\ (j + 1) - 1 = j
        /\ W - (j + 1) \in 0..W /\ W - (j + 1) < W /\ (W - (j + 1)) + 1 = W - j
    BY <1>2, <1>5
  <2>2. rest[j + 1] = rest[j] \div 256 /\ rest[j] \in Nat
    BY <1>3, <2>1
  <2> DEFINE q == Power2[8 * (W - (j + 1))]
  <2>3. Power2[8 * (W - j)] = 256 * q
    <3>1. Power2[8 * ((W - (j + 1)) + 1)] = 256 * q
      BY <2>1, BytesInWord
    <3> QED
      BY <2>1, <3>1
  <2>4. q \in Nat
    BY <2>1, BytesInWord, Power2Steps
  <2>5. rest[j] < 256 * q
    BY <1>5, <2>3
  <2> HIDE DEF q
  <2>6. rest[j] \div 256 < q
    BY <2>2, <2>4, <2>5
  <2> QED
    BY <2>1, <2>2, <2>6 DEF q
<1>6. \A j \in 0..W : j \in U
  <2> HIDE DEF U, W
  <2> QED
    BY <1>2, <1>4, <1>5, AllUpTo
<1>7. rest[W] = 0
  <2>1. W \in 0..W /\ 8 * (W - W) = 0
    BY <1>2
  <2>2. rest[W] < 1 /\ rest[W] \in Nat
    BY <1>6, <2>1, Power2Is
  <2> QED
    BY <2>2
<1> DEFINE T == {k \in 0..W : high[k] = rest[W - k]}
<1>8. 0 \in T
  BY <1>1, <1>2, <1>7
<1>9. ASSUME NEW k \in 0..W, k \in T, k < W PROVE k + 1 \in T
  <2> DEFINE b == W - k
  <2>1. /\ k + 1 \in 1..W /\ k + 1 \in 0..W /\ (k + 1) - 1 = k
        /\ b \in 1..W /\ W + 1 - (k + 1) = b /\ b - 1 = W - (k + 1) /\ b - 1 \in 0..W
    BY <1>2, <1>9
  <2>2. high[k] = rest[b]
    BY <1>9
  <2> HIDE DEF b
  <2>3. high[k + 1] = high[k] * 256 + d[b]
    <3>1. high[k + 1] = high[(k + 1) - 1] * 256 + d[W + 1 - (k + 1)]
      BY <1>1, <2>1
    <3> QED
      BY <2>1, <3>1
  <2>4. rest[b] = rest[b - 1] \div 256 /\ d[b] = rest[b - 1] % 256 /\ rest[b - 1] \in Nat
    BY <1>3, <2>1
  <2>5. high[k + 1] = rest[b - 1]
    BY <2>2, <2>3, <2>4
  <2> QED
    BY <2>1, <2>5
<1>10. \A k \in 0..W : k \in T
  <2> HIDE DEF T, W
  <2> QED
    BY <1>2, <1>8, <1>9, AllUpTo
<1>11. W \in T /\ W - W = 0
  BY <1>2, <1>10
<1> QED
  BY <1>1, <1>3, <1>11

-----------------------------------------------------------------------------
(* Buffers of words and of bytes. *)

(* Where a byte of a buffer is, and which byte of the buffer a word has.    *)
WordAt(i)     == ((i - 1) \div WordBytes) + 1
ByteAt(i)     == ((i - 1) % WordBytes) + 1
PlaceOf(w, b) == (w - 1) * WordBytes + b

LEMMA Places ==
  ASSUME NEW n \in Nat
  PROVE  /\ n * WordBytes \in Nat
         /\ \A i \in 1..n * WordBytes :
              /\ WordAt(i) \in 1..n /\ ByteAt(i) \in 1..WordBytes
              /\ PlaceOf(WordAt(i), ByteAt(i)) = i
         /\ \A w \in 1..n : \A b \in 1..WordBytes :
              /\ PlaceOf(w, b) \in 1..n * WordBytes
              /\ WordAt(PlaceOf(w, b)) = w /\ ByteAt(PlaceOf(w, b)) = b
<1>1. WordBytes \in Nat \ {0}
  BY BytesInWord
<1>2. n * WordBytes \in Nat
  BY <1>1
<1>3. ASSUME NEW i \in 1..n * WordBytes
      PROVE  /\ WordAt(i) \in 1..n /\ ByteAt(i) \in 1..WordBytes
             /\ PlaceOf(WordAt(i), ByteAt(i)) = i
  <2> DEFINE x == i - 1
             q == x \div WordBytes
             m == x % WordBytes
  <2>1. x \in 0..n * WordBytes - 1 /\ i = x + 1
    BY <1>2
  <2>2. WordAt(i) = q + 1 /\ ByteAt(i) = m + 1
    BY DEF WordAt, ByteAt
  <2> HIDE DEF x
  <2>3. q \in 0..n - 1
    BY <1>1, <2>1
  <2>4. m \in 0..WordBytes - 1
    BY <1>1, <2>1
  <2>5. x = q * WordBytes + m
    BY <1>1, <2>1
  <2> HIDE DEF q, m
  <2>6. q + 1 \in 1..n /\ m + 1 \in 1..WordBytes /\ (q + 1) - 1 = q
    BY <1>1, <2>3, <2>4
  <2>7. q * WordBytes \in Nat /\ q * WordBytes + (m + 1) = i
    BY <1>1, <2>1, <2>3, <2>4, <2>5
  <2>8. PlaceOf(q + 1, m + 1) = i
    BY <2>6, <2>7 DEF PlaceOf
  <2> QED
    BY <2>2, <2>6, <2>8
<1>4. ASSUME NEW w \in 1..n, NEW b \in 1..WordBytes
      PROVE  /\ PlaceOf(w, b) \in 1..n * WordBytes
             /\ WordAt(PlaceOf(w, b)) = w /\ ByteAt(PlaceOf(w, b)) = b
  <2> DEFINE u == w - 1
             c == b - 1
  <2>1. PlaceOf(w, b) \in 1..n * WordBytes
    BY <1>1 DEF PlaceOf
  <2>2. u \in Nat /\ c \in 0..WordBytes - 1 /\ w = u + 1 /\ b = c + 1
    BY <1>1
  <2>3. PlaceOf(w, b) - 1 = u * WordBytes + c
    BY <1>1, <2>2 DEF PlaceOf
  <2> HIDE DEF u, c
  <2>4. (u * WordBytes + c) \div WordBytes = u
    BY <1>1, <2>2
  <2>5. (u * WordBytes + c) % WordBytes = c
    BY <1>1, <2>2
  <2>6. WordAt(PlaceOf(w, b)) = w
    BY <2>2, <2>3, <2>4 DEF WordAt
  <2>7. ByteAt(PlaceOf(w, b)) = b
    BY <2>2, <2>3, <2>5 DEF ByteAt
  <2> QED
    BY <2>1, <2>6, <2>7
<1> QED
  BY <1>2, <1>3, <1>4

LEMMA ByteTyped == \A s \in Seq(Octet) : \A i \in Nat : Byte(s, i) \in Octet
<1>1. 0 \in Octet
  BY DEF Octet
<1> QED
  BY <1>1 DEF Byte

LEMMA ByteOfTyped == \A x \in Nat : \A b \in 1..WordBytes : ByteOf(x, b) \in Octet
<1> SUFFICES ASSUME NEW x \in Nat, NEW b \in 1..WordBytes PROVE ByteOf(x, b) \in Octet
  OBVIOUS
<1>1. PICK rest \in [0..WordBytes -> Nat] : Scatters(rest, x)
  BY BytesOfWord
<1>2. b - 1 \in 0..WordBytes /\ ByteOf(x, b) = rest[b - 1] % 256
  BY <1>1, BytesInWord DEF Scatters
<1>3. rest[b - 1] \in Nat
  BY <1>2
<1>4. \A y \in Nat : y % 256 \in Octet
  BY DEF Octet
<1> QED
  BY <1>2, <1>3, <1>4

(* The bytes of word w of a buffer that holds s.                            *)
Cut(s, w) == [b \in 1..WordBytes |-> Byte(s, PlaceOf(w, b))]

LEMMA CutTyped ==
  \A s \in Seq(Octet) : \A n \in Nat : \A w \in 1..n : Cut(s, w) \in [1..WordBytes -> Octet]
<1> SUFFICES ASSUME NEW s \in Seq(Octet), NEW n \in Nat, NEW w \in 1..n,
                    NEW b \in 1..WordBytes
             PROVE  Byte(s, PlaceOf(w, b)) \in Octet
  BY DEF Cut
<1>1. PlaceOf(w, b) \in Nat
  BY BytesInWord DEF PlaceOf
<1> QED
  BY <1>1, ByteTyped

LEMMA BuffersTyped ==
  /\ \A n \in Nat : \A s \in Seq(Octet) : ToWords(s, n) \in Words(n)
  /\ \A n \in Nat : \A v \in Words(n) :
       /\ ToBytes(v) \in [1..n * WordBytes -> Octet]
       /\ ToBytes(v) \in Seq(Octet) /\ Len(ToBytes(v)) = n * WordBytes
<1>1. ASSUME NEW n \in Nat, NEW s \in Seq(Octet) PROVE ToWords(s, n) \in Words(n)
  <2>1. \A w \in 1..n : WordOf(Cut(s, w)) \in Word
    BY CutTyped, WordOfTyped
  <2> QED
    BY <2>1 DEF ToWords, Words, Cut, PlaceOf
<1>2. ASSUME NEW n \in Nat, NEW v \in Words(n)
      PROVE  /\ ToBytes(v) \in [1..n * WordBytes -> Octet]
             /\ ToBytes(v) \in Seq(Octet) /\ Len(ToBytes(v)) = n * WordBytes
  <2>1. Len(v) = n /\ n * WordBytes \in Nat
    BY WordsLen, Places
  <2>2. ASSUME NEW i \in 1..n * WordBytes
        PROVE  ByteOf(v[WordAt(i)], ByteAt(i)) \in Octet
    <3> DEFINE w == WordAt(i)
               b == ByteAt(i)
    <3>1. w \in 1..n /\ b \in 1..WordBytes
      BY Places
    <3> HIDE DEF w, b
    <3>2. v[w] \in Nat
      BY <3>1, WordSizeIs DEF Words
    <3>3. ByteOf(v[w], b) \in Octet
      BY <3>1, <3>2, ByteOfTyped
    <3> QED
      BY <3>3 DEF w, b
  <2>3. ToBytes(v) \in [1..n * WordBytes -> Octet]
    BY <2>1, <2>2 DEF ToBytes, WordAt, ByteAt
  <2> DEFINE N == n * WordBytes
             u == ToBytes(v)
  <2> HIDE DEF N, u
  <2>4. N \in Nat /\ u \in [1..N -> Octet]
    BY <2>1, <2>3 DEF N, u
  <2>5. u \in Seq(Octet) /\ Len(u) = N
    BY <2>4
  <2> QED
    BY <2>3, <2>5 DEF N, u
<1> QED
  BY <1>1, <1>2

(* A buffer of words has the bytes that were copied, and zeros behind them. *)
LEMMA BytesOfBuffer ==
  ASSUME NEW s \in Seq(Octet), NEW n \in Nat
  PROVE  ToBytes(ToWords(s, n)) = [i \in 1..n * WordBytes |-> Byte(s, i)]
<1> DEFINE v == ToWords(s, n)
<1>1. v \in Words(n) /\ Len(v) = n
  BY BuffersTyped, WordsLen
<1>2. \A w \in 1..n : v[w] = WordOf(Cut(s, w))
  BY DEF ToWords, Cut, PlaceOf
<1> HIDE DEF v
<1>3. ASSUME NEW i \in 1..n * WordBytes
      PROVE  ByteOf(v[WordAt(i)], ByteAt(i)) = Byte(s, i)
  <2> DEFINE w == WordAt(i)
             b == ByteAt(i)
  <2>1. w \in 1..n /\ b \in 1..WordBytes /\ PlaceOf(w, b) = i
    BY Places
  <2> HIDE DEF w, b
  <2>2. ByteOf(v[w], b) = Cut(s, w)[b]
    BY <1>2, <2>1, CutTyped, BytesComeBack
  <2>3. Cut(s, w)[b] = Byte(s, i)
    BY <2>1 DEF Cut
  <2> QED
    BY <2>2, <2>3 DEF w, b
<1> QED
  BY <1>1, <1>3 DEF ToBytes, v, WordAt, ByteAt

(* The words of the bytes of a buffer are the words of the buffer.          *)
LEMMA BufferOfBytes ==
  ASSUME NEW n \in Nat, NEW v \in Words(n)
  PROVE  ToWords(ToBytes(v), n) = v
<1> DEFINE s == ToBytes(v)
<1>1. s \in Seq(Octet) /\ DOMAIN s = 1..n * WordBytes /\ Len(v) = n
  BY BuffersTyped, WordsLen
<1>2. \A i \in 1..n * WordBytes :
        Byte(s, i) = ByteOf(v[WordAt(i)], ByteAt(i))
  BY <1>1 DEF ToBytes, Byte, WordAt, ByteAt
<1> HIDE DEF s
<1>3. ASSUME NEW w \in 1..n PROVE WordOf(Cut(s, w)) = v[w]
  <2>1. ASSUME NEW b \in 1..WordBytes PROVE Cut(s, w)[b] = ByteOf(v[w], b)
    <3> DEFINE i == PlaceOf(w, b)
    <3>1. i \in 1..n * WordBytes /\ WordAt(i) = w /\ ByteAt(i) = b
      BY Places
    <3>2. Cut(s, w)[b] = Byte(s, i)
      BY DEF Cut
    <3> HIDE DEF i
    <3> QED
      BY <1>2, <3>1, <3>2
  <2>2. v[w] \in Word
    BY DEF Words
  <2>3. Cut(s, w) \in [1..WordBytes -> Octet]
    BY <1>1, CutTyped
  <2> QED
    BY <2>1, <2>2, <2>3, WordComesBack
<1>4. ToWords(s, n) = [w \in 1..n |-> v[w]]
  BY <1>3 DEF ToWords, Cut, PlaceOf
<1> QED
  BY <1>4 DEF s, Words

(* Strings of hex digits. *)
UpperHalf(x) == x \div 16
LowerHalf(x) == x % 16

LEMMA HexTyped ==
  ASSUME NEW s \in Seq(Octet)
  PROVE  /\ ToHex(s) \in Seq(Digits) /\ Len(ToHex(s)) = 2 * Len(s)
         /\ FromHex(ToHex(s)) = s
<1> DEFINE n == Len(s)
           h == ToHex(s)
<1>1. n \in Nat /\ 2 * n \in Nat /\ (2 * n) \div 2 = n
  OBVIOUS
<1>2. \A i \in 1..n : s[i] \in Octet
  OBVIOUS
<1>3. ASSUME NEW x \in Octet
      PROVE  /\ UpperHalf(x) \in Digits /\ LowerHalf(x) \in Digits
             /\ UpperHalf(x) * 16 + LowerHalf(x) = x
  <2>1. x \in 0..255
    BY DEF Octet
  <2>2. UpperHalf(x) \in 0..15 /\ LowerHalf(x) \in 0..15
    BY <2>1 DEF UpperHalf, LowerHalf
  <2>3. LowerHalf(x) = x - 16 * UpperHalf(x)
    BY <2>1 DEF UpperHalf, LowerHalf
  <2>4. UpperHalf(x) * 16 + LowerHalf(x) = x
    <3>1. \A a \in 0..15, b \in 0..15 : b = x - 16 * a => a * 16 + b = x
      BY <2>1
    <3> QED
      BY <2>2, <2>3, <3>1
  <2> QED
    BY <2>2, <2>4 DEF Digits
<1>4. ASSUME NEW i \in 1..2 * n
      PROVE  (IF i % 2 = 1 THEN UpperHalf(s[(i + 1) \div 2]) ELSE LowerHalf(s[i \div 2])) \in Digits
  <2>1. CASE i % 2 = 1
    <3>1. (i + 1) \div 2 \in 1..n
      BY <1>1, <2>1
    <3> QED
      BY <1>2, <1>3, <2>1, <3>1
  <2>2. CASE i % 2 # 1
    <3>1. i \div 2 \in 1..n
      BY <1>1, <2>2
    <3> QED
      BY <1>2, <1>3, <2>2, <3>1
  <2> QED
    BY <2>1, <2>2
<1>5. h \in [1..2 * n -> Digits]
  BY <1>4 DEF ToHex, UpperHalf, LowerHalf
<1>6. h \in Seq(Digits) /\ Len(h) = 2 * n
  <2> HIDE DEF h, n
  <2> QED
    BY <1>1, <1>5
<1>7. ASSUME NEW i \in 1..n PROVE h[2 * i - 1] * 16 + h[2 * i] = s[i]
  <2>1. /\ 2 * i - 1 \in 1..2 * n /\ (2 * i - 1) % 2 = 1 /\ ((2 * i - 1) + 1) \div 2 = i
        /\ 2 * i \in 1..2 * n /\ (2 * i) % 2 = 0 /\ (2 * i) \div 2 = i
    BY <1>1
  <2>2. h[2 * i - 1] = UpperHalf(s[i]) /\ h[2 * i] = LowerHalf(s[i])
    BY <2>1 DEF ToHex, UpperHalf, LowerHalf
  <2> HIDE DEF h
  <2> QED
    BY <1>2, <1>3, <2>2
<1>8. FromHex(h) = [i \in 1..n |-> s[i]]
  BY <1>1, <1>6, <1>7 DEF FromHex
<1>9. s = [i \in 1..n |-> s[i]]
  OBVIOUS
<1> QED
  BY <1>6, <1>8, <1>9

LEMMA FromHexTyped ==
  ASSUME NEW h \in Seq(Digits)
  PROVE  FromHex(h) \in Seq(Octet)
<1>1. Len(h) \in Nat /\ Len(h) \div 2 \in Nat
  OBVIOUS
<1>2. \A a \in Digits : \A b \in Digits : a * 16 + b \in Octet
  BY DEF Digits, Octet
<1>3. ASSUME NEW i \in 1..Len(h) \div 2 PROVE h[2 * i - 1] * 16 + h[2 * i] \in Octet
  <2>1. 2 * i - 1 \in 1..Len(h) /\ 2 * i \in 1..Len(h)
    BY <1>1
  <2>2. h[2 * i - 1] \in Digits /\ h[2 * i] \in Digits
    BY <2>1
  <2> QED
    BY <1>2, <2>2
<1> QED
  BY <1>1, <1>3 DEF FromHex

(* C strings. *)
LEMMA CStringTyped ==
  ASSUME NEW s \in Seq(Octet)
  PROVE  CString(s) \in Seq(Octet) /\ Len(CString(s)) <= Len(s)
<1>1. CASE 0 \in Range(s)
  <2> DEFINE N == {n \in DOMAIN s : s[n] = 0}
             Is(n) == s[n] = 0 /\ \A i \in 1..(n - 1) : s[i] # 0
  <2>1. N \subseteq Nat /\ N # {}
    BY <1>1 DEF Range
  <2>2. PICK m \in N : \A j \in N : m <= j
    <3> HIDE DEF N
    <3> QED
      BY <2>1, LeastIn
  <2>3. m \in DOMAIN s /\ Is(m)
    <3>1. m \in 1..Len(s) /\ s[m] = 0
      BY <2>2
    <3>2. ASSUME NEW i \in 1..(m - 1), s[i] = 0 PROVE FALSE
      <4>1. i \in N
        BY <3>1, <3>2
      <4> HIDE DEF N
      <4> QED
        BY <2>2, <3>1, <4>1
    <3> QED
      BY <3>1, <3>2
  <2>4. FirstNul(s) = CHOOSE n \in DOMAIN s : Is(n)
    BY DEF FirstNul
  <2>5. FirstNul(s) \in DOMAIN s
    <3> HIDE DEF Is
    <3> QED
      BY <2>3, <2>4
  <2> DEFINE f == FirstNul(s)
  <2>6. CString(s) = SubSeq(s, 1, f - 1)
    BY <1>1 DEF CString
  <2> HIDE DEF f
  <2>7. f - 1 \in 0..Len(s)
    BY <2>5 DEF f
  <2>8. SubSeq(s, 1, f - 1) \in Seq(Octet) /\ Len(SubSeq(s, 1, f - 1)) <= Len(s)
    BY <2>7
  <2> QED
    BY <2>6, <2>8
<1>2. CASE 0 \notin Range(s)
  BY <1>2 DEF CString
<1> QED
  BY <1>1, <1>2

(* A string without NUL in a buffer with zeros behind it is this string.    *)
Char == 1..255

LEMMA CStringOfBuffer ==
  ASSUME NEW t \in Seq(Char), NEW m \in Nat, Len(t) <= m
  PROVE  CString([i \in 1..m |-> Byte(t, i)]) = t
<1> DEFINE s == [i \in 1..m |-> Byte(t, i)]
           n == Len(t)
<1>1. /\ n \in Nat /\ DOMAIN s = 1..m /\ s \in Seq(Octet) /\ Len(s) = m
      /\ \A i \in 1..n : s[i] = t[i] /\ s[i] # 0
      /\ \A i \in 1..m : i > n => s[i] = 0
  <2>1. n \in Nat /\ \A i \in 1..n : t[i] \in Char
    OBVIOUS
  <2>2. \A i \in 1..m : Byte(t, i) = IF i <= n THEN t[i] ELSE 0
    BY <2>1 DEF Byte
  <2>3. \A i \in 1..m : Byte(t, i) \in Octet
    <3>1. 0 \in Octet /\ Char \subseteq Octet /\ 0 \notin Char
      BY DEF Octet, Char
    <3> QED
      BY <2>1, <2>2, <3>1
  <2>4. s \in [1..m -> Octet]
    BY <2>3
  <2>5. s \in Seq(Octet) /\ Len(s) = m
    <3> HIDE DEF s
    <3> QED
      BY <2>4
  <2>6. \A i \in 1..m : s[i] = IF i <= n THEN t[i] ELSE 0
    BY <2>2
  <2>7. \A i \in 1..n : i \in 1..m /\ i <= n
    BY <2>1
  <2>8. DOMAIN s = 1..m
    OBVIOUS
  <2>9. 0 \notin Char
    BY DEF Char
  <2> HIDE DEF s
  <2>10. \A i \in 1..n : s[i] = t[i] /\ s[i] # 0
    BY <2>1, <2>6, <2>7, <2>9
  <2>11. \A i \in 1..m : i > n => s[i] = 0
    BY <2>1, <2>6
  <2> QED
    BY <2>1, <2>5, <2>8, <2>10, <2>11
<1> HIDE DEF s
<1>2. CASE n = m
  <2>1. 0 \notin Range(s)
    BY <1>1, <1>2 DEF Range
  <2>2. CString(s) = s
    BY <2>1 DEF CString
  <2>3. s = t
    BY <1>1, <1>2
  <2> QED
    BY <2>2, <2>3 DEF s
<1>3. CASE n # m
  <2> DEFINE Is(k) == s[k] = 0 /\ \A i \in 1..(k - 1) : s[i] # 0
  <2>1. n + 1 \in DOMAIN s /\ Is(n + 1)
    BY <1>1, <1>3
  <2>2. \A k \in DOMAIN s : Is(k) => k = n + 1
    BY <1>1, <2>1
  <2>3. FirstNul(s) = CHOOSE k \in DOMAIN s : Is(k)
    BY DEF FirstNul
  <2>4. FirstNul(s) = n + 1
    <3> HIDE DEF Is
    <3> QED
      BY <2>1, <2>2, <2>3
  <2>5. 0 \in Range(s)
    BY <2>1 DEF Range
  <2>6. CString(s) = SubSeq(s, 1, n)
    BY <1>1, <2>4, <2>5 DEF CString
  <2>7. SubSeq(s, 1, n) = t
    BY <1>1, <1>3
  <2> QED
    BY <2>6, <2>7 DEF s
<1> QED
  BY <1>2, <1>3

-----------------------------------------------------------------------------
(* The strings that travel. *)

LEMMA LimitsHold ==
  /\ MaxText \in Nat /\ MaxData \in Nat /\ ReplyBytes \in Nat
  /\ MaxText < MaxData /\ 2 * MaxText < ReplyBytes /\ MaxText % WordBytes = 0
  /\ KeyBytes \in Nat /\ 1 <= KeyBytes /\ KeyBytes <= KeyWords * WordBytes
  /\ Fail \notin Seq(Digits)
BY CipherAssumption, WordAssumption DEF Digits, KeyWords

LEMMA CharsAreOctets == Char \subseteq Octet /\ Seq(Char) \subseteq Seq(Octet) /\ 0 \in Octet
<1>1. Char \subseteq Octet /\ 0 \in Octet
  BY DEF Char, Octet
<1> QED
  BY <1>1

(* The words of a string hold it, and no more than MaxText bytes.           *)
LEMMA CountFits ==
  ASSUME NEW len \in 1..MaxText
  PROVE  /\ WordCount(len) \in Nat \ {0}
         /\ len <= WordCount(len) * WordBytes /\ WordCount(len) * WordBytes <= MaxText
<1> DEFINE W == WordBytes
           x == len + W - 1
           q == x \div W
           m == x % W
           p == MaxText \div W
           r == MaxText % W
<1>1. W \in Nat \ {0} /\ MaxText \in Nat /\ r = 0
  BY BytesInWord, LimitsHold
<1> HIDE DEF W
<1>2. x \in Nat /\ len \in Nat /\ len <= MaxText /\ x + 1 = len + W
  BY <1>1
<1>3. WordCount(len) = q
  BY DEF WordCount, W
<1> HIDE DEF x
<1>4. q \in Nat /\ m \in 0..W - 1
  BY <1>1, <1>2
<1>5. x = q * W + m
  BY <1>1, <1>2
<1>6. p \in Nat /\ MaxText = p * W
  <2>1. p \in Nat
    BY <1>1
  <2>2. MaxText = p * W + r
    BY <1>1
  <2> HIDE DEF p, r
  <2>3. p * W \in Nat
    BY <1>1, <2>1
  <2> QED
    BY <1>1, <2>1, <2>2, <2>3
<1> HIDE DEF m, p, r
<1>7. q * W \in Nat /\ p * W \in Nat /\ (p + 1) * W = p * W + W
  BY <1>1, <1>4, <1>6
<1>8. x \in 0..(p + 1) * W - 1
  BY <1>1, <1>2, <1>6, <1>7
<1>9. q <= p
  <2>1. p + 1 \in Nat
    BY <1>6
  <2>2. \A n \in Nat : \A y \in 0..n * W - 1 : y \div W \in 0..n - 1
    BY <1>1
  <2>3. q \in 0..(p + 1) - 1
    BY <1>8, <2>1, <2>2
  <2> QED
    BY <1>6, <2>3
<1> HIDE DEF q
<1>10. q * W <= p * W
  BY <1>1, <1>4, <1>6, <1>9
<1>11. len <= q * W
  BY <1>1, <1>2, <1>4, <1>5, <1>7
<1>12. q # 0
  BY <1>1, <1>2, <1>11
<1> QED
  BY <1>3, <1>4, <1>6, <1>10, <1>11, <1>12 DEF W

LEMMA EncryptTyped ==
  ASSUME NEW t \in Seq(Char), Len(t) \in 1..MaxText, NEW key \in Words(KeyWords)
  PROVE  /\ Encrypt(t, key) \in Seq(Digits)
         /\ Len(Encrypt(t, key)) = 2 * (WordCount(Len(t)) * WordBytes)
         /\ Decrypt(Encrypt(t, key), key) = t
<1> DEFINE n == WordCount(Len(t))
           N == n * WordBytes
           v == ToWords(t, n)
           c == Code(v, key)
           b == ToBytes(c)
           h == ToHex(b)
<1>1. n \in Nat \ {0} /\ N \in Nat /\ Len(t) <= N /\ N <= MaxText /\ N % WordBytes = 0
      /\ N \div WordBytes = n
  <2>1. n \in Nat \ {0} /\ Len(t) <= N /\ N <= MaxText
    BY CountFits
  <2> HIDE DEF n
  <2>2. N \in Nat /\ N % WordBytes = 0 /\ N \div WordBytes = n
    BY <2>1, BytesInWord
  <2> QED
    BY <2>1, <2>2
<1>2. t \in Seq(Octet)
  BY CharsAreOctets
<1>3. Encrypt(t, key) = h
  <2>1. Len(t) \in 1..(MaxData - 1)
    BY LimitsHold
  <2> QED
    BY <2>1 DEF Encrypt
<1> HIDE DEF n
<1>4. v \in Words(n)
  BY <1>1, <1>2, BuffersTyped
<1>5. c \in Words(n) /\ Decode(c, key) = v
  <2> HIDE DEF v
  <2> QED
    BY <1>1, <1>4, DecodeUndoesCode
<1> HIDE DEF c
<1>6. b \in Seq(Octet) /\ Len(b) = N /\ ToWords(b, n) = c
  BY <1>1, <1>5, BuffersTyped, BufferOfBytes
<1> HIDE DEF b, N
<1>7. h \in Seq(Digits) /\ Len(h) = 2 * N /\ FromHex(h) = b
  BY <1>6, HexTyped
<1> HIDE DEF h
<1>8. Decrypt(h, key) = CString(ToBytes(Decode(ToWords(FromHex(h), n), key)))
  <2>1. Len(h) \in 1..(2 * MaxData - 1)
    <3>1. 1 <= N
      BY <1>1
    <3> QED
      BY <1>1, <1>7, <3>1, LimitsHold
  <2>2. Len(h) % (2 * WordBytes) = 0 /\ Len(h) \div (2 * WordBytes) = n
    <3>1. 2 * N = n * (2 * WordBytes)
      BY <1>1, BytesInWord DEF N
    <3> DEFINE V == 2 * WordBytes
    <3>2. V \in Nat \ {0}
      BY BytesInWord
    <3> HIDE DEF V
    <3>3. (n * V) % V = 0
      BY <1>1, <3>2
    <3>4. (n * V) \div V = n
      BY <1>1, <3>2
    <3> QED
      BY <1>7, <3>1, <3>3, <3>4 DEF V
  <2> QED
    BY <2>1, <2>2 DEF Decrypt
<1>9. Decrypt(h, key) = CString(ToBytes(v))
  BY <1>5, <1>6, <1>7, <1>8
<1>10. ToBytes(v) = [i \in 1..N |-> Byte(t, i)]
  BY <1>1, <1>2, BytesOfBuffer DEF N
<1>11. CString([i \in 1..N |-> Byte(t, i)]) = t
  BY <1>1, CStringOfBuffer
<1> QED
  BY <1>3, <1>7, <1>9, <1>10, <1>11 DEF N, n

LEMMA DecryptFits ==
  ASSUME NEW h \in Seq(Digits), NEW key \in Words(KeyWords), Decrypt(h, key) # Fail
  PROVE  Len(Decrypt(h, key)) \in Nat /\ Len(Decrypt(h, key)) <= Len(h)
<1> DEFINE n == Len(h) \div (2 * WordBytes)
           d == Decode(ToWords(FromHex(h), n), key)
           V == 2 * WordBytes
<1>1. V \in Nat \ {0} /\ Len(h) \in Nat
  BY BytesInWord
<1>2. n \in Nat /\ n * WordBytes \in Nat /\ n * WordBytes <= Len(h)
  <2> DEFINE l == Len(h)
             q == l \div V
  <2> HIDE DEF V, l
  <2>1. l \in Nat
    BY DEF l
  <2>2. q \in Nat
    BY <1>1, <2>1
  <2>3. q * V <= l
    BY <1>1, <2>1
  <2> HIDE DEF q
  <2>4. q * V = 2 * (q * WordBytes) /\ q * WordBytes \in Nat
    BY <2>2, BytesInWord DEF V
  <2>5. q * WordBytes <= l
    BY <2>1, <2>3, <2>4
  <2> QED
    BY <2>2, <2>4, <2>5 DEF q, l, V
<1> HIDE DEF n
<1>3. d \in Words(n)
  <2>1. ToWords(FromHex(h), n) \in Words(n)
    BY <1>2, FromHexTyped, BuffersTyped
  <2> QED
    BY <1>2, <2>1, DecodeUndoesCode
<1> HIDE DEF d
<1>4. ToBytes(d) \in Seq(Octet) /\ Len(ToBytes(d)) = n * WordBytes
  BY <1>2, <1>3, BuffersTyped
<1>5. CString(ToBytes(d)) \in Seq(Octet) /\ Len(CString(ToBytes(d))) <= n * WordBytes
  BY <1>4, CStringTyped
<1>6. Decrypt(h, key) = CString(ToBytes(d))
  BY DEF Decrypt, d, n
<1>7. Len(CString(ToBytes(d))) \in Nat
  BY <1>5
<1> QED
  BY <1>1, <1>2, <1>5, <1>6, <1>7

-----------------------------------------------------------------------------
(* The record, the key in RAM, and the strings between them.               *)

Records == [tag : BOOLEAN, value : [1..KeyBytes -> Octet]]

(* The words of the key that a record has. *)
KeyWith(rec) == ToWords(KeyOf(rec), KeyWords)

(* The bytes of the key behind KeyBytes are zero.                           *)
ShortKey(key) == \A i \in (KeyBytes + 1)..(KeyWords * WordBytes) : ToBytes(key)[i] = 0

StateOK ==
  /\ record \in Records /\ writing \in Seq(Octet) /\ Len(writing) <= KeyBytes
  /\ xxtea_key \in Words(KeyWords) /\ ShortKey(xxtea_key)

(* The last string enciphered has the digits of its words, and they are its *)
(* cipher under the key of the record then, if that had one: a key that RAM *)
(* still held is not known to the record.                                   *)
MadeOK ==
  made = NoneMade \/
  /\ made.of \in Seq(Char) /\ Len(made.of) \in 1..MaxText /\ made.record \in Records
  /\ made.is \in Seq(Digits)
  /\ Len(made.is) = 2 * (WordCount(Len(made.of)) * WordBytes)
  /\ KeyOf(made.record) # <<>> => made.is = Encrypt(made.of, KeyWith(made.record))

(* The last reply is no longer than the digits it was made of, and what     *)
(* they decipher to under the key of the record, if it has one.             *)
ReplyOK ==
  reply = NoReply \/
  /\ made # NoneMade
  /\ reply.is # Fail => Len(reply.is) \in Nat /\ Len(reply.is) <= 2 * MaxText
  /\ KeyOf(record) # <<>> => reply.is = Decrypt(reply.of, KeyWith(record))

CipherInv == StateOK /\ MadeOK /\ ReplyOK

(* The key of a record is a string of at most KeyBytes bytes, and its words *)
(* have zeros behind these.                                                 *)
LEMMA KeyOfTyped ==
  ASSUME NEW rec \in Records
  PROVE  KeyOf(rec) \in Seq(Octet) /\ Len(KeyOf(rec)) <= KeyBytes
<1>1. rec.value \in [1..KeyBytes -> Octet] /\ KeyBytes \in Nat
  BY LimitsHold DEF Records
<1>2. rec.value \in Seq(Octet) /\ Len(rec.value) = KeyBytes
  BY <1>1
<1>3. CString(rec.value) \in Seq(Octet) /\ Len(CString(rec.value)) <= KeyBytes
  BY <1>2, CStringTyped
<1>4. <<>> \in Seq(Octet) /\ Len(<<>>) = 0
  OBVIOUS
<1> QED
  BY <1>1, <1>3, <1>4 DEF KeyOf

LEMMA KeyTyped ==
  ASSUME NEW s \in Seq(Octet), Len(s) <= KeyBytes
  PROVE  ToWords(s, KeyWords) \in Words(KeyWords) /\ ShortKey(ToWords(s, KeyWords))
<1> DEFINE key == ToWords(s, KeyWords)
           N == KeyWords * WordBytes
<1>1. KeyWords \in Nat
  BY DEF KeyWords
<1>2. key \in Words(KeyWords) /\ ToBytes(key) = [i \in 1..N |-> Byte(s, i)]
  BY <1>1, BuffersTyped, BytesOfBuffer
<1>3. N \in Nat /\ KeyBytes \in Nat /\ 1 <= KeyBytes
  BY <1>1, BytesInWord, LimitsHold
<1> HIDE DEF key, N
<1>4. ASSUME NEW i \in (KeyBytes + 1)..N PROVE ToBytes(key)[i] = 0
  <2>1. i \in 1..N /\ i \notin DOMAIN s
    BY <1>3, <1>4
  <2> QED
    BY <1>2, <2>1 DEF Byte
<1> QED
  BY <1>2, <1>4 DEF ShortKey, key, N

LEMMA KeyWithTyped ==
  ASSUME NEW rec \in Records
  PROVE  KeyWith(rec) \in Words(KeyWords) /\ ShortKey(KeyWith(rec))
BY KeyOfTyped, KeyTyped DEF KeyWith

(* setKey leaves a key of a record's size, and the record's if it has one.  *)
LEMMA SetupTyped ==
  ASSUME NEW rec \in Records, NEW old \in Words(KeyWords), ShortKey(old)
  PROVE  /\ SetupKey(KeyOf(rec), old) \in Words(KeyWords) /\ ShortKey(SetupKey(KeyOf(rec), old))
         /\ KeyOf(rec) # <<>> => SetupKey(KeyOf(rec), old) = KeyWith(rec)
<1>1. CASE KeyOf(rec) = <<>>
  BY <1>1 DEF SetupKey
<1>2. CASE KeyOf(rec) # <<>>
  <2>1. SetupKey(KeyOf(rec), old) = KeyWith(rec)
    BY <1>2 DEF SetupKey, KeyWith
  <2> QED
    BY <2>1, KeyWithTyped
<1> QED
  BY <1>1, <1>2

LEMMA NoKeyTyped == NoKey \in Words(KeyWords) /\ ShortKey(NoKey)
<1>1. <<>> \in Seq(Octet) /\ Len(<<>>) <= KeyBytes
  BY LimitsHold
<1>2. ASSUME NEW w \in 1..KeyWords PROVE WordOf(Cut(<<>>, w)) = 0
  <2>1. \A b \in 1..WordBytes : Cut(<<>>, w)[b] = 0
    BY DEF Cut, Byte
  <2>2. Cut(<<>>, w) \in [1..WordBytes -> Octet]
    BY <1>1, CutTyped DEF KeyWords
  <2> QED
    BY <2>1, <2>2, WordOfTyped
<1>3. ToWords(<<>>, KeyWords) = NoKey
  BY <1>2 DEF ToWords, Cut, PlaceOf, NoKey
<1> QED
  BY <1>1, <1>3, KeyTyped

LEMMA ErasedTyped == Erased \in Records
BY DEF Erased, Records, Octet

-----------------------------------------------------------------------------
(* The invariant: it holds at first ... *)
LEMMA InitInv == Init => CipherInv
<1> SUFFICES ASSUME Init PROVE CipherInv
  OBVIOUS
<1>1. <<>> \in Seq(Octet) /\ Len(<<>>) <= KeyBytes
  BY LimitsHold
<1>2. StateOK
  BY <1>1, NoKeyTyped, ErasedTyped DEF Init, StateOK
<1> QED
  BY <1>2 DEF Init, CipherInv, MadeOK, ReplyOK

(* ... and every step keeps it. *)
LEMMA NextState ==
  ASSUME StateOK, [Next]_vars
  PROVE  StateOK'
<1> USE DEF StateOK
<1>1. ASSUME ResetKey PROVE StateOK'
  BY <1>1 DEF ResetKey, Records
<1>2. ASSUME NEW key \in Keys, InitKey(key) PROVE StateOK'
  <2>1. record' \in Records
    BY <1>2 DEF InitKey, Records
  <2>2. key \in Seq(Octet)
    BY CipherAssumption, CharsAreOctets DEF Char
  <2>3. \A i \in 1..KeyBytes : Byte(key, i) \in Octet
    BY <2>2, ByteTyped
  <2> DEFINE w == [i \in 1..KeyBytes |-> Byte(key, i)]
  <2>4. w \in [1..KeyBytes -> Octet] /\ KeyBytes \in Nat
    BY <2>3, LimitsHold
  <2> HIDE DEF w
  <2>5. w \in Seq(Octet) /\ Len(w) <= KeyBytes
    BY <2>4
  <2>6. writing' = w /\ xxtea_key' = xxtea_key
    BY <1>2 DEF InitKey, w
  <2> QED
    BY <2>1, <2>5, <2>6
<1>3. ASSUME WriteByte PROVE StateOK'
  <2>1. /\ Len(writing) \in Nat /\ Head(writing) \in Octet
        /\ Tail(writing) \in Seq(Octet) /\ Len(Tail(writing)) = Len(writing) - 1
    BY <1>3 DEF WriteByte
  <2>2. record' \in Records
    BY <1>3, <2>1 DEF WriteByte, Records
  <2>3. Len(Tail(writing)) <= KeyBytes
    BY <2>1, LimitsHold
  <2> QED
    BY <1>3, <2>1, <2>2, <2>3 DEF WriteByte
<1>4. ASSUME NEW text \in Texts, EncString(text) PROVE StateOK'
  BY <1>4, SetupTyped DEF EncString
<1>5. ASSUME NEW n, DecString(n) PROVE StateOK'
  BY <1>5, SetupTyped DEF DecString
<1>6. ASSUME Restart PROVE StateOK'
  <2>1. <<>> \in Seq(Octet) /\ Len(<<>>) <= KeyBytes
    BY LimitsHold
  <2> QED
    BY <1>6, <2>1, NoKeyTyped DEF Restart
<1>7. ASSUME UNCHANGED vars PROVE StateOK'
  BY <1>7 DEF vars
<1> QED
  BY <1>1, <1>2, <1>3, <1>4, <1>5, <1>6, <1>7 DEF Next

LEMMA NextMade ==
  ASSUME StateOK, MadeOK, [Next]_vars
  PROVE  MadeOK'
<1>1. ASSUME made' = made PROVE MadeOK'
  BY <1>1 DEF MadeOK
<1>2. ASSUME NEW text \in Texts, EncString(text) PROVE MadeOK'
  <2> DEFINE key == SetupKey(KeyOf(record), xxtea_key)
  <2>1. text \in Seq(Char) /\ Len(text) \in 1..MaxText
    BY CipherAssumption DEF Char
  <2>2. made' = [of |-> text, is |-> Encrypt(text, key), record |-> record]
    BY <1>2 DEF EncString
  <2>3. key \in Words(KeyWords) /\ (KeyOf(record) # <<>> => key = KeyWith(record))
    BY SetupTyped DEF StateOK
  <2> HIDE DEF key
  <2>4. /\ Encrypt(text, key) \in Seq(Digits)
        /\ Len(Encrypt(text, key)) = 2 * (WordCount(Len(text)) * WordBytes)
    BY <2>1, <2>3, EncryptTyped
  <2>5. made'.of = text /\ made'.is = Encrypt(text, key) /\ made'.record = record
    BY <2>2
  <2>6. record \in Records
    BY DEF StateOK
  <2> QED
    BY <2>1, <2>3, <2>4, <2>5, <2>6 DEF MadeOK
<1>3. ResetKey \/ WriteByte \/ Restart \/ (\E key \in Keys : InitKey(key)) \/ (\E n : DecString(n))
      \/ UNCHANGED vars => made' = made
  BY DEF ResetKey, WriteByte, Restart, InitKey, DecString, vars
<1> QED
  BY <1>1, <1>2, <1>3 DEF Next

LEMMA NextReply ==
  ASSUME StateOK, MadeOK, ReplyOK, [Next]_vars
  PROVE  ReplyOK'
<1>1. ASSUME reply' = NoReply PROVE ReplyOK'
  BY <1>1 DEF ReplyOK, NoReply
<1>2. ASSUME NEW n \in {Len(made.is), Len(made.is) - 1}, DecString(n) PROVE ReplyOK'
  <2> DEFINE key == SetupKey(KeyOf(record), xxtea_key)
             h == SubSeq(made.is, 1, n)
  <2>1. made # NoneMade /\ made' = made /\ record' = record
    BY <1>2 DEF DecString
  <2>2. /\ made.is \in Seq(Digits) /\ Len(made.is) \in Nat /\ Len(made.is) <= 2 * MaxText
        /\ Len(made.is) >= 1
    <3>1. /\ made.is \in Seq(Digits) /\ Len(made.of) \in 1..MaxText
          /\ Len(made.is) = 2 * (WordCount(Len(made.of)) * WordBytes)
      BY <2>1 DEF MadeOK
    <3> DEFINE N == WordCount(Len(made.of)) * WordBytes
    <3>2. 1 <= Len(made.of) /\ Len(made.of) \in Nat /\ Len(made.of) <= N /\ N <= MaxText
      BY <3>1, CountFits, LimitsHold
    <3>3. N \in Nat
      BY <3>1, CountFits, BytesInWord
    <3> HIDE DEF N
    <3>4. Len(made.is) = 2 * N
      BY <3>1 DEF N
    <3> QED
      BY <3>1, <3>2, <3>3, <3>4, LimitsHold
  <2>3. h \in Seq(Digits) /\ Len(h) \in Nat /\ Len(h) <= Len(made.is)
    <3>1. n \in Nat /\ n <= Len(made.is)
      BY <2>2
    <3> QED
      BY <2>2, <3>1
  <2>4. key \in Words(KeyWords) /\ (KeyOf(record) # <<>> => key = KeyWith(record))
    BY SetupTyped DEF StateOK
  <2>5. reply' = [of |-> h, is |-> Decrypt(h, key)]
    BY <1>2 DEF DecString
  <2> HIDE DEF key, h
  <2>6. reply'.of = h /\ reply'.is = Decrypt(h, key)
    BY <2>5
  <2>7. Decrypt(h, key) # Fail => Len(Decrypt(h, key)) \in Nat /\ Len(Decrypt(h, key)) <= 2 * MaxText
    <3>1. ASSUME Decrypt(h, key) # Fail
          PROVE  Len(Decrypt(h, key)) \in Nat /\ Len(Decrypt(h, key)) <= Len(h)
      BY <2>3, <2>4, <3>1, DecryptFits
    <3> QED
      BY <2>2, <2>3, <3>1, LimitsHold
  <2> QED
    BY <2>1, <2>4, <2>6, <2>7 DEF ReplyOK
<1>3. ASSUME UNCHANGED vars PROVE ReplyOK'
  BY <1>3 DEF vars, ReplyOK
<1>4. ResetKey \/ WriteByte \/ Restart \/ (\E key \in Keys : InitKey(key))
      \/ (\E text \in Texts : EncString(text)) => reply' = NoReply
  BY DEF ResetKey, WriteByte, Restart, InitKey, EncString
<1> QED
  BY <1>1, <1>2, <1>3, <1>4 DEF Next

THEOREM Invariance == Spec => []CipherInv
<1>1. CipherInv /\ [Next]_vars => CipherInv'
  BY NextState, NextMade, NextReply DEF CipherInv
<1> QED
  BY InitInv, <1>1, PTL DEF Spec

(* The record, what is still to be written and the key in RAM have their    *)
(* types, and no key, not even one that was torn, reaches behind KeyBytes.  *)
THEOREM TypeCorrect == Spec => []TypeOK
<1>1. CipherInv => TypeOK
  BY DEF CipherInv, StateOK, TypeOK, Records, Words, ShortKey, Octet
<1> QED
  BY Invariance, <1>1, PTL

(* Under the key of the record, whatever came before and between, a string  *)
(* comes back as it was: for words of any size, any keys and strings.       *)
THEOREM StringsComeBack == Spec => []RoundTrip
<1>1. CipherInv => RoundTrip
  <2> SUFFICES ASSUME CipherInv, reply.of = made.is, reply.of # <<>>,
                      record = made.record, KeyOf(record) # <<>>
               PROVE  reply.is = made.of
    BY DEF RoundTrip
  <2>1. reply # NoReply
    BY DEF NoReply
  <2>2. made # NoneMade /\ reply.is = Decrypt(made.is, KeyWith(record))
    BY <2>1 DEF CipherInv, ReplyOK
  <2>3. /\ made.of \in Seq(Char) /\ Len(made.of) \in 1..MaxText
        /\ made.is = Encrypt(made.of, KeyWith(record))
    BY <2>2 DEF CipherInv, MadeOK
  <2>4. KeyWith(record) \in Words(KeyWords)
    BY KeyWithTyped DEF CipherInv, StateOK
  <2> QED
    BY <2>2, <2>3, <2>4, EncryptTyped
<1> QED
  BY Invariance, <1>1, PTL

(* Every string of digits fits dt_buf with its NUL, none is refused, and    *)
(* what it deciphers to fits as well.                                       *)
THEOREM RepliesFit == Spec => []ReplyFits
<1>1. CipherInv => ReplyFits
  <2> SUFFICES ASSUME CipherInv PROVE ReplyFits
    OBVIOUS
  <2>1. ASSUME made # NoneMade PROVE made.is # Fail /\ Len(made.is) < ReplyBytes
    <3>1. /\ made.is \in Seq(Digits) /\ Len(made.of) \in 1..MaxText
          /\ Len(made.is) = 2 * (WordCount(Len(made.of)) * WordBytes)
      BY <2>1 DEF CipherInv, MadeOK
    <3> DEFINE N == WordCount(Len(made.of)) * WordBytes
    <3>2. N <= MaxText /\ N \in Nat
      BY <3>1, CountFits, BytesInWord
    <3> HIDE DEF N
    <3>3. Len(made.is) = 2 * N
      BY <3>1 DEF N
    <3> QED
      BY <3>1, <3>2, <3>3, LimitsHold
  <2>2. ASSUME reply.is # Fail PROVE Len(reply.is) < ReplyBytes
    <3>1. CASE reply = NoReply
      <4>1. Len(reply.is) = 0
        BY <3>1 DEF NoReply
      <4> QED
        BY <4>1, LimitsHold
    <3>2. CASE reply # NoReply
      <4>1. Len(reply.is) \in Nat /\ Len(reply.is) <= 2 * MaxText
        BY <2>2, <3>2 DEF CipherInv, ReplyOK
      <4> QED
        BY <4>1, LimitsHold
    <3> QED
      BY <3>1, <3>2
  <2> QED
    BY <2>1, <2>2 DEF ReplyFits
<1> QED
  BY Invariance, <1>1, PTL

=============================================================================
