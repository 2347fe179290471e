-------------------------------- MODULE Xxtea --------------------------------
(***************************************************************************)
(* The block cipher of xxtea-lib: dtea_fn1 on words of WordBytes bytes,    *)
(* little-endian as on the AVR, and the buffers around it.  The code has   *)
(* WordBytes = 4; arithmetic is modulo the size of a word in every case.   *)
(***************************************************************************)
EXTENDS Naturals, Sequences, SequencesExt

CONSTANTS
  WordBytes,   \* bytes of a word: sizeof(uint32_t)
  DELTA        \* 0x9e3779b9, modulo the word

ASSUME WordAssumption == WordBytes \in Nat \ {0} /\ DELTA \in Nat

KeyWords == 4                  \* MAX_XXTEA_KEY32
WordBits == 8 * WordBytes

Power2[k \in 0..WordBits] == IF k = 0 THEN 1 ELSE 2 * Power2[k - 1]

WordSize == Power2[WordBits]
Word     == 0..(WordSize - 1)

plus(x, y)  == (x + y) % WordSize
minus(x, y) == (x + WordSize - y) % WordSize
shl(x, k)   == (x * Power2[k]) % WordSize
shr(x, k)   == x \div Power2[k]

(* x ^ y, from the lowest bit on: a bit of it is the sum of theirs modulo 2 *)
xor(x, y) ==
  LET low[k \in 0..WordBits] ==
        IF k = 0 THEN 0
        ELSE LET bit == Power2[k - 1]
             IN low[k - 1] + bit * (((x \div bit) + (y \div bit)) % 2)
  IN low[WordBits]

(* MX, for the key word k = key[(p & 3) ^ e] *)
MX(y, z, sum, k) ==
  xor(plus(xor(shr(z, 5), shl(y, 2)), xor(shr(y, 3), shl(z, 4))), plus(xor(sum, y), xor(k, z)))

KeyWord(key, p, sum) == key[xor(p % 4, shr(sum, 2) % 4) + 1]

(* What is added to word p of v: its neighbours are the words next to it,   *)
(* the last word being next to the first.                                   *)
Mixed(v, p, sum, key) ==
  LET n == Len(v)
      y == v[IF p = n THEN 1 ELSE p + 1]
      z == v[IF p = 1 THEN n ELSE p - 1]
  IN MX(y, z, sum, KeyWord(key, p - 1, sum))

CodeWord(v, p, sum, key)   == [v EXCEPT ![p] = plus(@, Mixed(v, p, sum, key))]
DecodeWord(v, p, sum, key) == [v EXCEPT ![p] = minus(@, Mixed(v, p, sum, key))]

(* One pass over the words, from the first to the last: each is changed by  *)
(* the word after it and the new value of the word before it.               *)
CodePass(v, sum, key) ==
  LET u[p \in 0..Len(v)] == IF p = 0 THEN v ELSE CodeWord(u[p - 1], p, sum, key)
  IN u[Len(v)]

(* The pass backwards, from the last to the first. *)
DecodePass(v, sum, key) ==
  LET u[i \in 0..Len(v)] ==
        IF i = 0 THEN v ELSE DecodeWord(u[i - 1], Len(v) + 1 - i, sum, key)
  IN u[Len(v)]

Rounds(n)   == 6 + 52 \div n
SumAfter(r) == (r * DELTA) % WordSize

(* dtea_fn1 with n > 0 and with n < 0: a single word stays as it is. *)
Code(v, key) ==
  LET u[r \in 0..Rounds(Len(v))] == IF r = 0 THEN v ELSE CodePass(u[r - 1], SumAfter(r), key)
  IN IF Len(v) < 2 THEN v ELSE u[Rounds(Len(v))]

Decode(v, key) ==
  LET u[i \in 0..Rounds(Len(v))] ==
        IF i = 0 THEN v ELSE DecodePass(u[i - 1], SumAfter(Rounds(Len(v)) + 1 - i), key)
  IN IF Len(v) < 2 THEN v ELSE u[Rounds(Len(v))]

-----------------------------------------------------------------------------
(* Bytes in words. *)

(* Mutant: always one word more than the whole ones. *)
WordCountMutant(len) == len \div WordBytes + 1

(* UINT32CALCBYTE *)
WordCount(len) == (len + WordBytes - 1) \div WordBytes

(* A word and its bytes: the lowest comes first. *)
WordOf(d) ==
  LET high[b \in 0..WordBytes] == IF b = 0 THEN 0 ELSE high[b - 1] * 256 + d[WordBytes + 1 - b]
  IN high[WordBytes]

ByteOf(x, b) ==
  LET high[i \in 0..WordBytes] == IF i = 0 THEN x ELSE high[i - 1] \div 256
  IN high[b - 1] % 256

Byte(s, i) == IF i \in DOMAIN s THEN s[i] ELSE 0

(* memset and memcpy into a buffer of n words, and out of one *)
ToWords(s, n) ==
  [w \in 1..n |-> WordOf([b \in 1..WordBytes |-> Byte(s, (w - 1) * WordBytes + b)])]

ToBytes(v) ==
  [i \in 1..Len(v) * WordBytes |->
     ByteOf(v[((i - 1) \div WordBytes) + 1], ((i - 1) % WordBytes) + 1)]

(* A C string ends before its first NUL. *)
FirstNul(s) == CHOOSE n \in DOMAIN s : s[n] = 0 /\ \A i \in 1..(n - 1) : s[i] # 0

CString(s) == IF 0 \in Range(s) THEN SubSeq(s, 1, FirstNul(s) - 1) ELSE s

(* tohex and c2h: a string of hex digits, two for each byte *)
ToHex(s) == [i \in 1..2 * Len(s) |-> IF i % 2 = 1 THEN s[(i + 1) \div 2] \div 16
                                                 ELSE s[i \div 2] % 16]
FromHex(h) == [i \in 1..Len(h) \div 2 |-> h[2 * i - 1] * 16 + h[2 * i]]

=============================================================================
