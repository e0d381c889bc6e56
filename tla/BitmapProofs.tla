---------------------------- MODULE BitmapProofs ----------------------------
(***************************************************************************)
(* The word by word operations of utils/bitmap compute operations on sets, *)
(* for words of any width and operands of any two lengths.                 *)
(***************************************************************************)
EXTENDS BitmapCalls, SequenceTheorems, WellFoundedInduction, TLAPS

-----------------------------------------------------------------------------
(* Positions and words.                                                    *)

(* Division by a width.                                                    *)
LEMMA Quotient ==
  ASSUME NEW n \in Nat, NEW w \in Nat \ {0}
  PROVE  /\ n \div w \in Nat /\ n % w \in 0 .. (w - 1)
         /\ n = w * (n \div w) + (n % w)
OBVIOUS

(* The numbers below w * k are those with a quotient below k.              *)
LEMMA QuotientBound ==
  ASSUME NEW n \in Nat, NEW k \in Nat, NEW w \in Nat \ {0}
  PROVE  n < w * k <=> n \div w < k
<1> DEFINE q == n \div w
           r == n % w
<1>1. q \in Nat /\ r \in 0 .. (w - 1) /\ n = w * q + r
  BY Quotient
<1> HIDE DEF q, r
<1>2. CASE q < k
  <2>1. PICK d \in Nat : k = q + 1 + d
    <3>1. k - q - 1 \in Nat /\ k = q + 1 + (k - q - 1)
      BY <1>1, <1>2
    <3> QED BY <3>1
  <2>2. w * k = w * q + w + w * d /\ w * d \in Nat
    BY <1>1, <2>1
  <2> QED BY <1>1, <1>2, <2>2 DEF q
<1>3. CASE q >= k
  <2>1. PICK d \in Nat : q = k + d
    <3>1. q - k \in Nat /\ q = k + (q - k)
      BY <1>1, <1>3
    <3> QED BY <3>1
  <2>2. w * q = w * k + w * d /\ w * d \in Nat
    BY <1>1, <2>1
  <2> QED BY <1>1, <1>3, <2>2 DEF q
<1> QED BY <1>1, <1>2, <1>3

(* A longer bitmap has at least as many words.                             *)
LEMMA WordsGrow ==
  ASSUME NEW n \in Nat, NEW k \in Nat, n <= k
  PROVE  Words(n) \in Nat /\ Words(k) \in Nat /\ Words(n) <= Words(k)
<1>1. W \in Nat \ {0}
  BY WidthAssumption
<1>2. n + W - 1 \in Nat /\ k + W - 1 \in Nat /\ n + W - 1 <= k + W - 1
  BY <1>1
<1>3. Words(n) \in Nat /\ Words(k) \in Nat
  BY <1>1, <1>2, Quotient DEF Words
<1>4. k + W - 1 < W * (Words(k) + 1)
  BY <1>1, <1>2, <1>3, QuotientBound DEF Words
<1>5. n + W - 1 < W * (Words(k) + 1)
  <2>1. W * (Words(k) + 1) \in Nat
    BY <1>1, <1>3
  <2> QED BY <1>2, <1>4, <2>1
<1>6. Words(n) < Words(k) + 1
  BY <1>1, <1>2, <1>3, <1>5, QuotientBound DEF Words
<1> QED BY <1>3, <1>6

(* The bits of a bitmap that has as many words as its length needs.        *)
LEMMA BitsMeans ==
  ASSUME NEW c, NEW k \in Nat, c.bits \in [1 .. k -> SUBSET (0 .. (W - 1))]
  PROVE  /\ Len(c.bits) = k /\ DOMAIN c.bits = 1 .. k
         /\ BitsOf(c) \subseteq Nat
         /\ \A n \in Nat : n \in BitsOf(c) <=> /\ n \div W + 1 \in 1 .. k
                                               /\ n % W \in c.bits[n \div W + 1]
<1>1. DOMAIN c.bits = 1 .. k
  OBVIOUS
<1>2. c.bits \in Seq(SUBSET (0 .. (W - 1))) /\ Len(c.bits) = k
  BY <1>1
<1>3. W * k \in Nat
  BY WidthAssumption
<1>4. BitsOf(c) \subseteq Nat
  BY <1>2, <1>3 DEF BitsOf
<1>5. ASSUME NEW n \in Nat
      PROVE  n \in BitsOf(c) <=> /\ n \div W + 1 \in 1 .. k
                                 /\ n % W \in c.bits[n \div W + 1]
  <2>1. n \in 0 .. (W * k - 1) <=> n < W * k
    BY <1>3
  <2>2. n \div W + 1 \in 1 .. k <=> n \div W < k
    <3>1. \A q \in Nat : q + 1 \in 1 .. k <=> q < k
      OBVIOUS
    <3>2. n \div W \in Nat
      BY Quotient, WidthAssumption
    <3> QED BY <3>1, <3>2, Zenon
  <2>3. n < W * k <=> n \div W < k
    BY QuotientBound, WidthAssumption
  <2>4. n \in BitsOf(c) <=> n \in 0 .. (W * k - 1) /\ n % W \in c.bits[n \div W + 1]
    <3>1. BitsOf(c) = {j \in 0 .. (W * k - 1) : (j % W) \in c.bits[j \div W + 1]}
      BY <1>2, Zenon DEF BitsOf
    <3> QED BY <3>1, Zenon
  <2> QED BY <2>1, <2>2, <2>3, <2>4
<1> QED BY <1>1, <1>2, <1>4, <1>5

(* Bit x of word i is set.                                                 *)
WordBit(c, i, x) == i \in 1 .. Words(c.len) /\ x \in c.bits[i]

WordsOf(n) == [1 .. Words(n) -> SUBSET (0 .. (W - 1))]

(* A well formed bitmap in these terms.                                    *)
LEMMA WordBits ==
  ASSUME NEW c, WellFormed(c)
  PROVE  /\ c.len \in Nat /\ Words(c.len) \in Nat /\ c.bits \in WordsOf(c.len)
         /\ Len(c.bits) = Words(c.len) /\ DOMAIN c.bits = 1 .. Words(c.len)
         /\ BitsOf(c) \subseteq Nat
         /\ \A p \in Nat : p \in BitsOf(c) <=> WordBit(c, p \div W + 1, p % W)
<1>1. c.len \in Nat /\ Words(c.len) \in Nat /\ c.bits \in WordsOf(c.len)
  BY WordsGrow DEF WellFormed, WordsOf
<1> QED BY <1>1, BitsMeans DEF WordsOf, WordBit

(* A result is well formed if its words are, and if its bits are those of  *)
(* a set of positions below its length.                                    *)
LEMMA Result ==
  ASSUME NEW r, r.len \in Nat, r.bits \in WordsOf(r.len), NEW S \in SUBSET (0 .. (r.len - 1)),
         \A p \in Nat : p \in S <=> WordBit(r, p \div W + 1, p % W)
  PROVE  WellFormed(r) /\ BitsOf(r) = S
<1>1. Words(r.len) \in Nat /\ S \subseteq Nat
  BY WordsGrow
<1>2. /\ BitsOf(r) \subseteq Nat
      /\ \A p \in Nat : p \in BitsOf(r) <=> WordBit(r, p \div W + 1, p % W)
  BY <1>1, BitsMeans DEF WordsOf, WordBit
<1>3. BitsOf(r) = S
  BY <1>1, <1>2, Zenon
<1> QED BY <1>3 DEF WellFormed, WordsOf

-----------------------------------------------------------------------------
(* The loops.                                                              *)

(* The shorter of two bitmaps has no word that the longer has not.         *)
LEMMA LongerShorter ==
  ASSUME NEW c, NEW m, WellFormed(c), WellFormed(m)
  PROVE  /\ common(c, m) = 1 .. Words(minOf(c, m).len)
         /\ \/ /\ maxOf(c, m) = c /\ minOf(c, m) = m /\ m.len <= c.len
               /\ Words(m.len) <= Words(c.len)
            \/ /\ maxOf(c, m) = m /\ minOf(c, m) = c /\ c.len < m.len
               /\ Words(c.len) <= Words(m.len)
<1>1. c.len \in Nat /\ m.len \in Nat
  BY WordBits
<1>2. \/ maxOf(c, m) = c /\ minOf(c, m) = m /\ m.len <= c.len
      \/ maxOf(c, m) = m /\ minOf(c, m) = c /\ c.len < m.len
  BY <1>1 DEF maxOf, minOf
<1>3. common(c, m) = 1 .. Words(minOf(c, m).len)
  BY <1>2, WordBits DEF common
<1> QED BY <1>1, <1>2, <1>3, WordsGrow

(* The words g of a new bitmap, the first of which are then assigned.      *)
LEMMA AssignedWords ==
  ASSUME NEW n \in Nat, NEW j \in Nat, j <= Words(n),
         NEW g \in WordsOf(n), NEW f \in [1 .. j -> SUBSET (0 .. (W - 1))],
         NEW r, r.len = n, r.bits = assigned(g, f)
  PROVE  /\ r.bits \in WordsOf(r.len)
         /\ \A i, x : WordBit(r, i, x) <=>
              IF i \in 1 .. j THEN x \in f[i] ELSE i \in 1 .. Words(n) /\ x \in g[i]
<1> DEFINE k == Words(n)
<1>1. k \in Nat /\ g \in [1 .. k -> SUBSET (0 .. (W - 1))]
  BY WordsGrow DEF WordsOf
<1>2. 1 .. k \cup 1 .. j = 1 .. k /\ 1 .. j \subseteq 1 .. k
  BY <1>1
<1>3. r.bits = [i \in 1 .. k |-> IF i \in 1 .. j THEN f[i] ELSE g[i]]
  BY <1>1, <1>2 DEF assigned
<1> HIDE DEF k
<1>4. r.bits \in [1 .. k -> SUBSET (0 .. (W - 1))]
  BY <1>1, <1>2, <1>3
<1>5. \A i, x : (i \in 1 .. k /\ x \in r.bits[i]) <=>
        IF i \in 1 .. j THEN x \in f[i] ELSE i \in 1 .. k /\ x \in g[i]
  BY <1>2, <1>3
<1> QED BY <1>4, <1>5 DEF WordsOf, WordBit, k

(* copied gives all words of a bitmap, when there is room for them.        *)
LEMMA CopiedWords ==
  ASSUME NEW c, WellFormed(c)
  PROVE  copied(c.len, c.bits) = c.bits
<1>1. Len(c.bits) = Words(c.len) /\ c.bits \in [1 .. Words(c.len) -> SUBSET (0 .. (W - 1))]
      /\ Words(c.len) \in Nat
  BY WordBits DEF WordsOf
<1>2. copied(c.len, c.bits) = [i \in 1 .. Words(c.len) |-> c.bits[i]]
  BY <1>1 DEF copied
<1> QED BY <1>1, <1>2

(* The words of a new bitmap.                                              *)
LEMMA EmptyWords ==
  ASSUME NEW n \in Nat
  PROVE  /\ genBitmap(n) \in WordsOf(n)
         /\ \A i \in 1 .. Words(n) : genBitmap(n)[i] = {}
BY DEF genBitmap, WordsOf

(* The loop of Or and Xor: beyond the words of the shorter operand the     *)
(* result is the longer.                                                   *)
LEMMA LoopOverLonger ==
  ASSUME NEW c, NEW m, WellFormed(c), WellFormed(m),
         NEW f \in [common(c, m) -> SUBSET (0 .. (W - 1))],
         NEW r, r = [len  |-> maxOf(c, m).len,
                     bits |-> assigned(copied(maxOf(c, m).len, maxOf(c, m).bits), f)]
  PROVE  /\ r.len = maxOf(c, m).len /\ r.len \in Nat /\ r.bits \in WordsOf(r.len)
         /\ BitsOf(c) \cup BitsOf(m) \subseteq 0 .. (r.len - 1)
         /\ \A i, x : WordBit(r, i, x) <=> IF i \in common(c, m) THEN x \in f[i]
                                          ELSE WordBit(c, i, x) \/ WordBit(m, i, x)
         /\ \A i \in common(c, m) : /\ i \in 1 .. Words(c.len) /\ i \in 1 .. Words(m.len)
<1> DEFINE n == maxOf(c, m).len
           j == Words(minOf(c, m).len)
           g == copied(n, maxOf(c, m).bits)
<1>1. common(c, m) = 1 .. j
  BY LongerShorter
<1>2. /\ c.len \in Nat /\ Words(c.len) \in Nat /\ c.bits \in WordsOf(c.len)
      /\ m.len \in Nat /\ Words(m.len) \in Nat /\ m.bits \in WordsOf(m.len)
  BY WordBits
<1>3. \/ /\ n = c.len /\ j = Words(m.len) /\ g = c.bits /\ m.len <= c.len
         /\ Words(m.len) <= Words(c.len)
      \/ /\ n = m.len /\ j = Words(c.len) /\ g = m.bits /\ c.len <= m.len
         /\ Words(c.len) <= Words(m.len)
  BY <1>2, LongerShorter, CopiedWords
<1>4. r.len = n /\ r.bits = assigned(g, f)
  OBVIOUS
<1> HIDE DEF n, j, g
<1>5. n \in Nat /\ j \in Nat /\ j <= Words(n) /\ g \in WordsOf(n)
  BY <1>2, <1>3
<1>6. /\ r.bits \in WordsOf(r.len)
      /\ \A i, x : WordBit(r, i, x) <=>
           IF i \in 1 .. j THEN x \in f[i] ELSE i \in 1 .. Words(n) /\ x \in g[i]
  BY <1>1, <1>4, <1>5, AssignedWords
<1>7. \A i, x : i \notin 1 .. j =>
        ((i \in 1 .. Words(n) /\ x \in g[i]) <=> WordBit(c, i, x) \/ WordBit(m, i, x))
  BY <1>3 DEF WordBit
<1>8. \A i \in 1 .. j : i \in 1 .. Words(c.len) /\ i \in 1 .. Words(m.len)
  BY <1>2, <1>3
<1>9. BitsOf(c) \cup BitsOf(m) \subseteq 0 .. (n - 1)
  BY <1>2, <1>3 DEF WellFormed
<1> QED BY <1>1, <1>4, <1>5, <1>6, <1>7, <1>8, <1>9 DEF n

(* The words over which a loop runs are words of both operands.            *)
LEMMA CommonWords ==
  ASSUME NEW c, NEW m, WellFormed(c), WellFormed(m), NEW i \in common(c, m)
  PROVE  c.bits[i] \in SUBSET (0 .. (W - 1)) /\ m.bits[i] \in SUBSET (0 .. (W - 1))
<1>1. /\ Words(c.len) \in Nat /\ c.bits \in WordsOf(c.len)
      /\ Words(m.len) \in Nat /\ m.bits \in WordsOf(m.len)
  BY WordBits
<1>2. i \in 1 .. Words(c.len) /\ i \in 1 .. Words(m.len)
  BY <1>1, LongerShorter
<1> QED BY <1>1, <1>2 DEF WordsOf

-----------------------------------------------------------------------------
(* The operations.                                                         *)

(* Or: the union, as long as the longer operand.                           *)
LEMMA OrIsUnion ==
  ASSUME NEW c, NEW m, WellFormed(c), WellFormed(m)
  PROVE  /\ WellFormed(Or(c, m)) /\ Or(c, m).len = maxOf(c, m).len
         /\ BitsOf(Or(c, m)) = BitsOf(c) \cup BitsOf(m)
<1> DEFINE f == [i \in common(c, m) |-> c.bits[i] \cup m.bits[i]]
           r == Or(c, m)
<1>1. f \in [common(c, m) -> SUBSET (0 .. (W - 1))]
  BY CommonWords
<1>2. r = [len  |-> maxOf(c, m).len,
           bits |-> assigned(copied(maxOf(c, m).len, maxOf(c, m).bits), f)]
  BY DEF Or
<1>3. \A i \in common(c, m) : f[i] = c.bits[i] \cup m.bits[i]
  OBVIOUS
<1> HIDE DEF f, r
<1>4. /\ r.len = maxOf(c, m).len /\ r.len \in Nat /\ r.bits \in WordsOf(r.len)
      /\ BitsOf(c) \cup BitsOf(m) \subseteq 0 .. (r.len - 1)
      /\ \A i, x : WordBit(r, i, x) <=> IF i \in common(c, m) THEN x \in f[i]
                                       ELSE WordBit(c, i, x) \/ WordBit(m, i, x)
      /\ \A i \in common(c, m) : i \in 1 .. Words(c.len) /\ i \in 1 .. Words(m.len)
  BY <1>1, <1>2, LoopOverLonger
<1>5. \A i, x : WordBit(r, i, x) <=> WordBit(c, i, x) \/ WordBit(m, i, x)
  BY <1>3, <1>4 DEF WordBit
<1>6. \A p \in Nat : p \in BitsOf(c) \cup BitsOf(m) <=> WordBit(r, p \div W + 1, p % W)
  BY <1>5, WordBits, Zenon
<1>7. WellFormed(r) /\ BitsOf(r) = BitsOf(c) \cup BitsOf(m)
  BY <1>4, <1>6, Result
<1> QED BY <1>4, <1>7 DEF r

(* Xor: what is in one of them only, as long as the longer operand.        *)
LEMMA XorIsDifference ==
  ASSUME NEW c, NEW m, WellFormed(c), WellFormed(m)
  PROVE  /\ WellFormed(Xor(c, m)) /\ Xor(c, m).len = maxOf(c, m).len
         /\ BitsOf(Xor(c, m)) = (BitsOf(c) \ BitsOf(m)) \cup (BitsOf(m) \ BitsOf(c))
<1> DEFINE f == [i \in common(c, m) |-> SymDiff(c.bits[i], m.bits[i])]
           r == Xor(c, m)
<1>1. f \in [common(c, m) -> SUBSET (0 .. (W - 1))]
  BY CommonWords DEF SymDiff
<1>2. r = [len  |-> maxOf(c, m).len,
           bits |-> assigned(copied(maxOf(c, m).len, maxOf(c, m).bits), f)]
  BY DEF Xor
<1>3. \A i \in common(c, m) : f[i] = SymDiff(c.bits[i], m.bits[i])
  OBVIOUS
<1> HIDE DEF f, r
<1>4. /\ r.len = maxOf(c, m).len /\ r.len \in Nat /\ r.bits \in WordsOf(r.len)
      /\ BitsOf(c) \cup BitsOf(m) \subseteq 0 .. (r.len - 1)
      /\ \A i, x : WordBit(r, i, x) <=> IF i \in common(c, m) THEN x \in f[i]
                                       ELSE WordBit(c, i, x) \/ WordBit(m, i, x)
      /\ \A i \in common(c, m) : i \in 1 .. Words(c.len) /\ i \in 1 .. Words(m.len)
  BY <1>1, <1>2, LoopOverLonger
<1>5. \A i, x : WordBit(r, i, x) <=> /\ WordBit(c, i, x) \/ WordBit(m, i, x)
                                     /\ ~(WordBit(c, i, x) /\ WordBit(m, i, x))
  <2>1. \A i : i \in 1 .. Words(c.len) /\ i \in 1 .. Words(m.len) => i \in common(c, m)
    BY LongerShorter, WordBits
  <2> QED BY <1>3, <1>4, <2>1 DEF WordBit, SymDiff
<1>6. \A p \in Nat : p \in (BitsOf(c) \ BitsOf(m)) \cup (BitsOf(m) \ BitsOf(c))
                       <=> WordBit(r, p \div W + 1, p % W)
  BY <1>5, WordBits, Zenon
<1>7. WellFormed(r) /\ BitsOf(r) = (BitsOf(c) \ BitsOf(m)) \cup (BitsOf(m) \ BitsOf(c))
  BY <1>4, <1>6, Result
<1> QED BY <1>4, <1>7 DEF r

(* And: the intersection, as long as the shorter operand.                  *)
LEMMA AndIsIntersection ==
  ASSUME NEW c, NEW m, WellFormed(c), WellFormed(m)
  PROVE  /\ WellFormed(And(c, m)) /\ And(c, m).len = minOf(c, m).len
         /\ BitsOf(And(c, m)) = BitsOf(c) \cap BitsOf(m)
<1> DEFINE n == minOf(c, m).len
           f == [i \in common(c, m) |-> c.bits[i] \cap m.bits[i]]
           r == And(c, m)
<1>1. common(c, m) = 1 .. Words(n) /\ n \in Nat /\ Words(n) \in Nat
  BY LongerShorter, WordBits
<1>2. \A i : i \in 1 .. Words(n) <=> i \in 1 .. Words(c.len) /\ i \in 1 .. Words(m.len)
  BY LongerShorter, WordBits
<1>3. f \in [1 .. Words(n) -> SUBSET (0 .. (W - 1))]
  BY <1>1, <1>2, WordBits DEF WordsOf
<1>4. r.len = n /\ r.bits = assigned(genBitmap(n), f)
  BY DEF And
<1>5. \A i \in 1 .. Words(n) : f[i] = c.bits[i] \cap m.bits[i]
  BY <1>1
<1> HIDE DEF f, r
<1>6. /\ r.bits \in WordsOf(r.len)
      /\ \A i, x : WordBit(r, i, x) <=>
           IF i \in 1 .. Words(n) THEN x \in f[i] ELSE i \in 1 .. Words(n) /\ x \in genBitmap(n)[i]
  BY <1>1, <1>3, <1>4, EmptyWords, AssignedWords
<1>7. \A i, x : WordBit(r, i, x) <=> WordBit(c, i, x) /\ WordBit(m, i, x)
  BY <1>2, <1>5, <1>6 DEF WordBit
<1>8. \A p \in Nat : p \in BitsOf(c) \cap BitsOf(m) <=> WordBit(r, p \div W + 1, p % W)
  BY <1>7, WordBits, Zenon
<1>9. BitsOf(c) \cap BitsOf(m) \subseteq 0 .. (n - 1)
  BY LongerShorter DEF WellFormed
<1>10. WellFormed(r) /\ BitsOf(r) = BitsOf(c) \cap BitsOf(m)
  BY <1>1, <1>4, <1>6, <1>8, <1>9, Result
<1> QED BY <1>4, <1>10 DEF r

(* Axor: what is in the first only, as long as the first.                  *)
LEMMA AxorIsDifference ==
  ASSUME NEW c, NEW m, WellFormed(c), WellFormed(m)
  PROVE  /\ WellFormed(Axor(c, m)) /\ Axor(c, m).len = c.len
         /\ BitsOf(Axor(c, m)) = BitsOf(c) \ BitsOf(m)
<1> DEFINE n == c.len
           j == Words(minOf(c, m).len)
           f == [i \in common(c, m) |-> SymDiff(c.bits[i], m.bits[i]) \cap c.bits[i]]
           g == IF c.len = maxOf(c, m).len THEN copied(n, c.bits) ELSE genBitmap(n)
           r == Axor(c, m)
<1>1. /\ common(c, m) = 1 .. j /\ n \in Nat /\ Words(n) \in Nat /\ j \in Nat
      /\ j <= Words(n)
  BY LongerShorter, WordBits
<1>2. \A i : i \in 1 .. j <=> i \in 1 .. Words(c.len) /\ i \in 1 .. Words(m.len)
  BY LongerShorter, WordBits
<1>3. f \in [1 .. j -> SUBSET (0 .. (W - 1))]
  BY <1>1, <1>2, WordBits DEF WordsOf
<1>4. r.len = n /\ r.bits = assigned(g, f)
  BY LongerShorter, WordBits DEF Axor
<1>5. \A i \in 1 .. j : f[i] = c.bits[i] \ m.bits[i]
  BY <1>1 DEF SymDiff
<1>6. /\ g \in WordsOf(n)
      /\ \A i \in 1 .. Words(n) : i \notin 1 .. j => g[i] = c.bits[i]
  <2>1. CASE c.len = maxOf(c, m).len
    BY <2>1, CopiedWords, WordBits
  <2>2. CASE c.len # maxOf(c, m).len
    <3>1. j = Words(n)
      BY <2>2, LongerShorter, WordBits
    <3> QED BY <1>1, <2>2, <3>1, EmptyWords
  <2> QED BY <2>1, <2>2
<1> HIDE DEF f, g, r
<1>7. /\ r.bits \in WordsOf(r.len)
      /\ \A i, x : WordBit(r, i, x) <=>
           IF i \in 1 .. j THEN x \in f[i] ELSE i \in 1 .. Words(n) /\ x \in g[i]
  BY <1>1, <1>3, <1>4, <1>6, AssignedWords
<1>8. \A i, x : WordBit(r, i, x) <=> WordBit(c, i, x) /\ ~WordBit(m, i, x)
  BY <1>2, <1>5, <1>6, <1>7 DEF WordBit
<1>9. \A p \in Nat : p \in BitsOf(c) \ BitsOf(m) <=> WordBit(r, p \div W + 1, p % W)
  BY <1>8, WordBits, Zenon
<1>10. BitsOf(c) \ BitsOf(m) \subseteq 0 .. (n - 1)
  BY DEF WellFormed
<1>11. WellFormed(r) /\ BitsOf(r) = BitsOf(c) \ BitsOf(m)
  BY <1>1, <1>4, <1>7, <1>9, <1>10, Result
<1> QED BY <1>4, <1>11 DEF r

(* A bitmap made for a length is empty.                                    *)
LEMMA NewIsEmpty ==
  ASSUME NEW n \in Nat
  PROVE  /\ WellFormed(NewBitmapOfLen(n)) /\ NewBitmapOfLen(n).len = n
         /\ BitsOf(NewBitmapOfLen(n)) = {}
<1> DEFINE r == NewBitmapOfLen(n)
<1>1. r.len = n /\ r.bits = genBitmap(n)
  BY DEF NewBitmapOfLen
<1> HIDE DEF r
<1>2. \A i, x : ~WordBit(r, i, x)
  BY <1>1, EmptyWords DEF WordBit
<1>3. WellFormed(r) /\ BitsOf(r) = {}
  BY <1>1, <1>2, EmptyWords, Result
<1> QED BY <1>1, <1>3 DEF r

-----------------------------------------------------------------------------
(* Hexadecimal strings.                                                    *)

(* Every nonempty set of numbers has a smallest one.                       *)
LEMMA Smallest ==
  ASSUME NEW T \in SUBSET Nat, T # {}
  PROVE  \E x \in T : \A y \in T : x <= y
<1> DEFINE R == OpToRel(<, Nat)
<1>1. IsWellFoundedOn(R, Nat)
  BY NatLessThanWellFounded
<1>2. \A x, y \in Nat : x < y => <<x, y>> \in R
  BY DEF OpToRel
<1> HIDE DEF R
<1>3. PICK x \in T : \A y \in T : ~(<<y, x>> \in R)
  BY <1>1, WFMin
<1>4. \A y \in T : ~(y < x)
  BY <1>2, <1>3
<1> QED BY <1>3, <1>4

(* A word below W is written with at most W binary digits.                 *)
LEMMA DigitsOfWord ==
  ASSUME NEW v \in SUBSET (0 .. (W - 1))
  PROVE  DigitsIn(v) \in 1 .. W /\ \A y \in v : y < DigitsIn(v)
<1>1. W \in Nat \ {0}
  BY WidthAssumption
<1>2. CASE v = {}
  BY <1>1, <1>2 DEF DigitsIn
<1>3. CASE v # {}
  <2> DEFINE T == {n \in Nat : \A y \in v : n >= y}
  <2>1. W - 1 \in T
    BY <1>1
  <2>2. PICK n \in T : \A x \in T : n <= x
    <3> HIDE DEF T
    <3>1. T \in SUBSET Nat
      BY DEF T
    <3> QED BY <2>1, <3>1, Smallest
  <2>3. n \in v
    <3> SUFFICES ASSUME n \notin v PROVE FALSE
      OBVIOUS
    <3>1. \A y \in v : y \in Nat /\ n > y
      BY <1>1, <2>2
    <3>2. n \in Nat /\ \A x \in Nat : (\A y \in v : x >= y) => n <= x
      BY <2>2
    <3>3. PICK z \in v : TRUE
      BY <1>3
    <3>4. n - 1 \in Nat
      BY <3>1, <3>2, <3>3
    <3>5. \A y \in v : n - 1 >= y
      BY <3>1, <3>2
    <3> HIDE DEF T
    <3>6. n <= n - 1
      BY <3>2, <3>4, <3>5
    <3> QED BY <3>2, <3>6
  <2>4. \A y \in v : n >= y
    BY <2>2
  <2>5. Max(v) \in v /\ \A y \in v : Max(v) >= y
    <3>1. \E x \in v : \A y \in v : x >= y
      BY <2>3, <2>4
    <3> QED BY <3>1, Zenon DEF Max
  <2> DEFINE mx == Max(v)
  <2>6. DigitsIn(v) = mx + 1
    BY <1>3 DEF DigitsIn
  <2>7. mx \in v /\ \A y \in v : mx >= y
    BY <2>5
  <2> HIDE DEF mx
  <2>8. mx \in 0 .. (W - 1) /\ \A y \in v : y \in 0 .. (W - 1)
    BY <2>7
  <2>9. mx + 1 \in 1 .. W /\ \A y \in v : y < mx + 1
    BY <1>1, <2>7, <2>8
  <2> QED BY <2>6, <2>9
<1> QED BY <1>2, <1>3

(* How many hexadecimal digits FormatHex writes.                           *)
HexDigits(v, n) == Max({n, (DigitsIn(v) + D - 1) \div D})

(* They are enough for every bit of the word, and no more than a word has, *)
(* unless more are asked for.                                              *)
LEMMA HexDigitsEnough ==
  ASSUME NEW v \in SUBSET (0 .. (W - 1)), NEW n \in Nat \ {0}
  PROVE  /\ HexDigits(v, n) \in Nat \ {0}
         /\ \A y \in v : y \div D < HexDigits(v, n)
         /\ n <= Digits => HexDigits(v, n) <= Digits
         /\ Digits \in Nat \ {0} /\ W = D * Digits
<1> DEFINE e == DigitsIn(v)
           k == (e + D - 1) \div D
           l == HexDigits(v, n)
<1>1. D \in Nat \ {0} /\ W \in Nat \ {0} /\ W % D = 0
  BY WidthAssumption
<1>2. Digits \in Nat /\ W = D * Digits
  BY <1>1, Quotient DEF Digits
<1>3. Digits # 0
  BY <1>1, <1>2
<1>4. e \in 1 .. W /\ \A y \in v : y \in Nat /\ y < e
  BY <1>1, DigitsOfWord
<1> HIDE DEF e
<1>5. e + D - 1 \in Nat
  BY <1>1, <1>4
<1>6. k \in Nat
  BY <1>1, <1>5, Quotient
<1>7. e + D - 1 < D * (k + 1)
  BY <1>1, <1>5, <1>6, QuotientBound
<1>8. D * (k + 1) = D * k + D /\ D * k \in Nat /\ D * (Digits + 1) = D * Digits + D
  BY <1>1, <1>2, <1>6
<1>9. \A y \in v : y \div D < k
  <2> SUFFICES ASSUME NEW y \in v PROVE y \div D < k
    OBVIOUS
  <2>1. y \in Nat /\ y < D * k
    BY <1>1, <1>4, <1>7, <1>8
  <2> QED BY <1>1, <1>6, <2>1, QuotientBound
<1>10. k <= Digits
  <2>1. e + D - 1 < D * (Digits + 1)
    BY <1>1, <1>2, <1>4, <1>8
  <2>2. k < Digits + 1
    BY <1>1, <1>2, <1>5, <2>1, QuotientBound
  <2> QED BY <1>2, <1>6, <2>2
<1>11. l = Max({n, k})
  BY DEF HexDigits, e
<1> HIDE DEF k, l
<1>12. l \in {n, k} /\ l >= n /\ l >= k
  <2>1. \E x \in {n, k} : \A y \in {n, k} : x >= y
    BY <1>6
  <2>2. Max({n, k}) \in {n, k} /\ \A y \in {n, k} : Max({n, k}) >= y
    BY <2>1, Zenon DEF Max
  <2> QED BY <1>11, <2>2
<1>13. \A y \in v : y \div D < l
  <2>1. \A y \in v : y \div D \in Nat
    BY <1>1, <1>4, Quotient
  <2> QED BY <1>6, <1>9, <1>12, <2>1
<1> QED BY <1>2, <1>3, <1>6, <1>10, <1>12, <1>13 DEF l

(* A word that is printed and parsed is the same word.                     *)
LEMMA WordReadBack ==
  ASSUME NEW v \in SUBSET (0 .. (W - 1)), NEW n \in Nat \ {0}
  PROVE  /\ ParseUint(FormatHex(v, n)) = v
         /\ DOMAIN FormatHex(v, n) = 1 .. HexDigits(v, n)
         /\ FormatHex(v, n) \in Seq(SUBSET (0 .. (D - 1)))
         /\ Len(FormatHex(v, n)) = HexDigits(v, n)
<1> DEFINE l == HexDigits(v, n)
           s == FormatHex(v, n)
<1>1. l \in Nat \ {0} /\ \A y \in v : y \div D < l
  BY HexDigitsEnough
<1>2. D \in Nat \ {0} /\ W \in Nat \ {0}
  BY WidthAssumption
<1>3. s = [k \in 1 .. l |-> DigitAt(v, l - k)]
  BY DEF FormatHex, HexDigits
<1> HIDE DEF l, s
<1>4. \A k : DigitAt(v, k) \in SUBSET (0 .. (D - 1))
  BY DEF DigitAt
<1>5. s \in Seq(SUBSET (0 .. (D - 1))) /\ Len(s) = l /\ DOMAIN s = 1 .. l
  BY <1>1, <1>3, <1>4
<1>6. \A y : y \in ParseUint(s) <=> \E k \in 1 .. l : \E x \in s[k] : y = D * (l - k) + x
  <2> DEFINE Part(k) == {D * (Len(s) - k) + x : x \in s[k]}
  <2>1. ParseUint(s) = UNION {Part(k) : k \in DOMAIN s}
    BY DEF ParseUint
  <2>2. \A y, k : y \in Part(k) <=> \E x \in s[k] : y = D * (Len(s) - k) + x
    OBVIOUS
  <2> HIDE DEF Part
  <2>3. \A y : y \in ParseUint(s) <=> \E k \in DOMAIN s : y \in Part(k)
    BY <2>1
  <2> QED BY <1>5, <2>2, <2>3
<1>7. ParseUint(s) \subseteq v
  <2> SUFFICES ASSUME NEW y \in ParseUint(s) PROVE y \in v
    OBVIOUS
  <2>1. PICK k \in 1 .. l : \E x \in s[k] : y = D * (l - k) + x
    BY <1>6
  <2>2. PICK x \in s[k] : y = D * (l - k) + x
    BY <2>1
  <2>3. x \in DigitAt(v, l - k)
    BY <1>3, <2>2
  <2> QED BY <2>2, <2>3 DEF DigitAt
<1>8. v \subseteq ParseUint(s)
  <2> SUFFICES ASSUME NEW y \in v PROVE y \in ParseUint(s)
    OBVIOUS
  <2> DEFINE q == y \div D
             x == y % D
  <2>1. y \in Nat
    BY <1>2
  <2>2. q \in Nat /\ x \in 0 .. (D - 1) /\ y = D * q + x /\ q < l
    BY <1>1, <1>2, <2>1, Quotient
  <2> HIDE DEF q, x
  <2>3. x \in DigitAt(v, q)
    BY <2>2 DEF DigitAt
  <2>4. l - q \in 1 .. l /\ l - (l - q) = q
    BY <1>1, <2>2
  <2>5. x \in s[l - q]
    BY <1>3, <2>3, <2>4
  <2>6. \E z \in s[l - q] : y = D * (l - (l - q)) + z
    BY <2>2, <2>4, <2>5
  <2> QED BY <1>6, <2>4, <2>6
<1> QED BY <1>5, <1>7, <1>8 DEF l, s

(* ToString and string2data: the words that are printed are read back.     *)
LEMMA HexReadBack ==
  ASSUME NEW c, WellFormed(c), c.len # 0
  PROVE  string2data(ToHexString(c)) = c.bits
<1> DEFINE k == Words(c.len)
           h == ToHexString(c)
           Min1(i) == IF i = k THEN 1 ELSE Digits
<1>1. k \in Nat /\ c.bits \in WordsOf(c.len) /\ Len(c.bits) = k /\ DOMAIN c.bits = 1 .. k
  BY WordBits
<1>2. k >= 1
  <2>1. W \in Nat \ {0} /\ c.len \in Nat \ {0}
    BY WidthAssumption DEF WellFormed
  <2>2. c.len + W - 1 \in Nat /\ ~(c.len + W - 1 < W * 1)
    BY <2>1
  <2>3. ~(k < 1)
    BY <2>1, <2>2, QuotientBound DEF Words
  <2> QED BY <1>1, <2>3
<1>3. \A i \in 1 .. k : c.bits[i] \in SUBSET (0 .. (W - 1))
  BY <1>1 DEF WordsOf
<1>4. Digits \in Nat \ {0}
  <2>1. {} \in SUBSET (0 .. (W - 1)) /\ 1 \in Nat \ {0}
    OBVIOUS
  <2> QED BY <2>1, HexDigitsEnough
<1>5. \A i \in 1 .. k : Min1(i) \in Nat \ {0} /\ Min1(i) <= Digits
  BY <1>4
<1>6. h = [j \in 1 .. k |-> FormatHex(c.bits[k + 1 - j], Min1(k + 1 - j))]
  BY <1>1 DEF ToHexString
<1> HIDE DEF k, h, Min1
<1>7. DOMAIN h = 1 .. k /\ Len(h) = k
  <2>1. DOMAIN h = 1 .. k
    BY <1>6
  <2> QED BY <1>1, <2>1
<1>8. \A i \in 1 .. k : k + 1 - i \in 1 .. k /\ k + 1 - (k + 1 - i) = i
  BY <1>1
<1>9. \A i \in 1 .. k : h[k + 1 - i] = FormatHex(c.bits[i], Min1(i))
  <2> SUFFICES ASSUME NEW i \in 1 .. k
               PROVE  h[k + 1 - i] = FormatHex(c.bits[i], Min1(i))
    OBVIOUS
  <2>1. PICK j \in 1 .. k : j = k + 1 - i /\ k + 1 - j = i
    BY <1>8
  <2>2. h[j] = FormatHex(c.bits[k + 1 - j], Min1(k + 1 - j))
    BY <1>6
  <2> QED BY <2>1, <2>2
<1>10. \A i \in 1 .. k : ParseUint(h[k + 1 - i]) = c.bits[i]
  BY <1>3, <1>5, <1>9, WordReadBack
<1>11. CASE k > 1
  <2>1. string2data(h) = [i \in 1 .. k |-> ParseUint(h[k + 1 - i])]
    BY <1>7, <1>11 DEF string2data
  <2> QED BY <1>1, <1>10, <2>1 DEF h, WordsOf, k
<1>12. CASE k = 1
  <2> DEFINE s == h[1]
             l == Len(s)
             n == (l - 1 + Digits) \div Digits
  <2>1. s = FormatHex(c.bits[1], Min1(1)) /\ ParseUint(s) = c.bits[1]
    <3>1. 1 \in 1 .. k /\ k + 1 - 1 = 1
      BY <1>12
    <3> QED BY <1>9, <1>10, <3>1
  <2>2. /\ s \in Seq(SUBSET (0 .. (D - 1))) /\ l = HexDigits(c.bits[1], Min1(1))
    BY <1>3, <1>5, <1>12, <2>1, WordReadBack
  <2>3. l \in Nat \ {0} /\ l <= Digits
    BY <1>3, <1>5, <1>12, <2>2, HexDigitsEnough
  <2> HIDE DEF s, l
  <2>4. n = 1
    <3>1. l - 1 + Digits \in Nat /\ l - 1 + Digits < Digits * 2 /\ ~(l - 1 + Digits < Digits * 1)
      BY <1>4, <2>3
    <3>2. n \in Nat /\ n < 2 /\ ~(n < 1)
      BY <1>4, <3>1, Quotient, QuotientBound
    <3> QED BY <3>2
  <2> HIDE DEF n
  <2>5. SubSeq(s, 1, l) = s
    BY <2>2 DEF l
  <2>6. string2data(h) =
          [i \in 1 .. n |-> LET start == l - i * Digits
                                end   == l - (i - 1) * Digits
                            IN  ParseUint(SubSeq(s, IF start > 0 THEN start + 1 ELSE 1, end))]
    BY <1>7, <1>12 DEF string2data, s, l, n
  <2>7. string2data(h) = [i \in 1 .. 1 |-> ParseUint(s)]
    <3>1. \A i \in 1 .. 1 : ~(l - i * Digits > 0) /\ l - (i - 1) * Digits = l
      BY <1>4, <2>3
    <3> QED BY <2>4, <2>5, <2>6, <3>1
  <2>8. \A i \in 1 .. 1 : ParseUint(s) = c.bits[i]
    BY <2>1
  <2> QED BY <1>1, <1>12, <2>7, <2>8 DEF h, WordsOf, k
<1> QED BY <1>1, <1>2, <1>11, <1>12

-----------------------------------------------------------------------------
(* Refinement.                                                             *)

(* The lists that callers pass to NewBitmap make well formed bitmaps.  A   *)
(* list is read by a fold, and what a fold computes is out of the prover's *)
(* reach.  On a small instance the invariant ReadBack shows it: FromList   *)
(* makes each of these bitmaps.                                            *)
ListsMade ==
  \A n \in Lens : \A items \in Lists(n) : WellFormed(NewBitmapOfItems(n, items))

(* The inductive invariant: the bitmap is well formed, and of a length     *)
(* that some operand has.                                                  *)
BitmapInv == WellFormed(b) /\ b.len \in Lens

(* A well formed bitmap of such a length is an operand of the abstraction. *)
LEMMA AsOperand ==
  ASSUME NEW m, WellFormed(m), m.len \in Lens
  PROVE  [len |-> m.len, set |-> BitsOf(m)] \in Sets!Operand
<1> DEFINE n == m.len
           s == BitsOf(m)
<1>1. n \in Lens /\ s \in SUBSET (0 .. (n - 1))
  BY DEF WellFormed
<1> HIDE DEF n, s
<1>2. [len |-> n, set |-> s] \in {[len |-> n, set |-> t] : t \in SUBSET (0 .. (n - 1))}
  BY <1>1
<1>3. [len |-> n, set |-> s] \in Sets!Operand
  BY <1>1, <1>2 DEF Sets!Operand
<1> QED BY <1>3 DEF n, s

(* What an operand is, to the implementation and to the abstraction.       *)
LEMMA OperandsMean ==
  ASSUME ListsMade, NEW m \in Operands
  PROVE  /\ WellFormed(m) /\ m.len \in Lens
         /\ [len |-> m.len, set |-> BitsOf(m)] \in Sets!Operand
<1>1. PICK n \in Lens : m \in {NewBitmapOfItems(n, Listed(s)) : s \in SUBSET (0 .. (n - 1))}
  BY DEF Operands
<1>2. PICK s \in SUBSET (0 .. (n - 1)) : m = NewBitmapOfItems(n, Listed(s))
  BY <1>1
<1>3. WellFormed(m)
  BY <1>2 DEF ListsMade, Lists
<1>4. m.len = n
  BY <1>2, LensAssumption DEF NewBitmapOfItems
<1> QED BY <1>3, <1>4, AsOperand

(* One operation of the code is the operation on sets of that name.        *)
LEMMA CombineSteps ==
  ASSUME ListsMade, BitmapInv, Combine
  PROVE  BitmapInv' /\ Sets!Next
<1>1. PICK m \in Operands : b' \in {Or(b, m), And(b, m), Xor(b, m), Axor(b, m)}
  BY DEF Combine
<1> DEFINE o == [len |-> m.len, set |-> BitsOf(m)]
<1>2. WellFormed(m) /\ m.len \in Lens /\ o \in Sets!Operand
  BY OperandsMean
<1>3. WellFormed(b) /\ b.len \in Lens
  BY DEF BitmapInv
<1>4. o.len = m.len /\ o.set = BitsOf(m)
  OBVIOUS
<1> HIDE DEF o
<1>5. CASE b' = Or(b, m)
  <2>1. /\ WellFormed(b') /\ b'.len = maxOf(b, m).len
        /\ BitsOf(b') = BitsOf(b) \cup BitsOf(m)
    BY <1>2, <1>3, <1>5, OrIsUnion
  <2>2. Sets!Union(o)
    BY <1>4, <2>1 DEF Sets!Union, Sets!Longer, maxOf
  <2> QED BY <1>2, <1>3, <2>1, <2>2 DEF BitmapInv, maxOf, Sets!Next
<1>6. CASE b' = And(b, m)
  <2>1. /\ WellFormed(b') /\ b'.len = minOf(b, m).len
        /\ BitsOf(b') = BitsOf(b) \cap BitsOf(m)
    BY <1>2, <1>3, <1>6, AndIsIntersection
  <2>2. Sets!Intersection(o)
    BY <1>4, <2>1 DEF Sets!Intersection, Sets!Shorter, minOf
  <2> QED BY <1>2, <1>3, <2>1, <2>2 DEF BitmapInv, minOf, Sets!Next
<1>7. CASE b' = Xor(b, m)
  <2>1. /\ WellFormed(b') /\ b'.len = maxOf(b, m).len
        /\ BitsOf(b') = (BitsOf(b) \ BitsOf(m)) \cup (BitsOf(m) \ BitsOf(b))
    BY <1>2, <1>3, <1>7, XorIsDifference
  <2>2. Sets!Difference(o)
    BY <1>4, <2>1 DEF Sets!Difference, Sets!Longer, maxOf
  <2> QED BY <1>2, <1>3, <2>1, <2>2 DEF BitmapInv, maxOf, Sets!Next
<1>8. CASE b' = Axor(b, m)
  <2>1. /\ WellFormed(b') /\ b'.len = b.len
        /\ BitsOf(b') = BitsOf(b) \ BitsOf(m)
    BY <1>2, <1>3, <1>8, AxorIsDifference
  <2>2. Sets!AsymmetricDifference(o)
    BY <1>4, <2>1 DEF Sets!AsymmetricDifference
  <2> QED BY <1>2, <1>3, <2>1, <2>2 DEF BitmapInv, Sets!Next
<1> QED BY <1>1, <1>5, <1>6, <1>7, <1>8

(* To build a bitmap from a list, or from the string of another, is an     *)
(* assignment.                                                             *)
LEMMA AssignSteps ==
  ASSUME ListsMade, BitmapInv, FromList \/ FromHex
  PROVE  BitmapInv' /\ Sets!Next
<1>1. WellFormed(b') /\ b'.len \in Lens
  <2>1. CASE FromList
    <3>1. PICK n \in Lens : \E items \in Lists(n) : b' = NewBitmapOfItems(n, items)
      BY <2>1 DEF FromList
    <3>2. PICK items \in Lists(n) : b' = NewBitmapOfItems(n, items)
      BY <3>1
    <3>3. WellFormed(b')
      BY <3>2 DEF ListsMade
    <3>4. b'.len = n
      BY <3>2, LensAssumption DEF NewBitmapOfItems
    <3> QED BY <3>3, <3>4
  <2>2. CASE FromHex
    <3>1. PICK n \in Lens : \E m \in Operands :
                               m.len = n /\ b' = NewBitmapOfHex(n, ToHexString(m))
      BY <2>2 DEF FromHex
    <3>2. PICK m \in Operands : m.len = n /\ b' = NewBitmapOfHex(n, ToHexString(m))
      BY <3>1
    <3>3. WellFormed(m) /\ m.len \in Nat \ {0}
      BY <3>2, OperandsMean, LensAssumption
    <3>4. string2data(ToHexString(m)) = m.bits
      BY <3>3, HexReadBack
    <3>5. b'.len = m.len /\ b'.bits = m.bits
      BY <3>2, <3>3, <3>4 DEF NewBitmapOfHex
    <3>6. BitsOf(b') = BitsOf(m)
      BY <3>5 DEF BitsOf
    <3>7. WellFormed(b')
      BY <3>3, <3>5, <3>6 DEF WellFormed
    <3> QED BY <3>2, <3>5, <3>7
  <2> QED BY <2>1, <2>2
<1> DEFINE o == [len |-> b'.len, set |-> BitsOf(b')]
<1>2. o \in Sets!Operand
  BY <1>1, AsOperand
<1>3. Sets!Assign(o)
  BY DEF Sets!Assign
<1> HIDE DEF o
<1> QED BY <1>1, <1>2, <1>3 DEF BitmapInv, Sets!Next

(* Every operation on a bitmap, word by word, is the operation on sets of  *)
(* positions that its callers take it for: for any width of words, any     *)
(* lengths of the operands and any sequence of operations, provided that   *)
(* lists are read right.                                                   *)
THEOREM BitSetImplemented ==
  ASSUME ListsMade
  PROVE  Spec => IsBitSet
<1>1. Init => BitmapInv /\ Sets!Init
  <2> SUFFICES ASSUME NEW n \in Lens, b = NewBitmapOfLen(n)
               PROVE  BitmapInv /\ Sets!Init
    BY DEF Init
  <2>1. n \in Nat
    BY LensAssumption
  <2> QED BY <2>1, NewIsEmpty DEF BitmapInv, Sets!Init
<1>2. BitmapInv /\ [Next]_b => BitmapInv' /\ [Sets!Next]_<<BitsOf(b), b.len>>
  <2> SUFFICES ASSUME BitmapInv, [Next]_b
               PROVE  BitmapInv' /\ [Sets!Next]_<<BitsOf(b), b.len>>
    OBVIOUS
  <2>1. CASE Combine
    BY <2>1, CombineSteps
  <2>2. CASE FromList \/ FromHex
    BY <2>2, AssignSteps
  <2>3. CASE UNCHANGED b
    BY <2>3 DEF BitmapInv, WellFormed, BitsOf
  <2> QED BY <2>1, <2>2, <2>3 DEF Next
<1> QED BY <1>1, <1>2, PTL DEF Spec, IsBitSet, Sets!Spec
=============================================================================
