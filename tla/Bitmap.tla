------------------------------- MODULE Bitmap -------------------------------
(***************************************************************************)
(* The bitmaps of utils/bitmap/bitmap.go, word by word.  A Bitmap has a    *)
(* length in bits and a slice of Go ints, of which each holds W bits of    *)
(* the map (32 in the code) and has room for 2W.  A word is the set of its *)
(* one bits.  A hexadecimal digit is the set of its one bits too, out of D *)
(* (4 in the code); a word has W \div D digits.                            *)
(*                                                                         *)
(* A binary string is the sequence of its digits, highest first, as in the *)
(* code: ts[i] of the code is ts[i + 1] here.  An element of the human     *)
(* style list "2-6,^3-4,^5" is a record [neg, span, low, high].             *)
(***************************************************************************)
EXTENDS Integers, SequencesExt

CONSTANTS W,  \* bits of the map in a word
          D   \* bits in a hexadecimal digit

ASSUME WidthAssumption == D \in Nat \ {0} /\ W \in Nat \ {0} /\ W % D = 0

Single(i) == [neg |-> FALSE, span |-> FALSE, low |-> i, high |-> i]
Span(i, j) == [neg |-> FALSE, span |-> TRUE, low |-> i, high |-> j]

(* What a bitmap stands for.                                               *)
BitsOf(b) == {n \in 0 .. (W * Len(b.bits) - 1) : (n % W) \in b.bits[n \div W + 1]}

Words(num) == (num + W - 1) \div W

genBitmap(num) == [i \in 1 .. Words(num) |-> {}]

-----------------------------------------------------------------------------
(* Human style.                                                            *)

(* hyphenSpan: ((1 << uint(high-low+1)) - 1) << uint(low) in 64 bits.  The *)
(* shift of a negative count, converted to uint, gives 0, and 0 - 1 has    *)
(* all bits.                                                               *)
hyphenSpan(low, high) ==
  IF (high % W) - (low % W) + 1 >= 0 THEN (low % W) .. (high % W)
  ELSE (low % W) .. (2 * W - 1)

fillBitMap(bits, item) ==
  LET sv == IF item.span THEN hyphenSpan(item.low, item.high) ELSE {item.low % W}
  IN  IF item.neg THEN bits \ sv ELSE bits \cup sv

(* silitSpan: one span per word; none if the first word is after the last. *)
silitSpan(item) ==
  IF item.high \div W = item.low \div W THEN <<item>>
  ELSE [k \in 1 .. (item.high \div W - item.low \div W + 1) |->
          LET i == item.low \div W + k - 1
          IN  [item EXCEPT !.low  = IF i > item.low \div W THEN i * W ELSE @,
                           !.high = IF (i + 1) * W - 1 < @ THEN (i + 1) * W - 1 ELSE @]]

(* The word of an item that lies in one word; an index out of range is a   *)
(* panic, which callers have to exclude.                                   *)
fillWord(words, item) ==
  [words EXCEPT ![item.low \div W + 1] = fillBitMap(@, item)]

genBits(items, num) ==
  FoldLeft(LAMBDA words, item :
             IF item.span THEN FoldLeft(fillWord, words, silitSpan(item))
             ELSE fillWord(words, item),
           genBitmap(num), items)

(* lenHumanStyle: the largest number in the list.                          *)
lenHumanStyle(items) ==
  Max(UNION {{items[k].low, items[k].high} : k \in DOMAIN items})

NewBitmapOfLen(num) == [len |-> num, bits |-> genBitmap(num)]

(* NewBitmap(num, items), and NewBitmap(items) for num = 0.                *)
NewBitmapOfItems(num, items) ==
  LET n == IF num = 0 THEN lenHumanStyle(items) + 1 ELSE num
  IN  [len |-> n, bits |-> genBits(items, n)]

-----------------------------------------------------------------------------
(* Or, And, Xor and Axor: the longer of the two operands is maxb, and b    *)
(* itself if they are of the same length.                                  *)
maxOf(b, m) == IF b.len < m.len THEN m ELSE b
minOf(b, m) == IF b.len < m.len THEN b ELSE m

(* NewBitmap(num) with words copied into it.                               *)
copied(num, words) ==
  [i \in 1 .. Words(num) |-> IF i <= Len(words) THEN words[i] ELSE {}]

(* The loops index the words of the result and of maxb with the number of  *)
(* words of minb.                                                          *)
common(b, m) == DOMAIN minOf(b, m).bits

(* The words r, the first of them assigned.  To assign one that r does not *)
(* have would be a panic; here it makes a bitmap with a word too many.     *)
assigned(r, words) ==
  [i \in DOMAIN r \cup DOMAIN words |-> IF i \in DOMAIN words THEN words[i] ELSE r[i]]

Or(b, m) ==
  [len  |-> maxOf(b, m).len,
   bits |-> assigned(copied(maxOf(b, m).len, maxOf(b, m).bits),
                     [i \in common(b, m) |-> b.bits[i] \cup m.bits[i]])]

And(b, m) ==
  [len  |-> minOf(b, m).len,
   bits |-> assigned(genBitmap(minOf(b, m).len),
                     [i \in common(b, m) |-> b.bits[i] \cap m.bits[i]])]

Xor(b, m) ==
  [len  |-> maxOf(b, m).len,
   bits |-> assigned(copied(maxOf(b, m).len, maxOf(b, m).bits),
                     [i \in common(b, m) |-> SymDiff(b.bits[i], m.bits[i])])]

(* Mutant of Axor: the words are masked with the longer operand.           *)
AxorOfLonger(b, m) ==
  LET longer == b.len = maxOf(b, m).len
      n == IF longer THEN maxOf(b, m).len ELSE minOf(b, m).len
  IN  [len  |-> n,
       bits |-> assigned(IF longer THEN copied(n, b.bits) ELSE genBitmap(n),
                         [i \in common(b, m) |->
                            SymDiff(b.bits[i], m.bits[i]) \cap maxOf(b, m).bits[i]])]

(* Axor: what is in b and not in m.                                        *)
Axor(b, m) ==
  LET longer == b.len = maxOf(b, m).len
      n == IF longer THEN maxOf(b, m).len ELSE minOf(b, m).len
  IN  [len  |-> n,
       bits |-> assigned(IF longer THEN copied(n, b.bits) ELSE genBitmap(n),
                         [i \in common(b, m) |->
                            SymDiff(b.bits[i], m.bits[i]) \cap b.bits[i]])]

IsEmpty(b) == \A i \in DOMAIN b.bits : b.bits[i] = {}

-----------------------------------------------------------------------------
(* Binary strings.                                                         *)

(* len(strconv.FormatUint(uint64(v), 2)).                                  *)
DigitsIn(v) == IF v = {} THEN 1 ELSE Max(v) + 1

(* The digits that ToBinString writes for word i, with the zeros in front. *)
WidthOf(b, i) ==
  LET l == DigitsIn(b.bits[i])
  IN  IF i = Len(b.bits) /\ b.len % W >= l THEN b.len % W
      ELSE IF W >= l THEN W ELSE l

(* ToBinString without its commas.                                         *)
ToBinString(b) ==
  FlattenSeq([k \in 1 .. Len(b.bits) |->
                LET i == Len(b.bits) + 1 - k
                IN  [j \in 1 .. WidthOf(b, i) |->
                       IF (WidthOf(b, i) - j) \in b.bits[i] THEN 1 ELSE 0]])

(* The positions len - 1, ..., 0 of the loops that count down.             *)
Down(len) == [k \in 1 .. len |-> len - k]

(* ToBinStrings: the runs of equal digits, the lowest first.               *)
ToBinStrings(b) ==
  LET ts == ToBinString(b)
      Cut(s, i) ==
        LET changed == ts[i + 1] # s.orgV
            t == IF changed
                 THEN [ss |-> Append(s.ss, SubSeq(ts, i + 2, s.orgIndex)),
                       orgV |-> ts[i + 1], orgIndex |-> i + 1]
                 ELSE s
        IN  IF i = 0 THEN [t EXCEPT !.ss = Append(@, SubSeq(ts, 1, t.orgIndex))] ELSE t
  IN  IF ts = <<>> THEN <<>>
      ELSE FoldLeft(Cut, [ss |-> <<>>, orgV |-> Last(ts), orgIndex |-> Len(ts)],
                    Down(b.len)).ss

RunItem(low, n) == IF n = 1 THEN Single(low) ELSE Span(low, low + n - 1)

(* ToHumanString, the list that it writes.                                 *)
ToHumanString(b) ==
  FoldLeft(LAMBDA s, v : [hs  |-> IF v[1] = 1 THEN Append(s.hs, RunItem(s.pos, Len(v)))
                                  ELSE s.hs,
                          pos |-> s.pos + Len(v)],
           [hs |-> <<>>, pos |-> 0], ToBinStrings(b)).hs

(* MaxConnectiveBits: the longest run of ones, the lowest of them.         *)
MaxConnectiveBits(b) ==
  LET found == FoldLeft(LAMBDA s, v :
                 [longest |-> IF 1 \in Range(v) /\ s.longest < Len(v)
                              THEN Len(v) ELSE s.longest,
                  cur     |-> IF 1 \in Range(v) /\ s.longest < Len(v)
                              THEN s.total ELSE s.cur,
                  total   |-> s.total + Len(v)],
                 [longest |-> 0, cur |-> 0, total |-> 0], ToBinStrings(b))
  IN  IF found.longest = 0 THEN NewBitmapOfLen(b.len)
      ELSE NewBitmapOfItems(b.len, <<RunItem(found.cur, found.longest)>>)

(* The loop of GetConnectiveBits: count ones along the positions path of   *)
(* ts until there are enough in a row.                                     *)
Scan(ts, path, ways) ==
  FoldLeft(LAMBDA s, i :
             IF s.total >= ways /\ s.total > 0 THEN s
             ELSE IF ts[i + 1] = 1
             THEN [total |-> s.total + 1,
                   cur   |-> IF s.total + 1 >= ways THEN i ELSE s.cur]
             ELSE [s EXCEPT !.total = 0],
           [total |-> 0, cur |-> 0], path)

(* Mutant of GetConnectiveBits: the offset only shortens the scan at its   *)
(* other end.                                                              *)
ConnectiveFromEnd(b, ways, offset, fromLow) ==
  LET ts   == ToBinString(b)
      path == IF fromLow THEN [k \in 1 .. (b.len - offset) |-> b.len - k]
              ELSE [k \in 1 .. (b.len - offset) |-> k - 1]
      s    == Scan(ts, path, ways)
      at   == b.len - 1 - s.cur
  IN  IF offset + ways > Len(ts) \/ s.total < ways
      THEN NewBitmapOfLen(b.len)
      ELSE NewBitmapOfItems(b.len,
             <<IF ways <= 1 THEN Single(at)
               ELSE IF fromLow THEN Span(at - (ways - 1), at)
               ELSE Span(at, at + (ways - 1))>>)

(* GetConnectiveBits: a run of ways ones, the first that is found counting *)
(* from the lowest or from the highest bit, offset bits left out.          *)
GetConnectiveBits(b, ways, offset, fromLow) ==
  LET ts   == ToBinString(b)
      path == IF fromLow THEN [k \in 1 .. (b.len - offset) |-> b.len - offset - k]
              ELSE [k \in 1 .. (b.len - offset) |-> offset + k - 1]
      s    == Scan(ts, path, ways)
      at   == b.len - 1 - s.cur
  IN  IF offset + ways > Len(ts) \/ s.total < ways
      THEN NewBitmapOfLen(b.len)
      ELSE NewBitmapOfItems(b.len,
             <<IF ways <= 1 THEN Single(at)
               ELSE IF fromLow THEN Span(at - (ways - 1), at)
               ELSE Span(at, at + (ways - 1))>>)

-----------------------------------------------------------------------------
(* Hexadecimal strings: a sequence of groups, which are separated by       *)
(* commas, of digits.                                                      *)

Digits == W \div D

DigitAt(v, k) == {n \in 0 .. (D - 1) : (D * k + n) \in v}

(* "%0nx" of a word.                                                       *)
FormatHex(v, n) ==
  LET l == Max({n, (DigitsIn(v) + D - 1) \div D})
  IN  [k \in 1 .. l |-> DigitAt(v, l - k)]

(* ToString in the code: all words but the highest have all their digits.  *)
ToHexString(b) ==
  [k \in 1 .. Len(b.bits) |->
     LET i == Len(b.bits) + 1 - k
     IN  FormatHex(b.bits[i], IF i = Len(b.bits) THEN 1 ELSE Digits)]

ParseUint(group) ==
  UNION {{D * (Len(group) - k) + n : n \in group[k]} : k \in DOMAIN group}

(* Mutant of string2data: the parts of a string without commas are counted *)
(* from its beginning.                                                     *)
string2dataFromLeft(groups) ==
  LET s == groups[1]
      n == (Len(s) - 1 + Digits) \div Digits
  IN  IF Len(groups) > 1
      THEN [i \in DOMAIN groups |-> ParseUint(groups[Len(groups) + 1 - i])]
      ELSE [i \in 1 .. n |->
              ParseUint(SubSeq(s, (n - i) * Digits + 1, Min({(n - i + 1) * Digits, Len(s)})))]

(* string2data: a string without commas is cut into words from its end.    *)
string2data(groups) ==
  LET s == groups[1]
      l == Len(s)
      n == (l - 1 + Digits) \div Digits
  IN  IF Len(groups) > 1
      THEN [i \in DOMAIN groups |-> ParseUint(groups[Len(groups) + 1 - i])]
      ELSE [i \in 1 .. n |->
              LET start == l - i * Digits
                  end   == l - (i - 1) * Digits
              IN  ParseUint(SubSeq(s, IF start > 0 THEN start + 1 ELSE 1, end))]

(* NewBitmap(num, string), and NewBitmap(string) for num = 0.              *)
NewBitmapOfHex(num, groups) ==
  [len  |-> IF num = 0 THEN Len(string2data(groups)) * W ELSE num,
   bits |-> string2data(groups)]

-----------------------------------------------------------------------------
(* Mutant of CPUListAssigned: only the last stored workload counts.        *)
CPUListOfLast(cores, stored) ==
  ~IsEmpty(And(NewBitmapOfItems(0, cores), NewBitmapOfItems(0, Last(stored))))

(* The last part of validateWorkload (internal/db/db.go): the cores of a   *)
(* new workload against the sum of those that are stored.                  *)
CPUListAssigned(cores, stored) ==
  LET bmsum == FoldLeft(LAMBDA sum, c : Or(sum, NewBitmapOfItems(0, c)),
                        NewBitmapOfLen(0), stored)
  IN  ~IsEmpty(And(NewBitmapOfItems(0, cores), bmsum))
=============================================================================
