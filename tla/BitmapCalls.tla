---------------------------- MODULE BitmapCalls ----------------------------
(***************************************************************************)
(* A bitmap that callers create and combine in every way, and what its     *)
(* scans and conversions answer at each moment.  Lengths below, at and     *)
(* above the width of a word are among Lens.                               *)
(***************************************************************************)
EXTENDS Bitmap

CONSTANT Lens  \* the lengths of bitmaps

ASSUME LensAssumption == Lens \subseteq Nat \ {0}

VARIABLE b  \* a *Bitmap

(* A human style list with the given positions, written as one item per    *)
(* position, highest first.                                                *)
Listed(s) == [k \in 1 .. Cardinality(s) |->
                Single(CHOOSE n \in s : Cardinality({m \in s : m > n}) = k - 1)]

(* The bitmaps that NewBitmap(num, cpus) makes.                            *)
Operands == UNION {{NewBitmapOfItems(n, Listed(s)) : s \in SUBSET (0 .. (n - 1))} : n \in Lens}

(* Lists of a span and of an exclusion from it.                            *)
Items(n) == {<<Span(i, j), [Span(k, l) EXCEPT !.neg = TRUE]>> :
               i \in 0 .. (n - 1), j \in 0 .. (n - 1),
               k \in 0 .. (n - 1), l \in 0 .. (n - 1)}

Ordered(items) == \A k \in DOMAIN items : items[k].low <= items[k].high

Lists(n) == {Listed(s) : s \in SUBSET (0 .. (n - 1))} \cup {items \in Items(n) : Ordered(items)}

Init == \E n \in Lens : b = NewBitmapOfLen(n)

Combine == \E m \in Operands : b' \in {Or(b, m), And(b, m), Xor(b, m), Axor(b, m)}

FromList == \E n \in Lens : \E items \in Lists(n) : b' = NewBitmapOfItems(n, items)

FromHex == \E n \in Lens : \E m \in Operands :
              m.len = n /\ b' = NewBitmapOfHex(n, ToHexString(m))

Next == Combine \/ FromList \/ FromHex

Spec == Init /\ [][Next]_b

-----------------------------------------------------------------------------
(* A bitmap is a set of positions below its length, under every operation: *)
(* words of operands of different lengths are lined up, and the last word  *)
(* never gets bits beyond the length.                                      *)
Sets == INSTANCE BitSet WITH set <- BitsOf(b), len <- b.len

IsBitSet == Sets!Spec

(* The run functions of CacheWays, on which the model of Enforce rests.    *)
CacheWays(n) == INSTANCE CacheWays
  WITH NWays <- n, Sockets <- {}, OSSockets <- {}, InfraSockets <- {}, OSWays <- 1,
       GuaranteeWays <- 0, BesteffortWays <- 0, SharedWays <- 0, InfraWays <- 0,
       Shrink <- FALSE

(* The scans of the binary string find the runs that enforceCache and      *)
(* SetOSGroup count on: for every number of ways, the highest run and the  *)
(* lowest, of exactly that many ways, or none at all, as if the bits that  *)
(* an offset leaves out were zero; the length of the longest run; and the  *)
(* run at bit 0.                                                           *)
ScansFindRuns ==
  LET C == BitsOf(b)
  IN  /\ \A off \in 0 .. b.len, n \in 1 .. (b.len + 1) :
           /\ BitsOf(GetConnectiveBits(b, n, off, TRUE)) =
                CacheWays(b.len)!GetConnectiveBitsFromLow(C \ (0 .. (off - 1)), n)
           /\ BitsOf(GetConnectiveBits(b, n, off, FALSE)) =
                CacheWays(b.len)!GetConnectiveBits(C \ ((b.len - off) .. b.len), n)
      /\ Cardinality(BitsOf(MaxConnectiveBits(b))) = CacheWays(b.len)!LongestRun(C)
      /\ BitsOf(MaxConnectiveBits(b)) =
           CacheWays(b.len)!GetConnectiveBitsFromLow(C, CacheWays(b.len)!LongestRun(C))
      /\ 0 \in C => /\ Head(ToBinStrings(b))[1] = 1
                    /\ Len(Head(ToBinStrings(b))) = Cardinality(CacheWays(b.len)!LowestRun(C))

(* A bitmap as the constructors make it: as many words as the length       *)
(* needs, and no bit beyond a word or beyond the length.                   *)
WellFormed(c) ==
  /\ c.len \in Nat
  /\ c.bits \in [1 .. Words(c.len) -> SUBSET (0 .. (W - 1))]
  /\ BitsOf(c) \subseteq 0 .. (c.len - 1)

(* What is written is read back, into a well formed bitmap: the list of    *)
(* ToHumanString and the hexadecimal string of ToString, which is what     *)
(* goes to the other process and comes back from resctrl, with commas and  *)
(* without.                                                                *)
ReadBack ==
  /\ WellFormed(b)
  /\ IF ToHumanString(b) = <<>> THEN IsEmpty(b)
     ELSE NewBitmapOfItems(b.len, ToHumanString(b)) = b
  /\ NewBitmapOfHex(b.len, ToHexString(b)) = b
  /\ NewBitmapOfHex(b.len, <<FlattenSeq(ToHexString(b))>>) = b

(* validateWorkload refuses the cores of a new workload exactly when one   *)
(* of them is stored, whatever lengths the lists of the stored ones imply. *)
OverlapRefused ==
  \A m \in Operands :
     BitsOf(b) # {} /\ BitsOf(m) # {} =>
       (CPUListAssigned(ToHumanString(b), <<<<Single(1)>>, ToHumanString(m)>>)
          <=> BitsOf(b) \cap (BitsOf(m) \cup {1}) # {})
=============================================================================
