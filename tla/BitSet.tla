------------------------------- MODULE BitSet -------------------------------
(***************************************************************************)
(* What a bitmap promises: a set of positions below a length.  The callers *)
(* in modules/cache and modules/workload take Or, And, Xor and Axor for    *)
(* union, intersection, difference and "asymmetric difference", the words  *)
(* of the comments above these functions.                                  *)
(***************************************************************************)
EXTENDS Integers

CONSTANT Lens  \* the lengths of bitmaps

VARIABLES set, len

Operand == UNION {{[len |-> n, set |-> s] : s \in SUBSET (0 .. (n - 1))} : n \in Lens}

Longer(n) == IF len < n THEN n ELSE len
Shorter(n) == IF len < n THEN len ELSE n

Init == len \in Lens /\ set = {}

Union(m) == set' = set \cup m.set /\ len' = Longer(m.len)

Intersection(m) == set' = set \cap m.set /\ len' = Shorter(m.len)

Difference(m) == /\ set' = (set \ m.set) \cup (m.set \ set)
                 /\ len' = Longer(m.len)

AsymmetricDifference(m) == set' = set \ m.set /\ len' = len

Assign(m) == set' = m.set /\ len' = m.len

Next == \E m \in Operand :
           \/ Union(m) \/ Intersection(m) \/ Difference(m)
           \/ AsymmetricDifference(m) \/ Assign(m)

Spec == Init /\ [][Next]_<<set, len>>
=============================================================================
