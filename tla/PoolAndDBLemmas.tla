-------------------------- MODULE PoolAndDBLemmas --------------------------
(***************************************************************************)
(* The two pieces of shared state under the workload manager.  What every  *)
(* function of the CLOS pool preserves, for any number of classes of       *)
(* service and any pool it is called on; and what each transaction of the  *)
(* workload database does to the rows, the mapping, the sequence and the   *)
(* types.  The proofs about the pool, the database, the Nova listener and  *)
(* the manager rest on the same lemmas.                                    *)
(***************************************************************************)
EXTENDS WorkloadDB, SequenceTheorems, WellFoundedInduction, TLAPS

-----------------------------------------------------------------------------
(* The CLOS pool.                                                          *)

(* A sound pool: well typed, nothing lost, the shared class counted as     *)
(* used.  The three are proved together because the first two conditions   *)
(* of a returned shared class follow from the third.                       *)
Sound(p) == p \in Pool /\ NoneLost(p) /\ SharedStaysUsed(p)

-----------------------------------------------------------------------------
(* The names in a list to which one is appended, or from which one is      *)
(* taken: the available list of ReturnClos, UseAvailableCLOS and           *)
(* MarkCLOSasUsed.                                                         *)

NamesIn(s) == {s[i] : i \in DOMAIN s}

(* ReturnClos appends a name to the available list, which gains this name  *)
(* and no other.                                                           *)
LEMMA NamesOfAppend ==
  ASSUME NEW S, NEW s \in Seq(S), NEW c \in S
  PROVE  Append(s, c) \in Seq(S) /\ NamesIn(Append(s, c)) = NamesIn(s) \cup {c}
<1> DEFINE a == Append(s, c)
<1>1. /\ a \in Seq(S) /\ Len(a) = Len(s) + 1 /\ DOMAIN a = 1 .. (Len(s) + 1)
      /\ a[Len(s) + 1] = c
      /\ \A i \in 1 .. Len(s) : a[i] = s[i]
  BY AppendProperties, LenProperties
<1>2. Len(s) \in Nat /\ DOMAIN s = 1 .. Len(s)
  BY LenProperties
<1>3. NamesIn(a) = NamesIn(s) \cup {c}
  BY <1>1, <1>2 DEF NamesIn
<1> QED BY <1>1, <1>3

(* UseAvailableCLOS takes the head of the available list.                  *)
LEMMA NamesOfTail ==
  ASSUME NEW S, NEW s \in Seq(S), s # <<>>
  PROVE  /\ Head(s) \in S /\ Tail(s) \in Seq(S)
         /\ NamesIn(s) = NamesIn(Tail(s)) \cup {Head(s)}
<1> DEFINE u == Tail(s)
<1>1. /\ Head(s) \in S /\ u \in Seq(S) /\ Len(u) = Len(s) - 1
      /\ \A i \in 1 .. Len(u) : u[i] = s[i + 1]
  BY HeadTailProperties
<1>2. Len(s) \in Nat \ {0} /\ DOMAIN s = 1 .. Len(s) /\ DOMAIN u = 1 .. (Len(s) - 1)
  BY <1>1, LenProperties, EmptySeq
<1>3. Head(s) = s[1]
  BY <1>2
<1>4. ASSUME NEW x \in NamesIn(s) PROVE x \in NamesIn(u) \cup {s[1]}
  <2>1. PICK i \in 1 .. Len(s) : x = s[i]
    BY <1>2 DEF NamesIn
  <2>2. CASE i = 1
    BY <2>1, <2>2
  <2>3. CASE i # 1
    <3>1. (i - 1) \in 1 .. Len(u) /\ u[i - 1] = s[i]
      BY <1>1, <1>2, <2>1, <2>3
    <3> QED BY <1>1, <1>2, <2>1, <3>1 DEF NamesIn
  <2> QED BY <2>2, <2>3
<1>5. ASSUME NEW x \in NamesIn(u) PROVE x \in NamesIn(s)
  <2>1. PICK i \in 1 .. Len(u) : x = u[i]
    BY <1>1, <1>2 DEF NamesIn
  <2>2. (i + 1) \in 1 .. Len(s) /\ x = s[i + 1]
    BY <1>1, <1>2, <2>1
  <2> QED BY <1>2, <2>2 DEF NamesIn
<1>6. s[1] \in NamesIn(s)
  BY <1>2 DEF NamesIn
<1> QED BY <1>1, <1>3, <1>4, <1>5, <1>6

(* MarkCLOSasUsed takes the entry at position i out of the available list: *)
(* the entries before it stay where they are, those after it move up.      *)
LEMMA WithoutEntry ==
  ASSUME NEW S, NEW s \in Seq(S), NEW i \in 1 .. Len(s)
  PROVE  LET cut == SubSeq(s, 1, i - 1) \o SubSeq(s, i + 1, Len(s))
         IN  /\ cut \in Seq(S) /\ DOMAIN cut = 1 .. (Len(s) - 1)
             /\ \A j \in 1 .. (Len(s) - 1) : cut[j] = IF j < i THEN s[j] ELSE s[j + 1]
<1> DEFINE lo  == SubSeq(s, 1, i - 1)
           hi  == SubSeq(s, i + 1, Len(s))
           cut == lo \o hi
<1>1. /\ Len(s) \in Nat /\ DOMAIN s = 1 .. Len(s)
      /\ \A j \in 1 .. Len(s) : s[j] \in S
  BY LenProperties, ElementOfSeq
<1>2. /\ lo \in Seq(S) /\ Len(lo) = i - 1
      /\ \A j \in 1 .. (i - 1) : lo[j] = s[j]
  <2>1. \A j \in 1 .. (i - 1) : s[j] \in S
    BY <1>1
  <2>2. /\ lo \in Seq(S) /\ Len(lo) = IF 1 <= i - 1 THEN (i - 1) - 1 + 1 ELSE 0
        /\ \A j \in 1 .. (i - 1) - 1 + 1 : lo[j] = s[1 + j - 1]
    <3> HIDE DEF lo
    <3> QED BY <1>1, <2>1, SubSeqProperties DEF lo
  <2> QED BY <1>1, <2>2
<1>3. /\ hi \in Seq(S) /\ Len(hi) = Len(s) - i
      /\ \A j \in 1 .. (Len(s) - i) : hi[j] = s[i + j]
  <2>1. \A j \in (i + 1) .. Len(s) : s[j] \in S
    BY <1>1
  <2>2. /\ hi \in Seq(S)
        /\ Len(hi) = IF i + 1 <= Len(s) THEN Len(s) - (i + 1) + 1 ELSE 0
        /\ \A j \in 1 .. Len(s) - (i + 1) + 1 : hi[j] = s[(i + 1) + j - 1]
    <3> HIDE DEF hi
    <3> QED BY <1>1, <2>1, SubSeqProperties DEF hi
  <2> HIDE DEF hi
  <2>3. Len(hi) = Len(s) - i
    <3>1. Len(hi) = IF i + 1 <= Len(s) THEN Len(s) - (i + 1) + 1 ELSE 0
      BY <2>2
    <3>2. Len(s) \in Nat /\ i \in Nat /\ i <= Len(s)
      BY <1>1
    <3> QED BY <3>1, <3>2
  <2>4. ASSUME NEW j \in 1 .. (Len(s) - i) PROVE hi[j] = s[i + j]
    <3>1. j \in 1 .. Len(s) - (i + 1) + 1 /\ (i + 1) + j - 1 = i + j
      BY <1>1
    <3> QED BY <2>2, <3>1
  <2> QED BY <2>2, <2>3, <2>4
<1> HIDE DEF lo, hi
<1>4. /\ cut \in Seq(S) /\ Len(cut) = Len(s) - 1
      /\ \A j \in 1 .. (Len(s) - 1) : cut[j] = IF j <= i - 1 THEN lo[j]
                                               ELSE hi[j - (i - 1)]
  <2>1. Len(lo) + Len(hi) = Len(s) - 1
    BY <1>1, <1>2, <1>3
  <2>2. /\ cut \in Seq(S) /\ Len(cut) = Len(lo) + Len(hi)
        /\ \A j \in 1 .. Len(lo) + Len(hi) : cut[j] = IF j <= Len(lo) THEN lo[j]
                                                     ELSE hi[j - Len(lo)]
    BY <1>2, <1>3, ConcatProperties
  <2> HIDE DEF cut
  <2> QED BY <1>2, <2>1, <2>2
<1>5. DOMAIN cut = 1 .. (Len(s) - 1)
  BY <1>4, LenProperties
<1> HIDE DEF cut
<1>6. \A j \in 1 .. (Len(s) - 1) : cut[j] = IF j < i THEN s[j] ELSE s[j + 1]
  <2> SUFFICES ASSUME NEW j \in 1 .. (Len(s) - 1)
               PROVE  cut[j] = IF j < i THEN s[j] ELSE s[j + 1]
    OBVIOUS
  <2>1. CASE j < i
    BY <1>1, <1>2, <1>4, <2>1
  <2>2. CASE ~(j < i)
    <3>1. (j - (i - 1)) \in 1 .. (Len(s) - i) /\ i + (j - (i - 1)) = j + 1
      BY <1>1, <2>2
    <3>2. cut[j] = hi[j - (i - 1)]
      BY <1>1, <1>4, <2>2
    <3>3. hi[j - (i - 1)] = s[i + (j - (i - 1))]
      BY <1>3, <3>1
    <3> QED BY <2>2, <3>1, <3>2, <3>3
  <2> QED BY <2>1, <2>2
<1> QED BY <1>4, <1>5, <1>6 DEF cut, lo, hi

(* No other name gets lost.                                                *)
LEMMA NamesWithout ==
  ASSUME NEW S, NEW s \in Seq(S), NEW i \in 1 .. Len(s)
  PROVE  LET cut == SubSeq(s, 1, i - 1) \o SubSeq(s, i + 1, Len(s))
         IN  cut \in Seq(S) /\ NamesIn(cut) \cup {s[i]} = NamesIn(s)
<1> DEFINE cut == SubSeq(s, 1, i - 1) \o SubSeq(s, i + 1, Len(s))
<1>1. /\ Len(s) \in Nat /\ DOMAIN s = 1 .. Len(s)
      /\ cut \in Seq(S) /\ DOMAIN cut = 1 .. (Len(s) - 1)
      /\ \A j \in 1 .. (Len(s) - 1) : cut[j] = IF j < i THEN s[j] ELSE s[j + 1]
  BY LenProperties, WithoutEntry
<1> HIDE DEF cut
<1>2. ASSUME NEW x \in NamesIn(s) PROVE x \in NamesIn(cut) \cup {s[i]}
  <2>1. PICK j \in 1 .. Len(s) : x = s[j]
    BY <1>1 DEF NamesIn
  <2>2. CASE j < i
    <3>1. j \in 1 .. (Len(s) - 1) /\ cut[j] = x
      BY <1>1, <2>1, <2>2
    <3> QED BY <1>1, <3>1 DEF NamesIn
  <2>3. CASE j = i
    BY <2>1, <2>3
  <2>4. CASE j > i
    <3>1. (j - 1) \in 1 .. (Len(s) - 1) /\ ~(j - 1 < i) /\ (j - 1) + 1 = j
      BY <1>1, <2>4
    <3>2. cut[j - 1] = x
      BY <1>1, <2>1, <3>1
    <3> QED BY <1>1, <3>1, <3>2 DEF NamesIn
  <2> QED BY <1>1, <2>2, <2>3, <2>4
<1>3. ASSUME NEW x \in NamesIn(cut) PROVE x \in NamesIn(s)
  <2>1. PICK j \in 1 .. (Len(s) - 1) : x = cut[j]
    BY <1>1 DEF NamesIn
  <2>2. j \in 1 .. Len(s) /\ (j + 1) \in 1 .. Len(s)
    BY <1>1
  <2> QED BY <1>1, <2>1, <2>2 DEF NamesIn
<1>4. s[i] \in NamesIn(s)
  BY <1>1 DEF NamesIn
<1> QED BY <1>1, <1>2, <1>3, <1>4 DEF cut

-----------------------------------------------------------------------------
(* Every nonempty set of list positions has a first one.                   *)
LEMMA FirstPosition ==
  ASSUME NEW T \in SUBSET Nat, T # {}
  PROVE  \E x \in T : \A y \in T : x <= y
<1> DEFINE R == OpToRel(<, Nat)
<1>1. IsWellFoundedOn(R, Nat)
  BY NatLessThanWellFounded
<1>2. \A x, y \in Nat : x < y => <<x, y>> \in R
  BY DEF OpToRel
<1> HIDE DEF R
<1>3. PICK x \in T : \A y \in T : ~(<<y, x>> \in R)
  BY <1>1, WFMin
<1>4. \A y \in T : ~(y < x)
  BY <1>2, <1>3
<1> QED BY <1>3, <1>4

(* MarkCLOSasUsed finds the name where Available says there is one.        *)
LEMMA IndexFound ==
  ASSUME NEW p \in Pool, NEW name \in Available(p)
  PROVE  /\ IndexInAvailable(p, name) \in 1 .. Len(p.avail)
         /\ p.avail[IndexInAvailable(p, name)] = name
<1> DEFINE T == {i \in DOMAIN p.avail : p.avail[i] = name}
<1>1. p.avail \in Seq(PoolClos) /\ DOMAIN p.avail = 1 .. Len(p.avail)
      /\ Len(p.avail) \in Nat
  BY LenProperties DEF Pool
<1>2. T \in SUBSET Nat /\ T # {}
  BY <1>1 DEF Available
<1>3. \E i \in T : \A j \in T : i <= j
  <2> HIDE DEF T
  <2> QED BY <1>2, FirstPosition
<1>4. \E i \in DOMAIN p.avail :
        p.avail[i] = name /\ \A j \in DOMAIN p.avail : p.avail[j] = name => i <= j
  BY <1>3
<1> QED BY <1>1, <1>4 DEF IndexInAvailable

-----------------------------------------------------------------------------
(* The pool of a new process is sound: InitCLOSPool puts COS2, COS3, ...,  *)
(* all names but the two reserved ones, into the available list.           *)
LEMMA InitSound == Sound(InitCLOSPool)
<1> DEFINE a == InitCLOSPool.avail
<1>1. a = [i \in 1 .. (NumClos - 2) |-> i + 1]
  BY DEF InitCLOSPool, PoolOf
<1>2. NumClos \in Nat /\ NumClos >= 3 /\ NumClos - 2 \in Nat
  BY NumClosAssumption
<1>3. a \in Seq(PoolClos)
  <2>1. \A i \in 1 .. (NumClos - 2) : i + 1 \in PoolClos
    BY <1>2 DEF PoolClos
  <2> QED BY <1>1, <1>2, <2>1, IsASeq
<1>4. InitCLOSPool \in Pool
  BY <1>3 DEF InitCLOSPool, PoolOf, Pool, ClosName
<1>5. Available(InitCLOSPool) = PoolClos
  <2>1. Available(InitCLOSPool) = {i + 1 : i \in 1 .. (NumClos - 2)}
    BY <1>1 DEF Available
  <2>2. ASSUME NEW c \in PoolClos PROVE c \in {i + 1 : i \in 1 .. (NumClos - 2)}
    <3>1. c - 1 \in 1 .. (NumClos - 2) /\ c = (c - 1) + 1
      BY <1>2 DEF PoolClos
    <3> QED BY <3>1
  <2>3. ASSUME NEW i \in 1 .. (NumClos - 2) PROVE i + 1 \in PoolClos
    BY <1>2 DEF PoolClos
  <2> QED BY <2>1, <2>2, <2>3
<1>6. Used(InitCLOSPool) \subseteq PoolClos
  BY DEF Used
<1>7. SharedStaysUsed(InitCLOSPool)
  BY DEF InitCLOSPool, PoolOf, SharedStaysUsed
<1> QED BY <1>4, <1>5, <1>6, <1>7 DEF Sound, NoneLost

(* One entry more in the used list: UseAvailableCLOS and MarkCLOSasUsed    *)
(* move a name out of the available list, and the pool stays sound.        *)
LEMMA ReserveSound ==
  ASSUME NEW p, Sound(p), NEW c \in PoolClos, NEW a \in Seq(PoolClos),
         NamesIn(p.avail) = NamesIn(a) \cup {c},
         NEW f, f = [p.used EXCEPT ![c] = @ + 1],
         NEW q, q = PoolOf(a, f, p.shared)
  PROVE  /\ Sound(q) /\ q.shared = p.shared
         /\ Used(q) = Used(p) \cup {c}
         /\ Available(p) = Available(q) \cup {c}
<1>1. p.used \in [PoolClos -> Nat] /\ p.shared \in ClosName
  BY DEF Sound, Pool
<1>2. f \in [PoolClos -> Nat] /\ \A d \in PoolClos : f[d] > 0 <=> p.used[d] > 0 \/ d = c
  BY <1>1
<1>3. q \in Pool /\ q.avail = a /\ q.used = f /\ q.shared = p.shared
  BY <1>1, <1>2 DEF Pool, PoolOf
<1>4. Used(q) = Used(p) \cup {c}
  BY <1>2, <1>3 DEF Used
<1>5. Available(p) = Available(q) \cup {c}
  <2>1. Available(p) = NamesIn(p.avail) /\ Available(q) = NamesIn(q.avail)
    BY DEF Available, NamesIn
  <2> QED BY <1>3, <2>1
<1>6. Sound(q)
  BY <1>3, <1>4, <1>5 DEF Sound, NoneLost, SharedStaysUsed
<1> QED BY <1>3, <1>4, <1>5, <1>6

(* UseAvailableCLOS keeps the pool sound.  What it hands out is a name of  *)
(* the pool that was available and counts as used from then on.            *)
LEMMA UseSound ==
  ASSUME NEW p, Sound(p)
  PROVE  LET r == UseAvailableCLOS(p)
         IN  /\ Sound(r.pool)
             /\ r.ok \in BOOLEAN
             /\ r.ok => /\ r.clos \in PoolClos \cap Available(p) \cap Used(r.pool)
                        /\ Available(p) = Available(r.pool) \cup {r.clos}
             /\ ~r.ok => r.clos = NoClos /\ r.pool = p
<1>1. CASE p.avail = <<>>
  BY <1>1 DEF UseAvailableCLOS
<1>2. CASE p.avail # <<>>
  <2> DEFINE c == Head(p.avail)
             f == [p.used EXCEPT ![c] = @ + 1]
             a == Tail(p.avail)
             q == PoolOf(a, f, p.shared)
  <2>1. p.avail \in Seq(PoolClos)
    BY DEF Sound, Pool
  <2>2. /\ c \in PoolClos /\ a \in Seq(PoolClos)
        /\ NamesIn(p.avail) = NamesIn(a) \cup {c}
    BY <1>2, <2>1, NamesOfTail
  <2> HIDE DEF c, a
  <2>3. /\ Sound(q) /\ c \in Used(q) /\ c \in Available(p)
        /\ Available(p) = Available(q) \cup {c}
    <3>1. f = [p.used EXCEPT ![c] = @ + 1]
      OBVIOUS
    <3> HIDE DEF f
    <3>2. q = PoolOf(a, f, p.shared)
      OBVIOUS
    <3> HIDE DEF q
    <3> QED BY <2>2, <3>1, <3>2, ReserveSound
  <2>4. UseAvailableCLOS(p) = [ok |-> TRUE, clos |-> c, pool |-> q]
    BY <1>2 DEF UseAvailableCLOS, c, a
  <2> HIDE DEF q
  <2> QED BY <2>2, <2>3, <2>4
<1> QED BY <1>1, <1>2

(* GetSharedCLOS keeps the pool sound: the class it names as shared is in  *)
(* the used list.  It hands out the reserved shared class, or a name that  *)
(* it reserves now.                                                        *)
LEMMA SharedSound ==
  ASSUME NEW p, Sound(p)
  PROVE  LET r == GetSharedCLOS(p)
         IN  /\ Sound(r.pool)
             /\ r.ok \in BOOLEAN
             /\ r.ok => /\ r.clos \in PoolClos \cap Used(r.pool) /\ r.pool.shared = r.clos
                        /\ Available(p) \subseteq Available(r.pool) \cup {r.clos}
                        /\ r.clos \in Available(p) \/ r.pool = p
<1> DEFINE u == UseAvailableCLOS(p)
           q == PoolOf(u.pool.avail, u.pool.used, u.clos)
<1>1. CASE p.shared # NoClos
  <2>1. p.shared \in PoolClos /\ p.shared \in Used(p)
    BY <1>1 DEF Sound, Pool, ClosName, SharedStaysUsed
  <2> QED BY <1>1, <2>1 DEF GetSharedCLOS
<1>2. CASE p.shared = NoClos
  <2>1. /\ Sound(u.pool) /\ u.ok \in BOOLEAN
        /\ u.ok => /\ u.clos \in PoolClos \cap Available(p) \cap Used(u.pool)
                   /\ Available(p) = Available(u.pool) \cup {u.clos}
        /\ ~u.ok => u.clos = NoClos /\ u.pool = p
    BY UseSound
  <2>2. GetSharedCLOS(p) = [ok |-> u.ok, clos |-> u.clos, pool |-> q]
    BY <1>2 DEF GetSharedCLOS
  <2> HIDE DEF u
  <2>3. u.clos \in ClosName /\ u.pool \in Pool
    BY <2>1 DEF ClosName, Sound
  <2>4. /\ q \in Pool /\ q.avail = u.pool.avail /\ q.used = u.pool.used
        /\ q.shared = u.clos
    BY <2>3 DEF Pool, PoolOf
  <2> HIDE DEF q
  <2>5. Available(q) = Available(u.pool) /\ Used(q) = Used(u.pool)
    BY <2>4 DEF Available, Used
  <2>6. Sound(q)
    BY <2>1, <2>4, <2>5 DEF Sound, NoneLost, SharedStaysUsed
  <2> QED BY <2>1, <2>2, <2>4, <2>5, <2>6
<1> QED BY <1>1, <1>2

(* MarkCLOSasUsed keeps the pool sound: it takes no other name off the     *)
(* available list than the one it adds to the used list.                   *)
LEMMA MarkSound ==
  ASSUME NEW p, Sound(p), NEW name \in PoolClos
  PROVE  LET r == MarkCLOSasUsed(p, name)
         IN  /\ Sound(r.pool)
             /\ r.ok <=> name \in Available(p)
             /\ r.ok => name \in Used(r.pool)
<1>1. CASE name \notin Available(p)
  BY <1>1 DEF MarkCLOSasUsed
<1>2. CASE name \in Available(p)
  <2> DEFINE i == IndexInAvailable(p, name)
             a == SubSeq(p.avail, 1, i - 1) \o SubSeq(p.avail, i + 1, Len(p.avail))
             f == [p.used EXCEPT ![name] = @ + 1]
             q == PoolOf(a, f, p.shared)
  <2>1. p \in Pool /\ p.avail \in Seq(PoolClos)
    BY DEF Sound, Pool
  <2>2. i \in 1 .. Len(p.avail) /\ p.avail[i] = name
    BY <1>2, <2>1, IndexFound
  <2> HIDE DEF i
  <2>3. a \in Seq(PoolClos) /\ NamesIn(a) \cup {name} = NamesIn(p.avail)
    BY <2>1, <2>2, NamesWithout
  <2>4. MarkCLOSasUsed(p, name) = [ok |-> TRUE, pool |-> q]
    BY <1>2 DEF MarkCLOSasUsed, i
  <2> HIDE DEF a
  <2>5. Sound(q) /\ name \in Used(q)
    <3>1. f = [p.used EXCEPT ![name] = @ + 1]
      OBVIOUS
    <3> HIDE DEF f
    <3>2. q = PoolOf(a, f, p.shared)
      OBVIOUS
    <3> HIDE DEF q
    <3> QED BY <2>3, <3>1, <3>2, ReserveSound
  <2> HIDE DEF q
  <2> QED BY <1>2, <2>4, <2>5
<1> QED BY <1>1, <1>2

(* ReturnClos keeps the pool sound whatever name it is given: it makes the *)
(* name available before an occurrence leaves the used list, and when it   *)
(* is the shared class the name is forgotten.  No class becomes reserved.  *)
LEMMA ReturnSound ==
  ASSUME NEW p, Sound(p), NEW name \in ClosName
  PROVE  /\ Sound(ReturnClos(p, name))
         /\ Available(p) \subseteq Available(ReturnClos(p, name))
<1> DEFINE q == ReturnClos(p, name)
           a == Append(p.avail, name)
<1>1. /\ p \in Pool /\ p.avail \in Seq(PoolClos)
      /\ p.used \in [PoolClos -> Nat] /\ p.shared \in ClosName
  BY DEF Sound, Pool
<1>2. CASE name = NoClos \/ (name # p.shared /\ name \notin Used(p))
  BY <1>2 DEF ReturnClos
<1>3. ASSUME name \in PoolClos
      PROVE  /\ a \in Seq(PoolClos) /\ NamesIn(a) = Available(p) \cup {name}
  <2>1. NamesIn(p.avail) = Available(p)
    BY DEF NamesIn, Available
  <2> QED BY <1>1, <1>3, <2>1, NamesOfAppend
<1> HIDE DEF a
<1>4. CASE name # NoClos /\ name = p.shared
  <2>1. name \in PoolClos
    BY <1>4 DEF ClosName
  <2>2. q = PoolOf(a, p.used, NoClos)
    BY <1>4 DEF ReturnClos, a
  <2> HIDE DEF q
  <2>3. q \in Pool /\ q.avail = a /\ q.used = p.used /\ q.shared = NoClos
    BY <1>1, <1>3, <2>1, <2>2 DEF Pool, PoolOf, ClosName
  <2>4. Used(q) = Used(p) /\ Available(q) = Available(p) \cup {name}
    BY <1>3, <2>1, <2>3 DEF Used, Available, NamesIn
  <2>5. Sound(q)
    BY <2>1, <2>3, <2>4 DEF Sound, NoneLost, SharedStaysUsed
  <2> QED BY <2>4, <2>5 DEF q
<1>5. CASE name # NoClos /\ name # p.shared /\ name \in Used(p)
  <2> DEFINE f == [p.used EXCEPT ![name] = @ - 1]
  <2>1. name \in PoolClos /\ p.used[name] > 0
    BY <1>5 DEF Used
  <2>2. /\ f \in [PoolClos -> Nat]
        /\ \A d \in PoolClos : d # name => f[d] = p.used[d]
    BY <1>1, <2>1
  <2>3. q = PoolOf(a, f, p.shared)
    BY <1>5 DEF ReturnClos, a
  <2> HIDE DEF f, q
  <2>4. q \in Pool /\ q.avail = a /\ q.used = f /\ q.shared = p.shared
    BY <1>1, <1>3, <2>1, <2>2, <2>3 DEF Pool, PoolOf
  <2>5. Used(p) \subseteq Used(q) \cup {name} /\ Used(q) \subseteq PoolClos
    BY <1>1, <2>2, <2>4 DEF Used
  <2>6. Available(q) = Available(p) \cup {name}
    BY <1>3, <2>1, <2>4 DEF Available, NamesIn
  <2>7. NoneLost(q)
    BY <2>1, <2>5, <2>6 DEF Sound, NoneLost
  <2>8. SharedStaysUsed(q)
    BY <1>5, <2>4, <2>5 DEF Sound, SharedStaysUsed
  <2> QED BY <2>4, <2>6, <2>7, <2>8 DEF Sound, q
<1> QED BY <1>2, <1>4, <1>5

-----------------------------------------------------------------------------
(* A pool without a shared class.                                          *)

(* Nobody has asked for shared cache: a name occurs once, in one of the    *)
(* two lists.  (ReturnClos leaves the shared class in the used list, which *)
(* is how a name gets into both.)                                          *)
Once(s) == \A i, j \in DOMAIN s : s[i] = s[j] => i = j

Clean(p) == /\ p.shared = NoClos
            /\ Once(p.avail)
            /\ Available(p) \cap Used(p) = {}
            /\ \A c \in PoolClos : p.used[c] <= 1

(* A list to which a new name is appended, or from which one is taken.     *)
LEMMA OnceKept ==
  ASSUME NEW S, NEW s \in Seq(S), Once(s)
  PROVE  /\ \A c \in S : c \notin NamesIn(s) => Once(Append(s, c))
         /\ s # <<>> => Once(Tail(s)) /\ Head(s) \notin NamesIn(Tail(s))
         /\ \A i \in 1 .. Len(s) :
               LET cut == SubSeq(s, 1, i - 1) \o SubSeq(s, i + 1, Len(s))
               IN  Once(cut) /\ s[i] \notin NamesIn(cut)
<1>1. Len(s) \in Nat /\ DOMAIN s = 1 .. Len(s)
  BY LenProperties
<1>2. ASSUME NEW c \in S, c \notin NamesIn(s) PROVE Once(Append(s, c))
  <2> DEFINE a == Append(s, c)
  <2>1. /\ DOMAIN a = 1 .. (Len(s) + 1) /\ a[Len(s) + 1] = c
        /\ \A i \in 1 .. Len(s) : a[i] = s[i]
    BY AppendProperties, LenProperties
  <2>2. \A i \in 1 .. Len(s) : s[i] # c
    BY <1>1, <1>2 DEF NamesIn
  <2> HIDE DEF a
  <2> QED BY <1>1, <2>1, <2>2 DEF Once, a
<1>3. ASSUME s # <<>> PROVE Once(Tail(s)) /\ Head(s) \notin NamesIn(Tail(s))
  <2> DEFINE u == Tail(s)
  <2>1. /\ u \in Seq(S) /\ Len(u) = Len(s) - 1 /\ \A i \in 1 .. Len(u) : u[i] = s[i + 1]
    BY <1>3, HeadTailProperties
  <2>2. DOMAIN u = 1 .. (Len(s) - 1) /\ Len(s) # 0
    BY <1>3, <2>1, LenProperties, EmptySeq
  <2>3. Head(s) = s[1]
    BY <1>3, <1>1
  <2> HIDE DEF u
  <2>4. \A i \in 1 .. (Len(s) - 1) : /\ u[i] = s[i + 1] /\ i + 1 \in 1 .. Len(s)
                                     /\ 1 \in 1 .. Len(s) /\ i + 1 # 1
    BY <1>1, <2>1, <2>2
  <2>5. \A i, j \in 1 .. (Len(s) - 1) : i + 1 = j + 1 => i = j
    BY <1>1
  <2>6. Once(u)
    BY <1>1, <2>2, <2>4, <2>5 DEF Once
  <2>7. \A i \in 1 .. (Len(s) - 1) : u[i] # s[1]
    BY <1>1, <2>4 DEF Once
  <2> QED BY <2>2, <2>3, <2>6, <2>7 DEF NamesIn, u
<1>4. ASSUME NEW i \in 1 .. Len(s), NEW cut,
             cut = SubSeq(s, 1, i - 1) \o SubSeq(s, i + 1, Len(s))
      PROVE  Once(cut) /\ s[i] \notin NamesIn(cut)
  <2> DEFINE at(j) == IF j < i THEN j ELSE j + 1
  <2>1. /\ DOMAIN cut = 1 .. (Len(s) - 1)
        /\ \A j \in 1 .. (Len(s) - 1) : cut[j] = IF j < i THEN s[j] ELSE s[j + 1]
    BY <1>4, WithoutEntry
  <2>2. \A j \in 1 .. (Len(s) - 1) : cut[j] = s[at(j)] /\ at(j) \in 1 .. Len(s) /\ at(j) # i
    BY <1>1, <2>1
  <2>3. \A j, k \in 1 .. (Len(s) - 1) : at(j) = at(k) => j = k
    BY <1>1
  <2> HIDE DEF at
  <2> QED BY SMTT(30), <1>1, <2>1, <2>2, <2>3 DEF Once, NamesIn
<1> QED BY <1>2, <1>3, <1>4

(* InitCLOSPool.                                                           *)
LEMMA InitClean == Clean(InitCLOSPool)
<1> DEFINE p == InitCLOSPool
<1>1. /\ p.avail = [i \in 1 .. (NumClos - 2) |-> i + 1] /\ p.shared = NoClos
      /\ p.used = [c \in PoolClos |-> 0]
  BY DEF InitCLOSPool, PoolOf
<1> HIDE DEF p
<1>2. Used(p) = {} /\ \A c \in PoolClos : p.used[c] <= 1
  BY <1>1 DEF Used
<1>3. Once(p.avail)
  BY <1>1, NumClosAssumption DEF Once
<1> QED BY <1>1, <1>2, <1>3 DEF Clean, p

(* UseAvailableCLOS and MarkCLOSasUsed, which move a name from one list to *)
(* the other.                                                              *)
LEMMA ReserveClean ==
  ASSUME NEW p, Sound(p), Clean(p), NEW c \in PoolClos, NEW a \in Seq(PoolClos),
         Once(a), c \notin NamesIn(a), NamesIn(p.avail) = NamesIn(a) \cup {c},
         NEW f, f = [p.used EXCEPT ![c] = p.used[c] + 1], NEW q, q = PoolOf(a, f, p.shared)
  PROVE  /\ Clean(q) /\ c \in Available(p) \ Used(p)
         /\ Used(q) = Used(p) \cup {c} /\ Available(q) = Available(p) \ {c}
<1>1. p.used \in [PoolClos -> Nat] /\ NamesIn(p.avail) = Available(p)
  BY DEF Sound, Pool, NamesIn, Available
<1>2. c \in Available(p) \ Used(p) /\ p.used[c] = 0
  BY <1>1 DEF Clean, Used
<1>3. q.avail = a /\ q.used = f /\ q.shared = NoClos
  BY DEF PoolOf, Clean
<1>4. \A d \in PoolClos : f[d] = IF d = c THEN 1 ELSE p.used[d]
  BY <1>1, <1>2
<1>5. Used(q) = Used(p) \cup {c}
  BY <1>1, <1>3, <1>4 DEF Used
<1>6. Available(q) = Available(p) \ {c}
  <2>1. Available(q) = NamesIn(a)
    BY <1>3 DEF Available, NamesIn
  <2> QED BY <1>1, <2>1
<1>7. \A d \in PoolClos : f[d] <= 1
  BY <1>4 DEF Clean
<1> QED BY <1>2, <1>3, <1>5, <1>6, <1>7 DEF Clean

(* UseAvailableCLOS reserves the first available name, which nobody had.   *)
LEMMA UseClean ==
  ASSUME NEW p, Sound(p), Clean(p), UseAvailableCLOS(p).ok
  PROVE  LET r == UseAvailableCLOS(p)
         IN  /\ Clean(r.pool) /\ r.clos \in PoolClos /\ r.clos \in Available(p) \ Used(p)
             /\ Used(r.pool) = Used(p) \cup {r.clos}
             /\ Available(r.pool) = Available(p) \ {r.clos}
<1> DEFINE c == Head(p.avail)
           a == Tail(p.avail)
           f == [p.used EXCEPT ![c] = p.used[c] + 1]
           q == PoolOf(a, f, p.shared)
<1>1. p.avail # <<>> /\ UseAvailableCLOS(p) = [ok |-> TRUE, clos |-> c, pool |-> q]
  BY DEF UseAvailableCLOS
<1>2. p.avail \in Seq(PoolClos) /\ Once(p.avail)
  BY DEF Sound, Pool, Clean
<1>3. /\ c \in PoolClos /\ a \in Seq(PoolClos) /\ NamesIn(p.avail) = NamesIn(a) \cup {c}
      /\ Once(a) /\ c \notin NamesIn(a)
  BY <1>1, <1>2, NamesOfTail, OnceKept
<1>3a. f = [p.used EXCEPT ![c] = p.used[c] + 1]
  OBVIOUS
<1> HIDE DEF c, a, f
<1>4. /\ Clean(q) /\ c \in Available(p) \ Used(p)
      /\ Used(q) = Used(p) \cup {c} /\ Available(q) = Available(p) \ {c}
  BY <1>3, <1>3a, ReserveClean
<1> HIDE DEF q
<1> QED BY <1>1, <1>3, <1>4

(* MarkCLOSasUsed, when it finds the name.                                 *)
LEMMA MarkClean ==
  ASSUME NEW p, Sound(p), Clean(p), NEW name \in PoolClos, MarkCLOSasUsed(p, name).ok
  PROVE  LET r == MarkCLOSasUsed(p, name)
         IN  /\ Clean(r.pool) /\ name \in Available(p) \ Used(p)
             /\ Used(r.pool) = Used(p) \cup {name}
<1> DEFINE i == IndexInAvailable(p, name)
           a == SubSeq(p.avail, 1, i - 1) \o SubSeq(p.avail, i + 1, Len(p.avail))
           f == [p.used EXCEPT ![name] = p.used[name] + 1]
           q == PoolOf(a, f, p.shared)
<1>1. name \in Available(p) /\ MarkCLOSasUsed(p, name) = [ok |-> TRUE, pool |-> q]
  BY DEF MarkCLOSasUsed
<1>2. p \in Pool /\ p.avail \in Seq(PoolClos) /\ Once(p.avail)
  BY DEF Sound, Pool, Clean
<1>3. i \in 1 .. Len(p.avail) /\ p.avail[i] = name
  BY <1>1, <1>2, IndexFound
<1> HIDE DEF i
<1>4. /\ a \in Seq(PoolClos) /\ NamesIn(a) \cup {name} = NamesIn(p.avail)
      /\ Once(a) /\ name \notin NamesIn(a)
  BY <1>2, <1>3, NamesWithout, OnceKept
<1>4a. f = [p.used EXCEPT ![name] = p.used[name] + 1]
  OBVIOUS
<1> HIDE DEF a, f
<1>5. /\ Clean(q) /\ name \in Available(p) \ Used(p) /\ Used(q) = Used(p) \cup {name}
  BY <1>4, <1>4a, ReserveClean
<1> HIDE DEF q
<1> QED BY <1>1, <1>5

(* ReturnClos gives back a name that is in use, and does nothing about any *)
(* other.                                                                  *)
LEMMA ReturnClean ==
  ASSUME NEW p, Sound(p), Clean(p), NEW name \in PoolClos, NEW q, q = ReturnClos(p, name)
  PROVE  /\ Clean(q)
         /\ name \notin Used(p) => q = p
         /\ name \in Used(p) => /\ Used(q) = Used(p) \ {name}
                                /\ Available(q) = Available(p) \cup {name}
<1>1. name # NoClos /\ name # p.shared
  BY NoClosAssumption, NumClosAssumption DEF PoolClos, Clean
<1>2. CASE name \notin Used(p)
  BY <1>1, <1>2 DEF ReturnClos
<1>3. CASE name \in Used(p)
  <2> DEFINE a == Append(p.avail, name)
             f == [p.used EXCEPT ![name] = @ - 1]
  <2>1. /\ p.avail \in Seq(PoolClos) /\ p.used \in [PoolClos -> Nat]
        /\ NamesIn(p.avail) = Available(p) /\ Once(p.avail)
    BY DEF Sound, Pool, NamesIn, Available, Clean
  <2>2. name \notin Available(p) /\ p.used[name] = 1
    BY <1>3, <2>1 DEF Clean, Used
  <2>3. NamesIn(a) = Available(p) \cup {name} /\ Once(a)
    BY <2>1, <2>2, NamesOfAppend, OnceKept
  <2>4. \A d \in PoolClos : f[d] = IF d = name THEN 0 ELSE p.used[d]
    BY <2>1, <2>2
  <2>5. q.avail = a /\ q.used = f /\ q.shared = NoClos
    BY <1>1, <1>3 DEF ReturnClos, PoolOf, Clean
  <2> HIDE DEF a, f
  <2>6. Used(q) = Used(p) \ {name} /\ \A d \in PoolClos : q.used[d] <= 1
    BY <2>1, <2>4, <2>5 DEF Used, Clean
  <2>7. Available(q) = Available(p) \cup {name}
    BY <2>3, <2>5 DEF Available, NamesIn
  <2> QED BY <1>3, <2>3, <2>5, <2>6, <2>7 DEF Clean
<1> QED BY <1>2, <1>3

-----------------------------------------------------------------------------
(* The workload database.                                                  *)

(* CreateWorkload changes the id of the workload it stores, nothing else.  *)
LEMMA WithId ==
  ASSUME NEW w \in RDTWorkLoad, NEW id \in Ids
  PROVE  LET v == [w EXCEPT !.id = id]
         IN  /\ v \in RDTWorkLoad /\ v.id = id
             /\ v.tasks = w.tasks /\ v.cores = w.cores /\ v.uuid = w.uuid
             /\ v.cos = w.cos /\ v.max = w.max /\ v.min = w.min /\ v.mba = w.mba
             /\ v.policy = w.policy /\ v # NoRow
<1>1. [w EXCEPT !.id = id] \in RDTWorkLoad
  BY DEF RDTWorkLoad
<1> QED BY <1>1, NoRowAssumption DEF RDTWorkLoad

(* What policies and PATCHes change of a workload.                         *)
SameButParams(v, w) ==
  /\ v \in RDTWorkLoad /\ v # NoRow
  /\ v.id = w.id /\ v.tasks = w.tasks /\ v.cores = w.cores
  /\ v.uuid = w.uuid /\ v.cos = w.cos /\ v.origin = w.origin

With(w, policy, max, min, mba, plug) ==
  [w EXCEPT !.policy = policy, !.max = max, !.min = min, !.mba = mba, !.plug = plug]

(* Other parameters leave id, members, class and UUID alone.               *)
LEMMA WithParams ==
  ASSUME NEW w \in RDTWorkLoad, NEW policy \in PolicyName \cup {NoPolicy},
         NEW max \in WaysOrNil, NEW min \in WaysOrNil, NEW mba \in Mba,
         NEW plug \in BOOLEAN
  PROVE  /\ SameButParams(With(w, policy, max, min, mba, plug), w)
         /\ With(w, policy, max, min, mba, plug).policy = policy
         /\ With(w, policy, max, min, mba, plug).max = max
         /\ With(w, policy, max, min, mba, plug).min = min
         /\ With(w, policy, max, min, mba, plug).mba = mba
<1>1. With(w, policy, max, min, mba, plug) \in RDTWorkLoad
  BY DEF With, RDTWorkLoad
<1> QED BY <1>1, NoRowAssumption DEF With, RDTWorkLoad, SameButParams

(* fillWorkloadByPolicy overwrites the cache values and adds plugins; the  *)
(* bandwidth stays, and everything if there is no such policy.             *)
LEMMA Filled ==
  ASSUME NEW w \in RDTWorkLoad
  PROVE  LET f == FilledByPolicy(w)
         IN  /\ SameButParams(f, w)
             /\ f.policy = w.policy /\ f.mba = w.mba
             /\ w.policy \notin DOMAIN Policies => f = w
             /\ w.policy \in DOMAIN Policies =>
                  /\ f.max \in {w.max, Policies[w.policy].max}
                  /\ f.min \in {w.min, Policies[w.policy].min}
<1> DEFINE p      == Policies[w.policy]
           cache  == p.max # Nil /\ p.min # Nil
           max    == IF cache THEN p.max ELSE w.max
           min    == IF cache THEN p.min ELSE w.min
           filled == [w EXCEPT !.max = IF cache THEN p.max ELSE @,
                               !.min = IF cache THEN p.min ELSE @]
           more   == [filled EXCEPT !.plug = @ \/ p.plug]
           both   == w.plug \/ p.plug
           all(plug) == With(w, w.policy, max, min, w.mba, plug)
<1>1. /\ w.policy \in PolicyName \cup {NoPolicy} /\ w.max \in WaysOrNil
      /\ w.min \in WaysOrNil /\ w.mba \in Mba /\ w.plug \in BOOLEAN
  BY DEF RDTWorkLoad
<1>2. CASE w.policy \notin DOMAIN Policies
  BY <1>2, NoRowAssumption DEF FilledByPolicy, SameButParams
<1>3. CASE w.policy \in DOMAIN Policies
  <2>1. p.max \in WaysOrNil /\ p.min \in WaysOrNil /\ p.plug \in BOOLEAN
    BY <1>3, PoliciesAssumption DEF Policy
  <2>2. max \in WaysOrNil /\ min \in WaysOrNil
    BY <1>1, <2>1
  <2>3. filled = all(w.plug) /\ more = all(both)
    BY DEF RDTWorkLoad, With
  <2>4. FilledByPolicy(w) \in {all(w.plug), all(both)}
    <3>1. FilledByPolicy(w) = IF CacheTogether(filled) THEN more ELSE filled
      BY <1>3, Zenon DEF FilledByPolicy
    <3> HIDE DEF filled, more, all, both
    <3> QED BY <2>3, <3>1
  <2>5. both \in BOOLEAN
    OBVIOUS
  <2>6. ASSUME NEW plug \in BOOLEAN
        PROVE  /\ SameButParams(all(plug), w) /\ all(plug).policy = w.policy
               /\ all(plug).mba = w.mba /\ all(plug).max = max /\ all(plug).min = min
    <3> HIDE DEF max, min
    <3> QED BY <1>1, <2>2, WithParams
  <2>7. max \in {w.max, p.max} /\ min \in {w.min, p.min}
    OBVIOUS
  <2> HIDE DEF all, max, min, filled, more, both
  <2>8. \E plug \in BOOLEAN : FilledByPolicy(w) = all(plug)
    BY <1>1, <2>4, <2>5
  <2> QED BY <1>3, <2>6, <2>7, <2>8
<1> QED BY <1>2, <1>3

(* What the parameters of a workload may become under a PATCH.             *)
ParamsOfPatch(v, w, p) ==
  /\ v.policy \in {w.policy, p.policy, NoPolicy}
  /\ v.max \in {w.max, p.max} \cup {Policies[name].max : name \in DOMAIN Policies}
  /\ v.min \in {w.min, p.min} \cup {Policies[name].min : name \in DOMAIN Policies}
  /\ \A unit \in MbaMode : v.mba[unit] \in {w.mba[unit], p.mba[unit]}
  /\ p.policy # NoPolicy => v.policy = p.policy /\ v.mba = w.mba
  /\ p.policy = NoPolicy /\ p.max = Nil /\ p.min = Nil /\ p.mba = NoMba =>
        v.policy = w.policy

(* A PATCH of the parameters leaves id, members, class and UUID alone.     *)
LEMMA MergedParams ==
  ASSUME NEW w \in RDTWorkLoad, NEW p \in Request
  PROVE  SameButParams(Merged(w, p), w) /\ ParamsOfPatch(Merged(w, p), w, p)
<1> DEFINE f      == FilledByPolicy(w)
           change == [w EXCEPT !.policy = p.policy]
           g      == FilledByPolicy(change)
           policy == IF p.max = Nil /\ p.min = Nil /\ p.mba = NoMba THEN f.policy ELSE NoPolicy
           max    == IF p.max = Nil THEN f.max ELSE p.max
           min    == IF p.min = Nil THEN f.min ELSE p.min
           mba    == [unit \in MbaMode |-> IF p.mba[unit] = Nil THEN f.mba[unit]
                                            ELSE p.mba[unit]]
<1>1. /\ p.policy \in PolicyName \cup {NoPolicy} /\ p.max \in WaysOrNil
      /\ p.min \in WaysOrNil /\ p.mba \in Mba
  BY DEF Request
<1>2. /\ w.policy \in PolicyName \cup {NoPolicy} /\ w.max \in WaysOrNil
      /\ w.min \in WaysOrNil /\ w.mba \in Mba
  BY DEF RDTWorkLoad
<1>3. /\ SameButParams(f, w) /\ f.policy = w.policy /\ f.mba = w.mba
      /\ f.max \in {w.max} \cup {Policies[name].max : name \in DOMAIN Policies}
      /\ f.min \in {w.min} \cup {Policies[name].min : name \in DOMAIN Policies}
  <2> HIDE DEF f
  <2>1. SameButParams(f, w) /\ f.policy = w.policy /\ f.mba = w.mba
    BY Filled DEF f
  <2>2. CASE w.policy \notin DOMAIN Policies
    <3>1. f = w
      BY <2>2, Filled DEF f
    <3> QED BY <2>1, <3>1
  <2>3. CASE w.policy \in DOMAIN Policies
    <3>1. f.max \in {w.max, Policies[w.policy].max} /\ f.min \in {w.min, Policies[w.policy].min}
      BY <2>3, Filled DEF f
    <3> QED BY <2>1, <2>3, <3>1
  <2> QED BY <2>2, <2>3
<1>4. CASE p.policy = w.policy /\ w.policy # NoPolicy
  <2>1. Merged(w, p) = w
    BY <1>4 DEF Merged
  <2>2. SameButParams(w, w)
    BY NoRowAssumption DEF SameButParams
  <2>3. ParamsOfPatch(w, w, p)
    BY <1>4, Zenon DEF ParamsOfPatch
  <2> QED BY <2>1, <2>2, <2>3
<1>5. CASE p.policy # w.policy /\ p.policy # NoPolicy
  <2>1. Merged(w, p) = g
    BY <1>5 DEF Merged
  <2>2. /\ change \in RDTWorkLoad /\ SameButParams(change, w) /\ change.policy = p.policy
        /\ change.max = w.max /\ change.min = w.min /\ change.mba = w.mba
    BY <1>1, NoRowAssumption DEF RDTWorkLoad, SameButParams
  <2> HIDE DEF change
  <2>3. /\ SameButParams(g, change) /\ g.policy = p.policy /\ g.mba = w.mba
        /\ change.policy \notin DOMAIN Policies => g = change
        /\ change.policy \in DOMAIN Policies =>
             /\ g.max \in {w.max, Policies[change.policy].max}
             /\ g.min \in {w.min, Policies[change.policy].min}
    BY <2>2, Filled
  <2> HIDE DEF g
  <2>4. SameButParams(g, w)
    BY <2>2, <2>3 DEF SameButParams
  <2>5. ParamsOfPatch(g, w, p)
    <3>1. /\ g.max \in {w.max, p.max} \cup {Policies[name].max : name \in DOMAIN Policies}
          /\ g.min \in {w.min, p.min} \cup {Policies[name].min : name \in DOMAIN Policies}
      BY <2>2, <2>3
    <3>2. g.policy \in {w.policy, p.policy, NoPolicy}
      BY <2>3
    <3>3. \A unit \in MbaMode : g.mba[unit] \in {w.mba[unit], p.mba[unit]}
      BY <2>3
    <3> QED BY <1>5, <2>3, <3>1, <3>2, <3>3, Zenon DEF ParamsOfPatch
  <2> QED BY <2>1, <2>4, <2>5
<1>6. CASE p.policy = NoPolicy
  <2> HIDE DEF f
  <2>1. Merged(w, p) = [f EXCEPT !.policy = policy, !.max = max, !.min = min, !.mba = mba]
    BY <1>6 DEF Merged, f
  <2>2. f \in RDTWorkLoad
    BY <1>3 DEF SameButParams
  <2>3. /\ f.policy \in PolicyName \cup {NoPolicy} /\ f.max \in WaysOrNil
        /\ f.min \in WaysOrNil /\ f.mba \in Mba /\ f.plug \in BOOLEAN
    BY <2>2 DEF RDTWorkLoad
  <2>4. /\ policy \in PolicyName \cup {NoPolicy} /\ max \in WaysOrNil /\ min \in WaysOrNil
        /\ mba \in Mba
    BY <1>1, <2>3 DEF Mba
  <2>5. /\ policy \in {w.policy, NoPolicy}
        /\ p.max = Nil /\ p.min = Nil /\ p.mba = NoMba => policy = w.policy
        /\ max \in {w.max, p.max} \cup {Policies[name].max : name \in DOMAIN Policies}
        /\ min \in {w.min, p.min} \cup {Policies[name].min : name \in DOMAIN Policies}
        /\ \A unit \in MbaMode : mba[unit] \in {w.mba[unit], p.mba[unit]}
    BY <1>3
  <2> HIDE DEF policy, max, min, mba
  <2>6. Merged(w, p) = With(f, policy, max, min, mba, f.plug)
    BY <2>1, <2>2 DEF With, RDTWorkLoad
  <2> DEFINE v == With(f, policy, max, min, mba, f.plug)
  <2>7. /\ SameButParams(v, f) /\ v.policy = policy /\ v.max = max /\ v.min = min
        /\ v.mba = mba
    BY <2>2, <2>3, <2>4, WithParams
  <2> HIDE DEF v
  <2>8. SameButParams(v, w)
    BY <1>3, <2>7 DEF SameButParams
  <2>9. ParamsOfPatch(v, w, p)
    BY <1>6, <2>5, <2>7 DEF ParamsOfPatch
  <2> QED BY <2>6, <2>8, <2>9 DEF v
<1> QED BY <1>4, <1>5, <1>6

NewMembersOf(w, p) == {WithMembers(w, p), [WithMembers(w, p) EXCEPT !.plug = p.plug]}

(* The new members of a PATCH leave everything else alone.                 *)
LEMMA NewMembers ==
  ASSUME NEW w \in RDTWorkLoad, NEW p \in Request, NEW v \in NewMembersOf(w, p)
  PROVE  /\ v \in RDTWorkLoad /\ v # NoRow
         /\ v.id = w.id /\ v.uuid = w.uuid /\ v.cos = w.cos /\ v.origin = w.origin
         /\ v.policy = w.policy /\ v.max = w.max /\ v.min = w.min /\ v.mba = w.mba
         /\ v.tasks = (IF p.tasks # {} THEN p.tasks ELSE w.tasks)
         /\ v.cores = (IF p.cores # {} THEN p.cores ELSE w.cores)
<1>1. p.tasks \in SUBSET Tasks /\ p.cores \in SUBSET Cores /\ p.plug \in BOOLEAN
  BY DEF Request
<1> DEFINE tasks == IF p.tasks # {} THEN p.tasks ELSE w.tasks
           cores == IF p.cores # {} THEN p.cores ELSE w.cores
<1>2. tasks \in SUBSET Tasks /\ cores \in SUBSET Cores
  BY <1>1 DEF RDTWorkLoad
<1> HIDE DEF tasks, cores
<1> DEFINE x == [w EXCEPT !.tasks = tasks, !.cores = cores]
<1>3. WithMembers(w, p) = x
  BY DEF WithMembers, tasks, cores
<1>4. /\ x \in RDTWorkLoad
      /\ x.id = w.id /\ x.uuid = w.uuid /\ x.cos = w.cos /\ x.origin = w.origin
      /\ x.policy = w.policy /\ x.max = w.max /\ x.min = w.min /\ x.mba = w.mba
      /\ x.tasks = tasks /\ x.cores = cores
  BY <1>2 DEF RDTWorkLoad
<1> HIDE DEF x
<1> DEFINE y == [x EXCEPT !.plug = p.plug]
<1>5. /\ y \in RDTWorkLoad
      /\ y.id = x.id /\ y.uuid = x.uuid /\ y.cos = x.cos /\ y.origin = x.origin
      /\ y.policy = x.policy /\ y.max = x.max /\ y.min = x.min /\ y.mba = x.mba
      /\ y.tasks = x.tasks /\ y.cores = x.cores
  BY <1>1, <1>4 DEF RDTWorkLoad
<1> HIDE DEF y
<1>6. v = x \/ v = y
  BY <1>3 DEF y, NewMembersOf
<1>7. tasks = (IF p.tasks # {} THEN p.tasks ELSE w.tasks)
      /\ cores = (IF p.cores # {} THEN p.cores ELSE w.cores)
  BY DEF tasks, cores
<1> QED BY <1>4, <1>5, <1>6, <1>7, NoRowAssumption

(* The workload of a PATCH, to be stored as it is or enforced again.       *)
LEMMA PatchedParams ==
  ASSUME NEW w \in RDTWorkLoad, NEW p \in Request,
         NEW v \in {Patched(w, p), WithMembers(Merged(w, p), p)}
  PROVE  /\ v \in RDTWorkLoad /\ v # NoRow
         /\ v.id = w.id /\ v.uuid = w.uuid /\ v.cos = w.cos /\ v.origin = w.origin
         /\ v.policy = Merged(w, p).policy /\ v.mba = Merged(w, p).mba
         /\ ParamsOfPatch(v, w, p)
         /\ v.tasks = (IF p.tasks # {} THEN p.tasks ELSE w.tasks)
         /\ v.cores = (IF p.cores # {} THEN p.cores ELSE w.cores)
<1> DEFINE u == Merged(w, p)
<1>1. SameButParams(u, w) /\ ParamsOfPatch(u, w, p)
  BY MergedParams
<1>2. v \in NewMembersOf(u, p)
  BY DEF Patched, NewMembersOf
<1> HIDE DEF u
<1>3. u \in RDTWorkLoad
  BY <1>1 DEF SameButParams
<1>4. /\ v \in RDTWorkLoad /\ v # NoRow
      /\ v.id = u.id /\ v.uuid = u.uuid /\ v.cos = u.cos /\ v.origin = u.origin
      /\ v.policy = u.policy /\ v.max = u.max /\ v.min = u.min /\ v.mba = u.mba
      /\ v.tasks = (IF p.tasks # {} THEN p.tasks ELSE u.tasks)
      /\ v.cores = (IF p.cores # {} THEN p.cores ELSE u.cores)
  BY <1>2, <1>3, NewMembers
<1>5. ParamsOfPatch(v, w, p)
  BY <1>1, <1>4 DEF ParamsOfPatch
<1> QED BY <1>1, <1>4, <1>5 DEF SameButParams, u

(* The fields of a database.                                               *)
LEMMA DatabaseFields ==
  ASSUME NEW d \in Database
  PROVE  /\ d.rows \in [Ids -> RDTWorkLoad \cup {NoRow}]
         /\ d.mapping \in [UUIDs -> Ids \cup {NoId}]
         /\ d.seq \in 0 .. MaxSeq
         /\ \A i \in RowIds(d) : i \in Ids /\ d.rows[i] \in RDTWorkLoad
BY DEF Database, RowIds

(* CreateWorkload stores the workload under the posted or the next         *)
(* generated id.                                                           *)
LEMMA CreateEffect ==
  ASSUME NEW d \in Database, NEW w \in RDTWorkLoad, NextIdExists(d, w),
         NEW k, k = CreatedId(d, w), NEW e, e = CreateWorkload(d, w)
  PROVE  /\ e \in Database
         /\ k \in Ids
         /\ RowIds(e) = RowIds(d) \cup {k}
         /\ e.rows[k].id = k /\ e.rows[k].uuid = w.uuid
         /\ e.rows[k].tasks = w.tasks /\ e.rows[k].cores = w.cores
         /\ \A i \in Ids \ {k} : e.rows[i] = d.rows[i]
         /\ \A u \in UUIDs : e.mapping[u] = IF u = w.uuid THEN k ELSE d.mapping[u]
         /\ w.id = NoId => e.seq = d.seq + 1 /\ k = d.seq + 1
         /\ w.id # NoId => e.seq = d.seq /\ k = w.id
<1> DEFINE v == [w EXCEPT !.id = k]
<1>1. /\ d.rows \in [Ids -> RDTWorkLoad \cup {NoRow}]
      /\ d.mapping \in [UUIDs -> Ids \cup {NoId}] /\ d.seq \in 0 .. MaxSeq
  BY DatabaseFields
<1>2. w.id \in Ids \cup {NoId} /\ w.uuid \in UUIDs \cup {NoUUID}
  BY DEF RDTWorkLoad
<1>3. k \in Ids /\ (w.id = NoId => k = d.seq + 1 /\ d.seq < MaxSeq)
      /\ (w.id # NoId => k = w.id)
  BY <1>1, <1>2, IdsAssumption DEF CreatedId, NextIdExists, Ids
<1>4. /\ v \in RDTWorkLoad /\ v.id = k /\ v.tasks = w.tasks /\ v.cores = w.cores
      /\ v.uuid = w.uuid
  BY <1>3, WithId
<1> DEFINE rows    == [d.rows EXCEPT ![k] = v]
           mapping == IF w.uuid # NoUUID THEN [d.mapping EXCEPT ![w.uuid] = k]
                      ELSE d.mapping
           seq     == IF w.id = NoId THEN d.seq + 1 ELSE d.seq
<1>5. e = [rows |-> rows, mapping |-> mapping, seq |-> seq]
  BY DEF CreateWorkload
<1> HIDE DEF v
<1>6. /\ rows \in [Ids -> RDTWorkLoad \cup {NoRow}]
      /\ \A i \in Ids : rows[i] = IF i = k THEN v ELSE d.rows[i]
  BY <1>1, <1>3, <1>4
<1>7. /\ e.rows \in [Ids -> RDTWorkLoad \cup {NoRow}]
      /\ RowIds(e) = RowIds(d) \cup {k}
      /\ e.rows[k] = v
      /\ \A i \in Ids \ {k} : e.rows[i] = d.rows[i]
  <2> HIDE DEF rows, mapping, seq
  <2>1. e.rows = rows
    BY <1>5
  <2>2. v # NoRow
    BY <1>4, NoRowAssumption
  <2> QED BY <1>3, <1>6, <2>1, <2>2 DEF RowIds
<1>8. /\ mapping \in [UUIDs -> Ids \cup {NoId}]
      /\ \A u \in UUIDs : mapping[u] = IF u = w.uuid THEN k ELSE d.mapping[u]
  BY <1>1, <1>2, <1>3, NoUUIDAssumption
<1>9. seq \in 0 .. MaxSeq
  BY <1>1, <1>3, IdsAssumption
<1> HIDE DEF rows, mapping, seq
<1>10. e.mapping = mapping /\ e.seq = seq /\ e = [rows |-> e.rows, mapping |-> mapping, seq |-> seq]
  BY <1>5
<1>11. e \in Database
  BY <1>7, <1>8, <1>9, <1>10 DEF Database
<1>12. (w.id = NoId => e.seq = d.seq + 1) /\ (w.id # NoId => e.seq = d.seq)
  BY <1>10 DEF seq
<1> QED BY <1>3, <1>4, <1>7, <1>8, <1>10, <1>11, <1>12

(* The row that CreateWorkload writes is the workload with its id.         *)
LEMMA CreateStores ==
  ASSUME NEW d \in Database, NEW w \in RDTWorkLoad, NextIdExists(d, w),
         NEW k, k = CreatedId(d, w), NEW e, e = CreateWorkload(d, w)
  PROVE  e.rows[k] = [w EXCEPT !.id = k]
<1>1. k \in Ids /\ d.rows \in [Ids -> RDTWorkLoad \cup {NoRow}]
  BY CreateEffect, DatabaseFields
<1>2. e.rows = [d.rows EXCEPT ![k] = [w EXCEPT !.id = k]]
  BY DEF CreateWorkload
<1> QED BY <1>1, <1>2

(* DeleteWorkload removes what is stored under the id and the UUID of the  *)
(* workload.                                                               *)
LEMMA DeleteEffect ==
  ASSUME NEW d \in Database, NEW w \in RDTWorkLoad,
         NEW e, e = DeleteWorkload(d, w)
  PROVE  /\ e \in Database
         /\ RowIds(e) = RowIds(d) \ {w.id}
         /\ \A i \in RowIds(e) : e.rows[i] = d.rows[i]
         /\ \A u \in UUIDs : e.mapping[u] = IF u = w.uuid THEN NoId ELSE d.mapping[u]
         /\ e.seq = d.seq
<1> DEFINE rows    == IF w.id # NoId THEN [d.rows EXCEPT ![w.id] = NoRow] ELSE d.rows
           mapping == IF w.uuid # NoUUID THEN [d.mapping EXCEPT ![w.uuid] = NoId]
                      ELSE d.mapping
<1>1. /\ d.rows \in [Ids -> RDTWorkLoad \cup {NoRow}]
      /\ d.mapping \in [UUIDs -> Ids \cup {NoId}] /\ d.seq \in 0 .. MaxSeq
  BY DatabaseFields
<1>2. w.id \in Ids \cup {NoId} /\ w.uuid \in UUIDs \cup {NoUUID}
  BY DEF RDTWorkLoad
<1>3. e = [rows |-> rows, mapping |-> mapping, seq |-> d.seq]
  BY DEF DeleteWorkload
<1>4. /\ rows \in [Ids -> RDTWorkLoad \cup {NoRow}]
      /\ \A i \in Ids : rows[i] = IF i = w.id THEN NoRow ELSE d.rows[i]
  BY <1>1, <1>2, IdsAssumption DEF Ids
<1>5. /\ mapping \in [UUIDs -> Ids \cup {NoId}]
      /\ \A u \in UUIDs : mapping[u] = IF u = w.uuid THEN NoId ELSE d.mapping[u]
  BY <1>1, <1>2, NoUUIDAssumption
<1> HIDE DEF rows, mapping
<1>6. e.rows = rows /\ e.mapping = mapping /\ e.seq = d.seq /\ e \in Database
  BY <1>1, <1>3, <1>4, <1>5 DEF Database
<1>7. RowIds(e) = RowIds(d) \ {w.id}
  BY <1>4, <1>6 DEF RowIds
<1>8. \A i \in RowIds(e) : e.rows[i] = d.rows[i]
  BY <1>4, <1>6 DEF RowIds
<1> QED BY <1>5, <1>6, <1>7, <1>8

(* UpdateWorkload replaces the row of the workload's id.                   *)
LEMMA UpdateEffect ==
  ASSUME NEW d \in Database, NEW w \in RDTWorkLoad, w.id # NoId,
         NEW e, e = UpdateWorkload(d, w)
  PROVE  /\ e \in Database
         /\ RowIds(e) = RowIds(d) \cup {w.id}
         /\ e.rows[w.id] = w
         /\ \A i \in Ids \ {w.id} : e.rows[i] = d.rows[i]
         /\ e.mapping = d.mapping /\ e.seq = d.seq
<1>1. /\ d.rows \in [Ids -> RDTWorkLoad \cup {NoRow}]
      /\ d.mapping \in [UUIDs -> Ids \cup {NoId}] /\ d.seq \in 0 .. MaxSeq
  BY DatabaseFields
<1>2. w.id \in Ids
  BY DEF RDTWorkLoad
<1> DEFINE rows == [d.rows EXCEPT ![w.id] = w]
<1>3. e = [rows |-> rows, mapping |-> d.mapping, seq |-> d.seq]
  BY DEF UpdateWorkload
<1>4. /\ rows \in [Ids -> RDTWorkLoad \cup {NoRow}]
      /\ \A i \in Ids : rows[i] = IF i = w.id THEN w ELSE d.rows[i]
  BY <1>1, <1>2
<1> HIDE DEF rows
<1>5. /\ e.rows \in [Ids -> RDTWorkLoad \cup {NoRow}]
      /\ RowIds(e) = RowIds(d) \cup {w.id}
      /\ e.rows[w.id] = w
      /\ \A i \in Ids \ {w.id} : e.rows[i] = d.rows[i]
  <2>1. e.rows = rows
    BY <1>3
  <2> QED BY <1>2, <1>4, <2>1, NoRowAssumption DEF RowIds
<1>6. e.mapping = d.mapping /\ e.seq = d.seq
      /\ e = [rows |-> e.rows, mapping |-> d.mapping, seq |-> d.seq]
  BY <1>3
<1>7. e \in Database
  BY <1>1, <1>5, <1>6 DEF Database
<1> QED BY <1>5, <1>6, <1>7
=============================================================================
