----------------------------- MODULE CacheInfo -----------------------------
(***************************************************************************)
(* What RMD tells a scheduler about the cache it has left: the hospitality *)
(* score of a request (modules/hospitality/hospitality.go) and the free    *)
(* ways and policy counts of GET /cache (modules/cache/cache.go).  Neither *)
(* takes the mutex or knows the CLOS pool: both read the groups of resctrl *)
(* as they are.                                                            *)
(***************************************************************************)
EXTENDS Enforcement, FiniteSets

(* GetAvailableCacheSchemata over GetResAssociation(nil), with an ignore   *)
(* list that names the OS group or not: no group is left out for being     *)
(* available, and not COS1 either, the list having the name "infra", which *)
(* no group has.                                                           *)
FreeOf(bits, s, ignored) ==
  {w \in bits : \A g \in Group \ ignored :
                   rdt.mask[g][s] = CbmMask \/ w \notin rdt.mask[g][s]}

FreeInPool(name, s) == FreeOf(GetCachePoolLayout(name, s), s, {0})

(* The runs of ones among ToBinStrings().                                  *)
Runs(bits) == {r \in SUBSET bits : /\ r # {} /\ Contiguous(r)
                                   /\ \A w \in bits \ r : ~Contiguous(r \cup {w})}

-----------------------------------------------------------------------------
(* GetByRequestMaxMin tells the types of a request apart in its own way.   *)
RequestType(max, min) ==
  CASE max = 0 /\ min = 0   -> "shared"
    [] max > min /\ min # 0 -> "besteffort"
    [] max = min /\ max # 0 -> "guarantee"
    [] OTHER                -> "bad"

(* The score of a request for exclusive cache, 0 when no run has min ways. *)
(* (A request for shared cache always scores 100: QueryWorkload looks for  *)
(* workloads whose CLOS is called "shared", and finds none.)               *)
Score(max, min, s) ==
  LET longest == LongestRun(FreeInPool(RequestType(max, min), s))
  IN  IF longest < min THEN 0
      ELSE IF (longest * 100) \div max > 100 THEN 100 ELSE (longest * 100) \div max

(* Mutant of getAvailablePolicyCount: the ways of all runs together.       *)
CountOfTotal(max, min, s) ==
  Cardinality(FreeInPool(GetCachePoolName(max, min), s)) \div min

(* getAvailablePolicyCount, for a policy of exclusive cache: how often its *)
(* (least) number of ways fits into each run.                              *)
getAvailablePolicyCount(max, min, s) ==
  LET free == FreeInPool(GetCachePoolName(max, min), s)
      fits == {f \in Runs(free) \X (1 .. NWays) : f[2] * min <= Cardinality(f[1])}
  IN  Cardinality(fits)

(* GetByLevel: what is shown of cache s.  The ways in no pool are those    *)
(* that not even the OS group has.                                         *)
GetByLevel(s, policies) ==
  [AvailableWays     |-> FreeOf(CbmMask, s, {}),
   AvailableWaysPool |-> [name \in {n \in PoolName : Configured(n)} |-> FreeInPool(name, s)],
   AvailablePolicy   |-> [p \in policies |-> getAvailablePolicyCount(p.max, p.min, s)]]
=============================================================================
