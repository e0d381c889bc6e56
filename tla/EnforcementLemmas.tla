------------------------- MODULE EnforcementLemmas -------------------------
(***************************************************************************)
(* What the operators of the cache pools, of the platform and of           *)
(* enforcement do, for any host, any workload and any choice: the shape of *)
(* the masks they find, the effect of each call of the root process, and   *)
(* the few outcomes that Enforce and Release can have.                     *)
(***************************************************************************)
EXTENDS Enforcement, PoolAndDBLemmas, FiniteSetTheorems

-----------------------------------------------------------------------------
(* Cache ways.                                                             *)

(* The classes of the pool are groups, and neither COS0 nor COS1 is one.   *)
LEMMA PoolGroups ==
  /\ PoolClos \subseteq Group /\ 0 \in Group /\ 0 \notin PoolClos /\ 1 \notin PoolClos
  /\ NoClos \notin PoolClos /\ NoClos \notin Group
  /\ Group \ {0, 1} = PoolClos
BY NumClosAssumption, NoClosAssumption DEF PoolClos, Group

(* GetCachePoolLayout gives one run of ways to each pool.                  *)
LEMMA LayoutShape ==
  ASSUME NEW name \in PoolName, NEW s \in Sockets
  PROVE  /\ GetCachePoolLayout(name, s) \subseteq Ways
         /\ Contiguous(GetCachePoolLayout(name, s))
<1> USE LayoutAssumption, NWaysAssumption
<1>1. \A n, o \in Nat : /\ getReservedCache(n, o, s) \subseteq Ways
                        /\ Contiguous(getReservedCache(n, o, s))
  BY DEF getReservedCache, Ways, Contiguous
<1> QED BY <1>1 DEF GetCachePoolLayout, PoolName

(* Pools do not overlap on a cache, ...                                    *)
LEMMA LayoutsDisjoint ==
  ASSUME NEW m \in PoolName, NEW n \in PoolName, m # n, NEW s \in Sockets
  PROVE  GetCachePoolLayout(m, s) \cap GetCachePoolLayout(n, s) = {}
BY LayoutAssumption, NWaysAssumption DEF GetCachePoolLayout, PoolName, getReservedCache, Ways

(* ... leave out the ways of the OS where it has a CPU, ...                *)
LEMMA LayoutSparesOS ==
  ASSUME NEW name \in PoolName, NEW s \in OSSockets
  PROVE  GetCachePoolLayout(name, s) \cap 0 .. (OSWays - 1) = {}
BY LayoutAssumption, NWaysAssumption DEF GetCachePoolLayout, PoolName, getReservedCache, Ways

(* ... and are the same on all caches if the OS has CPUs on all or none.   *)
LEMMA LayoutsAgree ==
  ASSUME OSSockets \in {{}, Sockets}, NEW name \in PoolName,
         NEW s \in Sockets, NEW t \in Sockets
  PROVE  GetCachePoolLayout(name, s) = GetCachePoolLayout(name, t)
BY DEF GetCachePoolLayout, getReservedCache

(* GetConnectiveBits finds a run, from either end.                         *)
LEMMA ConnectiveBitsShape ==
  ASSUME NEW bits \in SUBSET Ways, NEW n \in Int
  PROVE  /\ GetConnectiveBits(bits, n) \subseteq bits
         /\ Contiguous(GetConnectiveBits(bits, n))
         /\ GetConnectiveBitsFromLow(bits, n) \subseteq bits
         /\ Contiguous(GetConnectiveBitsFromLow(bits, n))
<1> USE NWaysAssumption
<1>1. \A i \in RunStarts(bits, n) : i \in Int /\ i .. (i + n - 1) \subseteq bits
  BY DEF RunStarts, Ways
<1>2. ASSUME NEW a \in GetConnectiveBits(bits, n), NEW b \in GetConnectiveBits(bits, n),
             NEW x \in a .. b
      PROVE  x \in GetConnectiveBits(bits, n)
  <2>1. PICK i \in RunStarts(bits, n) :
          (\A j \in RunStarts(bits, n) : j <= i) /\ a \in i .. (i + n - 1)
    BY DEF GetConnectiveBits
  <2>2. PICK k \in RunStarts(bits, n) :
          (\A j \in RunStarts(bits, n) : j <= k) /\ b \in k .. (k + n - 1)
    BY DEF GetConnectiveBits
  <2>3. i = k
    BY <1>1, <2>1, <2>2
  <2>4. x \in i .. (i + n - 1)
    BY <1>1, <2>1, <2>2, <2>3
  <2>5. x \in bits
    BY <1>1, <2>4
  <2> QED BY <2>1, <2>4, <2>5 DEF GetConnectiveBits
<1>3. ASSUME NEW a \in GetConnectiveBitsFromLow(bits, n),
             NEW b \in GetConnectiveBitsFromLow(bits, n), NEW x \in a .. b
      PROVE  x \in GetConnectiveBitsFromLow(bits, n)
  <2>1. PICK i \in RunStarts(bits, n) :
          (\A j \in RunStarts(bits, n) : i <= j) /\ a \in i .. (i + n - 1)
    BY DEF GetConnectiveBitsFromLow
  <2>2. PICK k \in RunStarts(bits, n) :
          (\A j \in RunStarts(bits, n) : k <= j) /\ b \in k .. (k + n - 1)
    BY DEF GetConnectiveBitsFromLow
  <2>3. i = k
    BY <1>1, <2>1, <2>2
  <2>4. x \in i .. (i + n - 1)
    BY <1>1, <2>1, <2>2, <2>3
  <2>5. x \in bits
    BY <1>1, <2>4
  <2> QED BY <2>1, <2>4, <2>5 DEF GetConnectiveBitsFromLow
<1>4. GetConnectiveBits(bits, n) \subseteq bits /\ GetConnectiveBitsFromLow(bits, n) \subseteq bits
  BY DEF GetConnectiveBits, GetConnectiveBitsFromLow
<1> QED BY <1>2, <1>3, <1>4 DEF Contiguous

(* There is a longest run.                                                 *)
LEMMA LongestRunExists ==
  ASSUME NEW bits \in SUBSET Ways
  PROVE  /\ LongestRun(bits) \in 0 .. NWays
         /\ LongestRun(bits) = 0 \/ RunStarts(bits, LongestRun(bits)) # {}
         /\ RunStarts(bits, LongestRun(bits) + 1) = {}
<1> DEFINE T == {n \in Nat : RunStarts(bits, n + 1) = {}}
<1> USE NWaysAssumption
<1>1. NWays \in T
  <2> SUFFICES ASSUME NEW i \in Ways, i .. (i + NWays) \subseteq bits PROVE FALSE
    BY DEF RunStarts
  <2>1. i + NWays \in i .. (i + NWays)
    BY DEF Ways
  <2>2. i + NWays \in Ways
    BY <2>1
  <2> QED BY <2>2 DEF Ways
<1>2. PICK n \in T : \A m \in T : n <= m
  <2> HIDE DEF T
  <2>1. T \in SUBSET Nat
    BY DEF T
  <2> QED BY <1>1, <2>1, FirstPosition
<1>3. n \in 0 .. NWays
  BY <1>1, <1>2
<1>4. n = 0 \/ RunStarts(bits, n) # {}
  <2> SUFFICES ASSUME n # 0, RunStarts(bits, n) = {} PROVE FALSE
    OBVIOUS
  <2>1. n - 1 \in Nat /\ (n - 1) + 1 = n
    OBVIOUS
  <2>2. n - 1 \in T
    BY <2>1
  <2>3. n <= n - 1
    BY <1>2, <2>2
  <2> QED BY <2>1, <2>3
<1>5. RunStarts(bits, n + 1) = {}
  OBVIOUS
<1>6. \E k \in 0 .. NWays : (k = 0 \/ RunStarts(bits, k) # {}) /\ RunStarts(bits, k + 1) = {}
  BY <1>3, <1>4, <1>5
<1> QED BY <1>6 DEF LongestRun

(* The run of an OS group is among the ways it is taken from.              *)
LEMMA LowestRunShape ==
  ASSUME NEW bits \in SUBSET Ways
  PROVE  LowestRun(bits) \subseteq bits
BY DEF LowestRun

-----------------------------------------------------------------------------
(* The platform.                                                           *)

(* The fields of a platform, and how one is put together.                  *)
LEMMA PlatformFields ==
  ASSUME NEW h \in Platform
  PROVE  /\ h.mask \in [Group -> Mask] /\ h.group \in [Members -> Group]
         /\ h.mb \in [Group -> Bandwidth] /\ h.mode \in MbaMode
         /\ \A g \in Group, s \in Sockets : h.mask[g][s] \in SUBSET Ways
<1>1. /\ h.mask \in [Group -> Mask] /\ h.group \in [Members -> Group]
      /\ h.mb \in [Group -> Bandwidth] /\ h.mode \in MbaMode
  BY DEF Platform
<1> QED BY <1>1 DEF Mask

(* The ways that GetAvailableCacheSchemata leaves are disjoint from every  *)
(* mask of a visible class that is not the default.                        *)
LEMMA FreeWays ==
  ASSUME NEW h, NEW p, NEW bits \in SUBSET Ways, NEW s
  PROVE  /\ GetAvailableCacheSchemata(h, p, bits, s) \subseteq bits
         /\ \A g \in Visible(p) \ {0, 1} :
               \/ h.mask[g][s] = CbmMask
               \/ h.mask[g][s] \cap GetAvailableCacheSchemata(h, p, bits, s) = {}
BY DEF GetAvailableCacheSchemata

(* SetOSGroup changes the mask of COS0 only, and takes nothing from it     *)
(* that a visible class has, apart from the ways of the OS itself.         *)
LEMMA SetOSGroupEffect ==
  ASSUME NEW h \in Platform, NEW p, NEW e, e = SetOSGroup(h, p)
  PROVE  /\ e \in Platform
         /\ e.group = h.group /\ e.mb = h.mb /\ e.mode = h.mode
         /\ \A g \in PoolClos : e.mask[g] = h.mask[g]
         /\ \A g \in Group \ {0} : e.mask[g] = h.mask[g]
         /\ \A g \in Visible(p) \ {0, 1}, s \in Sockets :
               \/ h.mask[g][s] = CbmMask
               \/ h.mask[g][s] \cap e.mask[0][s] \subseteq 0 .. (OSWays - 1)
<1> DEFINE free(s) == GetAvailableCacheSchemata(h, p, CbmMask, s)
           low(s)  == LowestRun(free(s) \cup 0 .. (OSWays - 1))
           os      == [s \in Sockets |-> low(s)]
<1>1. e = [h EXCEPT !.mask[0] = os]
  BY DEF SetOSGroup
<1>2. 0 .. (OSWays - 1) \subseteq Ways /\ CbmMask \in SUBSET Ways
  BY LayoutAssumption, NWaysAssumption DEF Ways, CbmMask
<1>3. \A s : /\ free(s) \subseteq Ways
             /\ \A g \in Visible(p) \ {0, 1} : h.mask[g][s] = CbmMask \/ h.mask[g][s] \cap free(s) = {}
  <2> HIDE DEF free
  <2> QED BY <1>2, FreeWays DEF free
<1>4. \A s : low(s) \subseteq free(s) \cup 0 .. (OSWays - 1)
  <2> HIDE DEF free
  <2> QED BY <1>2, <1>3, LowestRunShape
<1> HIDE DEF low, free
<1>5. os \in Mask /\ \A s \in Sockets : os[s] = low(s)
  BY <1>2, <1>3, <1>4 DEF Mask
<1> HIDE DEF os
<1>6. /\ h.mask \in [Group -> Mask] /\ h.group \in [Members -> Group]
      /\ h.mb \in [Group -> Bandwidth] /\ h.mode \in MbaMode
      /\ h = [mask |-> h.mask, group |-> h.group, mb |-> h.mb, mode |-> h.mode]
  BY DEF Platform
<1>7. e = [mask |-> [h.mask EXCEPT ![0] = os], group |-> h.group, mb |-> h.mb, mode |-> h.mode]
  BY <1>1, <1>6
<1>8. /\ e.mask = [h.mask EXCEPT ![0] = os] /\ e.mask \in [Group -> Mask]
      /\ e.mask[0] = os /\ \A g \in PoolClos : e.mask[g] = h.mask[g]
      /\ \A g \in Group \ {0} : e.mask[g] = h.mask[g]
  BY <1>5, <1>6, <1>7, PoolGroups
<1>9. e \in Platform /\ e.group = h.group /\ e.mb = h.mb /\ e.mode = h.mode
  BY <1>6, <1>7, <1>8 DEF Platform
<1>10. ASSUME NEW g \in Visible(p) \ {0, 1}, NEW s \in Sockets, h.mask[g][s] # CbmMask
       PROVE  h.mask[g][s] \cap e.mask[0][s] \subseteq 0 .. (OSWays - 1)
  BY <1>3, <1>4, <1>5, <1>8, <1>10
<1> QED BY <1>8, <1>9, <1>10

(* SetInfraGroup changes the mask of COS1 only.                            *)
LEMMA SetInfraGroupEffect ==
  ASSUME NEW h \in Platform, NEW e, e = SetInfraGroup(h)
  PROVE  /\ e \in Platform
         /\ e.group = h.group /\ e.mb = h.mb /\ e.mode = h.mode
         /\ \A g \in PoolClos : e.mask[g] = h.mask[g]
         /\ \A g \in Group \ {1} : e.mask[g] = h.mask[g]
<1> DEFINE infra == [s \in Sockets |-> InfraMask(s)]
<1>1. infra \in Mask
  <2>1. \A s \in Sockets : InfraMask(s) \in SUBSET Ways
    BY DEF InfraMask, CbmMask
  <2> QED BY <2>1 DEF Mask
<1>2. e = h \/ e = [h EXCEPT !.mask[1] = infra]
  BY DEF SetInfraGroup
<1> HIDE DEF infra
<1>3. /\ h.mask \in [Group -> Mask] /\ h.group \in [Members -> Group]
      /\ h.mb \in [Group -> Bandwidth] /\ h.mode \in MbaMode
      /\ h = [mask |-> h.mask, group |-> h.group, mb |-> h.mb, mode |-> h.mode]
  BY DEF Platform
<1>4. PoolClos \subseteq Group \ {1}
  BY PoolGroups
<1> DEFINE masks == [h.mask EXCEPT ![1] = infra]
<1>5. masks \in [Group -> Mask] /\ \A g \in Group \ {1} : masks[g] = h.mask[g]
  BY <1>1, <1>3
<1>6. e = h \/ e = [mask |-> masks, group |-> h.group, mb |-> h.mb, mode |-> h.mode]
  BY <1>2, <1>3
<1> HIDE DEF masks
<1> QED BY <1>3, <1>4, <1>5, <1>6 DEF Platform

(* What is committed to a class: masks of all caches, and bandwidths that  *)
(* libpqos accepts.                                                        *)
WellFormed(res) == /\ res.mask \in Mask
                   /\ res.useMba \in BOOLEAN
                   /\ \A s \in Sockets : s \in DOMAIN res.mb => res.mb[s] \in 1 .. MbaMax

(* The members that AllocateCLOS associates.                               *)
MovedBy(res, living, got) ==
  IF res.tasks # {} THEN Associated(res.tasks, living, got) ELSE res.cores

(* AllocateCLOS sets the mask and the bandwidth of one class, and moves    *)
(* members into it.                                                        *)
LEMMA AllocateEffect ==
  ASSUME NEW h \in Platform, NEW g \in PoolClos, NEW res, WellFormed(res),
         NEW living, NEW got, NEW e, e = AllocateCLOS(h, g, res, living, got)
  PROVE  /\ e \in Platform /\ e.mode = h.mode
         /\ e.mask[g] = res.mask
         /\ \A x \in Group \ {g} : e.mask[x] = h.mask[x] /\ e.mb[x] = h.mb[x]
         /\ e.mb[g] = IF res.tasks \subseteq living THEN SetMba(h, g, res) ELSE h.mb[g]
         /\ \A m \in Members :
               e.group[m] = IF m \in MovedBy(res, living, got) THEN g ELSE h.group[m]
<1> DEFINE moved == MovedBy(res, living, got)
           group == [m \in Members |-> IF m \in moved THEN g ELSE h.group[m]]
           band  == IF res.tasks \subseteq living THEN SetMba(h, g, res) ELSE h.mb[g]
<1>1. /\ h.mask \in [Group -> Mask] /\ h.group \in [Members -> Group]
      /\ h.mb \in [Group -> Bandwidth] /\ h.mode \in MbaMode
      /\ h = [mask |-> h.mask, group |-> h.group, mb |-> h.mb, mode |-> h.mode]
  BY DEF Platform
<1>2. g \in Group
  BY PoolGroups
<1>3. group \in [Members -> Group]
  BY <1>1, <1>2
<1>4. band \in Bandwidth
  <2>1. h.mb[g] \in Bandwidth /\ \A s \in Sockets : h.mb[g][s] \in 1 .. MbaMax
    BY <1>1, <1>2 DEF Bandwidth
  <2>2. MbaMax \in 1 .. MbaMax
    BY MbaMaxAssumption
  <2>3. SetMba(h, g, res) \in Bandwidth
    BY <2>1, <2>2 DEF SetMba, Bandwidth, WellFormed
  <2> QED BY <2>1, <2>3
<1>5. e = [h EXCEPT !.mask[g] = res.mask, !.group = group, !.mb[g] = band]
  BY DEF AllocateCLOS, MovedBy
<1>9. \A m \in Members : group[m] = IF m \in moved THEN g ELSE h.group[m]
  OBVIOUS
<1>10. band = IF res.tasks \subseteq living THEN SetMba(h, g, res) ELSE h.mb[g]
  OBVIOUS
<1> HIDE DEF group, band, moved
<1>6. e = [mask |-> [h.mask EXCEPT ![g] = res.mask], group |-> group,
           mb |-> [h.mb EXCEPT ![g] = band], mode |-> h.mode]
  BY <1>1, <1>5
<1>7. /\ e.mask = [h.mask EXCEPT ![g] = res.mask] /\ e.mask \in [Group -> Mask]
      /\ e.mb \in [Group -> Bandwidth] /\ e.mode = h.mode
  BY <1>1, <1>2, <1>4, <1>6 DEF WellFormed
<1>8. e \in Platform
  BY <1>1, <1>3, <1>6, <1>7 DEF Platform
<1>11. e.group = group /\ e.mb = [h.mb EXCEPT ![g] = band]
  BY <1>6
<1>12. /\ e.mask[g] = res.mask /\ e.mb[g] = band
       /\ \A x \in Group \ {g} : e.mask[x] = h.mask[x] /\ e.mb[x] = h.mb[x]
  BY <1>1, <1>2, <1>7, <1>11
<1>13. \A m \in Members : e.group[m] = IF m \in MovedBy(res, living, got) THEN g ELSE h.group[m]
  BY <1>9, <1>11 DEF moved
<1> QED BY <1>7, <1>8, <1>10, <1>12, <1>13

(* Moving tasks and cores between groups leaves masks and bandwidths.      *)
LEMMA MoveEffect ==
  ASSUME NEW h \in Platform, NEW S, NEW e,
         e = [h EXCEPT !.group = [m \in Members |-> IF m \in S THEN 0 ELSE h.group[m]]]
  PROVE  /\ e \in Platform /\ e.mask = h.mask /\ e.mb = h.mb /\ e.mode = h.mode
         /\ \A m \in Members : e.group[m] = IF m \in S THEN 0 ELSE h.group[m]
<1>1. /\ h.mask \in [Group -> Mask] /\ h.group \in [Members -> Group]
      /\ h.mb \in [Group -> Bandwidth] /\ h.mode \in MbaMode
      /\ h = [mask |-> h.mask, group |-> h.group, mb |-> h.mb, mode |-> h.mode]
  BY DEF Platform
<1> DEFINE group == [m \in Members |-> IF m \in S THEN 0 ELSE h.group[m]]
<1>2. group \in [Members -> Group]
  BY <1>1, PoolGroups
<1>4. \A m \in Members : group[m] = IF m \in S THEN 0 ELSE h.group[m]
  OBVIOUS
<1> HIDE DEF group
<1>3. e = [mask |-> h.mask, group |-> group, mb |-> h.mb, mode |-> h.mode]
  BY <1>1 DEF group
<1> QED BY <1>1, <1>2, <1>3, <1>4 DEF Platform

(* DeallocateTasks, DeallocateCores and the end of tasks are such moves.   *)
LEMMA DeallocateEffect ==
  ASSUME NEW h \in Platform, NEW tasks, NEW got, NEW cores, NEW gone
  PROVE  /\ LET e == DeallocateTasks(h, tasks, got).rdt
            IN  e \in Platform /\ e.mask = h.mask /\ e.mb = h.mb /\ e.mode = h.mode
         /\ LET e == DeallocateCores(h, cores)
            IN  e \in Platform /\ e.mask = h.mask /\ e.mb = h.mb /\ e.mode = h.mode
         /\ LET e == WithoutTasks(h, gone)
            IN  e \in Platform /\ e.mask = h.mask /\ e.mb = h.mb /\ e.mode = h.mode
<1>1. DeallocateTasks(h, tasks, got).rdt
        = [h EXCEPT !.group = [m \in Members |-> IF m \in Associated(tasks, alive, got) THEN 0
                                                 ELSE h.group[m]]]
  BY DEF DeallocateTasks
<1>2. DeallocateCores(h, cores)
        = [h EXCEPT !.group = [m \in Members |-> IF m \in cores THEN 0 ELSE h.group[m]]]
  BY DEF DeallocateCores
<1>3. WithoutTasks(h, gone)
        = [h EXCEPT !.group = [m \in Members |-> IF m \in gone THEN 0 ELSE h.group[m]]]
  BY DEF WithoutTasks
<1> QED BY <1>1, <1>2, <1>3, MoveEffect

(* Where the members are after each of them.                               *)
LEMMA TasksMove ==
  ASSUME NEW h \in Platform, NEW tasks, NEW got, NEW m \in Members
  PROVE  DeallocateTasks(h, tasks, got).rdt.group[m]
           = IF m \in Associated(tasks, alive, got) THEN 0 ELSE h.group[m]
<1>1. DeallocateTasks(h, tasks, got).rdt
        = [h EXCEPT !.group = [n \in Members |-> IF n \in Associated(tasks, alive, got) THEN 0
                                                 ELSE h.group[n]]]
  BY DEF DeallocateTasks
<1> QED BY <1>1, MoveEffect

(* The same of cores.                                                      *)
LEMMA CoresMove ==
  ASSUME NEW h \in Platform, NEW cores, NEW m \in Members
  PROVE  DeallocateCores(h, cores).group[m] = IF m \in cores THEN 0 ELSE h.group[m]
<1>1. DeallocateCores(h, cores)
        = [h EXCEPT !.group = [n \in Members |-> IF n \in cores THEN 0 ELSE h.group[n]]]
  BY DEF DeallocateCores
<1> QED BY <1>1, MoveEffect

(* The same of tasks that end.                                             *)
LEMMA EndedMove ==
  ASSUME NEW h \in Platform, NEW gone, NEW m \in Members
  PROVE  WithoutTasks(h, gone).group[m] = IF m \in gone THEN 0 ELSE h.group[m]
<1>1. WithoutTasks(h, gone)
        = [h EXCEPT !.group = [n \in Members |-> IF n \in gone THEN 0 ELSE h.group[n]]]
  BY DEF WithoutTasks
<1> QED BY <1>1, MoveEffect

(* ResetCOSParamsToDefaults gives one class its default mask.              *)
LEMMA ResetEffect ==
  ASSUME NEW h \in Platform, NEW g \in PoolClos, NEW e, e = ResetCOSParamsToDefaults(h, g)
  PROVE  /\ e \in Platform /\ e.mode = h.mode
         /\ \A s \in Sockets : e.mask[g][s] = CbmMask
         /\ \A x \in Group \ {g} : e.mask[x] = h.mask[x] /\ e.mb[x] = h.mb[x]
         /\ e.mask[g] = DefaultMask /\ e.mb[g] = DefaultBandwidth /\ e.group = h.group
<1>1. /\ h.mask \in [Group -> Mask] /\ h.group \in [Members -> Group]
      /\ h.mb \in [Group -> Bandwidth] /\ h.mode \in MbaMode
      /\ h = [mask |-> h.mask, group |-> h.group, mb |-> h.mb, mode |-> h.mode]
  BY DEF Platform
<1>2. DefaultMask \in Mask /\ DefaultBandwidth \in Bandwidth
      /\ \A s \in Sockets : DefaultMask[s] = CbmMask
  BY MbaMaxAssumption DEF DefaultMask, Mask, CbmMask, DefaultBandwidth, Bandwidth
<1>3. g \in Group
  BY PoolGroups
<1>4. e = [mask |-> [h.mask EXCEPT ![g] = DefaultMask], group |-> h.group,
           mb |-> [h.mb EXCEPT ![g] = DefaultBandwidth], mode |-> h.mode]
  BY <1>1 DEF ResetCOSParamsToDefaults
<1>5. /\ e.mask = [h.mask EXCEPT ![g] = DefaultMask] /\ e.mask \in [Group -> Mask]
      /\ e.mb \in [Group -> Bandwidth] /\ e.mode = h.mode /\ e.mask[g] = DefaultMask
      /\ e \in Platform
  BY <1>1, <1>2, <1>3, <1>4 DEF Platform
<1>6. e.mb = [h.mb EXCEPT ![g] = DefaultBandwidth] /\ e.group = h.group
  BY <1>4
<1> QED BY <1>1, <1>2, <1>3, <1>5, <1>6

(* The platform before the first start.                                    *)
LEMMA FreshEffect ==
  ASSUME NEW mode \in MbaMode
  PROVE  /\ FreshPlatform(mode) \in Platform /\ FreshPlatform(mode).mode = mode
         /\ \A g \in Group, s \in Sockets : FreshPlatform(mode).mask[g][s] = CbmMask
<1>1. DefaultMask \in Mask /\ DefaultBandwidth \in Bandwidth
      /\ \A s \in Sockets : DefaultMask[s] = CbmMask
  BY MbaMaxAssumption DEF DefaultMask, Mask, CbmMask, DefaultBandwidth, Bandwidth
<1> QED BY <1>1, PoolGroups DEF FreshPlatform, Platform

-----------------------------------------------------------------------------
(* Enforce.                                                                *)

(* The cache values that count are those of the workload or of its policy. *)
LEMMA CacheOfType ==
  ASSUME NEW w \in RDTWorkLoad
  PROVE  CacheOf(w).max \in Nat \cup {Nil} /\ CacheOf(w).min \in Nat \cup {Nil}
<1>1. CASE w.policy \in DOMAIN Policies
  <2>1. Policies[w.policy] \in Policy
    BY <1>1, PoliciesAssumption
  <2> QED BY <1>1, <2>1 DEF CacheOf, Policy, WaysOrNil
<1>2. CASE w.policy \notin DOMAIN Policies
  BY <1>2 DEF CacheOf, RDTWorkLoad, WaysOrNil
<1> QED BY <1>1, <1>2

(* The type of a workload decides from which pool it is served.            *)
LEMMA WorkloadWays ==
  ASSUME NEW w \in RDTWorkLoad
  PROVE  /\ MinWays(w) \in Nat /\ MaxWays(w) \in Nat
         /\ Type(w) \in PoolName \cup {"unsupported"}
         /\ Type(w) = "shared" <=> MaxWays(w) = 0
<1>1. CacheOf(w).max \in Nat \cup {Nil} /\ CacheOf(w).min \in Nat \cup {Nil}
  BY CacheOfType
<1>2. MinWays(w) \in Nat /\ MaxWays(w) \in Nat
  BY <1>1 DEF MinWays, MaxWays
<1>3. \A a, b \in Nat : /\ GetCachePoolName(a, b) \in PoolName \cup {"unsupported"}
                        /\ GetCachePoolName(a, b) = "shared" <=> a = 0
  BY DEF GetCachePoolName, PoolName
<1> QED BY <1>2, <1>3 DEF Type

(* A candidate mask is the default, or one run of ways of the pool of the  *)
(* workload; and unless the workload is shared, or best-effort pools may   *)
(* shrink, no visible class has a way of it.                               *)
LEMMA CandidateShape ==
  ASSUME rdt \in Platform, NEW w \in RDTWorkLoad, Type(w) \in PoolName, NEW s \in Sockets
  PROVE  LET m == enforceCache(w)[s]
             l == GetCachePoolLayout(Type(w), s)
         IN  /\ m \in SUBSET Ways
             /\ m = CbmMask \/ (m \subseteq l /\ Contiguous(m))
             /\ Type(w) = "shared" => m = l
             /\ Type(w) # "shared" /\ ~Shrink =>
                  m = CbmMask \/ m \subseteq GetAvailableCacheSchemata(rdt, pool, l, s)
<1> DEFINE l    == GetCachePoolLayout(Type(w), s)
           free == GetAvailableCacheSchemata(rdt, pool, l, s)
           m    == enforceCache(w)[s]
<1> SUFFICES /\ m \in SUBSET Ways
             /\ m = CbmMask \/ (m \subseteq l /\ Contiguous(m))
             /\ Type(w) = "shared" => m = l
             /\ Type(w) # "shared" /\ ~Shrink => m = CbmMask \/ m \subseteq free
  OBVIOUS
<1>1. l \in SUBSET Ways /\ Contiguous(l)
  BY LayoutShape
<1>2. free \subseteq l
  <2> HIDE DEF l
  <2> QED BY <1>1, FreeWays
<1>3. MinWays(w) \in Nat /\ MaxWays(w) \in Nat
  BY WorkloadWays
<1>4. m = IF Type(w) = "shared" THEN GetCachePoolLayout("shared", s)
          ELSE IF ~inCacheList(s, getSocketIDs(w)) THEN CbmMask
          ELSE IF Type(w) = "guarantee" THEN GetConnectiveBits(free, MaxWays(w))
          ELSE BesteffortCandidate(w, free, s)
  BY DEF enforceCache
<1>5. CASE Type(w) = "shared"
  BY <1>1, <1>4, <1>5
<1>6. CASE Type(w) # "shared" /\ ~inCacheList(s, getSocketIDs(w))
  BY <1>4, <1>6 DEF CbmMask
<1>7. CASE Type(w) = "guarantee" /\ inCacheList(s, getSocketIDs(w))
  <2>1. m = GetConnectiveBits(free, MaxWays(w))
    BY <1>4, <1>7
  <2>2. m \subseteq free /\ Contiguous(m)
    <3> HIDE DEF free, m, l
    <3> QED BY <1>1, <1>2, <1>3, <2>1, ConnectiveBitsShape
  <2> HIDE DEF m, free, l
  <2> QED BY <1>1, <1>2, <1>7, <2>2
<1>8. CASE Type(w) = "besteffort" /\ inCacheList(s, getSocketIDs(w))
  <2>1. m = BesteffortCandidate(w, free, s)
    BY <1>4, <1>8
  <2> DEFINE n == IF LongestRun(free) > MaxWays(w) THEN MaxWays(w) ELSE LongestRun(free)
  <2>2. LongestRun(free) \in 0 .. NWays
    <3> HIDE DEF free, l
    <3> QED BY <1>1, <1>2, LongestRunExists
  <2>3. n \in Int
    BY <1>3, <2>2
  <2> HIDE DEF n
  <2>4. \/ m = GetConnectiveBits(free, n)
        \/ Shrink /\ m = GetConnectiveBitsFromLow(l, MinWays(w))
        \/ m = {}
    BY <1>8, <2>1 DEF BesteffortCandidate, shrinkBEPool, n
  <2>5. /\ m \subseteq l /\ Contiguous(m)
        /\ ~Shrink => m \subseteq free
    <3> HIDE DEF free, m, l
    <3>1. CASE m = GetConnectiveBits(free, n)
      BY <1>1, <1>2, <2>3, <3>1, ConnectiveBitsShape
    <3>2. CASE Shrink /\ m = GetConnectiveBitsFromLow(l, MinWays(w))
      BY <1>1, <1>3, <3>2, ConnectiveBitsShape
    <3>3. CASE m = {}
      BY <3>3 DEF Contiguous
    <3> QED BY <2>4, <3>1, <3>2, <3>3
  <2> HIDE DEF m, free, l
  <2> QED BY <1>1, <1>8, <2>5
<1> QED BY <1>5, <1>6, <1>7, <1>8 DEF PoolName

(* What the rest of the world may choose: an order of the caches, and      *)
(* sockets on which the bandwidth that is set is one that libpqos accepts. *)
GoodChoice(w, c) == /\ c.order \in Orders
                    /\ c.set \subseteq Sockets
                    /\ \A s \in c.set : enforceMba(w, c.seen)[s] \in 1 .. MbaMax

(* The masks that a workload gets when it has a class of its own.          *)
Candidates(w, m) == /\ UseCache(w) /\ Type(w) \in PoolName
                    /\ \E o \in Orders : \A s \in Sockets : /\ m[s] = enforceCache(w)[o[s]]
                                                            /\ m[s] # {}

(* Enforce has committed class g: its mask is new or, for a workload that  *)
(* joins the shared group, the one it had; the other classes of the pool   *)
(* keep theirs; no other class has become reserved.                        *)
Commits(w, r, g) ==
  \E h \in Platform :
     /\ r.rdt = SetOSGroup(h, r.pool) /\ h.mode = rdt.mode
     /\ \A x \in Group \ {g} : h.mask[x] = rdt.mask[x]
     /\ Sound(r.pool) /\ Available(pool) \subseteq Available(r.pool) \cup {g}
     /\ \/ g \in Visible(pool) /\ Type(w) = "shared" /\ h.mask[g] = rdt.mask[g]
        \/ Candidates(w, h.mask[g])

(* enforceRDT on its own.                                                  *)
LEMMA RDTOutcomes ==
  ASSUME Sound(pool), rdt \in Platform, NEW w \in RDTWorkLoad, UseCache(w), Type(w) \in PoolName,
         \A s \in Sockets : enforceCache(w)[s] # {},
         NEW c, GoodChoice(w, c), NEW r, r = enforceRDT(w, c)
  PROVE  \/ r = NoChange(w, "failed")
         \/ /\ Type(w) = "shared" /\ UsesMba(w) /\ GetSharedCLOS(pool).ok
            /\ r = [status |-> "failed", w |-> w, pool |-> GetSharedCLOS(pool).pool, rdt |-> rdt]
         \/ \E g \in PoolClos : /\ r.status = "ok" /\ r.w = [w EXCEPT !.cos = g]
                                /\ r = [status |-> r.status, w |-> r.w, pool |-> r.pool, rdt |-> r.rdt]
                                /\ Commits(w, r, g)
<1> DEFINE u == IF Type(w) = "shared" THEN GetSharedCLOS(pool) ELSE UseAvailableCLOS(pool)
           joins == Type(w) = "shared" /\ u.clos \in Visible(pool)
           old   == IF joins THEN MembersOf(rdt, u.clos) ELSE {}
           mask  == IF joins THEN rdt.mask[u.clos]
                    ELSE [s \in Sockets |-> enforceCache(w)[c.order[s]]]
           tasks == w.tasks \cup (old \cap Tasks)
           cores == w.cores \cup (old \cap Cores)
           mb    == [s \in c.set |-> enforceMba(w, c.seen)[s]]
           res   == [ResAssociation(mask, tasks, cores) EXCEPT !.useMba = UsesMba(w), !.mb = mb]
           h     == AllocateCLOS(rdt, u.clos, res, c.living, c.got)
<1>1. r = IF ~u.ok
          THEN [status |-> "failed", w |-> w, pool |-> pool, rdt |-> rdt]
          ELSE IF UsesMba(w) /\ Type(w) = "shared"
          THEN [status |-> "failed", w |-> w, pool |-> u.pool, rdt |-> rdt]
          ELSE [status |-> "ok", w |-> [w EXCEPT !.cos = u.clos], pool |-> u.pool,
                rdt |-> SetOSGroup(h, u.pool)]
  BY DEF enforceRDT
<1>2. /\ Sound(u.pool) /\ u.ok \in BOOLEAN
      /\ u.ok => u.clos \in PoolClos /\ Available(pool) \subseteq Available(u.pool) \cup {u.clos}
  BY UseSound, SharedSound
<1>3. CASE ~u.ok
  BY <1>1, <1>3 DEF NoChange
<1>4. CASE u.ok /\ UsesMba(w) /\ Type(w) = "shared"
  BY <1>1, <1>4
<1>5. CASE u.ok /\ ~(UsesMba(w) /\ Type(w) = "shared")
  <2> DEFINE g == u.clos
  <2>1. g \in PoolClos /\ g \in Group
    BY <1>2, <1>5, PoolGroups
  <2>2. r = [status |-> "ok", w |-> [w EXCEPT !.cos = g], pool |-> u.pool,
             rdt |-> SetOSGroup(h, u.pool)]
    BY <1>1, <1>5
  <2>3. mask \in Mask /\ (~joins => Candidates(w, mask))
    <3>1. CASE joins
      BY <2>1, <3>1, PlatformFields
    <3>2. CASE ~joins
      <4>1. mask = [s \in Sockets |-> enforceCache(w)[c.order[s]]]
        BY <3>2
      <4>2. \A s \in Sockets : c.order[s] \in Sockets
        BY DEF GoodChoice, Orders
      <4>3. \A s \in Sockets : enforceCache(w)[s] \in SUBSET Ways
        BY CandidateShape
      <4>4. c.order \in Orders
        BY DEF GoodChoice
      <4> HIDE DEF mask
      <4>5. \A s \in Sockets : /\ mask[s] = enforceCache(w)[c.order[s]]
                               /\ mask[s] # {} /\ mask[s] \in SUBSET Ways
        BY <4>1, <4>2, <4>3
      <4> QED BY <4>1, <4>4, <4>5 DEF Candidates, Mask
    <3> QED BY <3>1, <3>2
  <2> HIDE DEF joins
  <2>4. joins => g \in Visible(pool) /\ Type(w) = "shared" /\ mask = rdt.mask[g]
    BY DEF joins
  <2> HIDE DEF mask, tasks, cores, u
  <2>5. res.mask = mask /\ res.useMba = UsesMba(w) /\ res.mb = mb
    <3> DEFINE b == UsesMba(w)
               no == FALSE
               a == [mask |-> mask, tasks |-> tasks, cores |-> cores, useMba |-> no, mb |-> <<>>]
               e == [a EXCEPT !.useMba = b, !.mb = mb]
    <3>1. e = res
      BY DEF ResAssociation
    <3> HIDE DEF b, mb, no
    <3>2. e.mask = mask /\ e.useMba = b /\ e.mb = mb
      OBVIOUS
    <3> HIDE DEF e
    <3> QED BY <3>1, <3>2 DEF b
  <2>6. WellFormed(res)
    <3>1. \A s \in Sockets : s \in DOMAIN mb => mb[s] \in 1 .. MbaMax
      BY DEF GoodChoice
    <3> HIDE DEF mb
    <3>2. UsesMba(w) \in BOOLEAN
      BY DEF UsesMba
    <3> QED BY <2>3, <2>5, <3>1, <3>2 DEF WellFormed
  <2>7. res.mask = mask
    BY <2>5
  <2> HIDE DEF res
  <2>8. /\ h \in Platform /\ h.mode = rdt.mode /\ h.mask[g] = mask
        /\ \A x \in Group \ {g} : h.mask[x] = rdt.mask[x]
    BY <2>1, <2>6, <2>7, AllocateEffect
  <2> HIDE DEF h, g
  <2>9. /\ r.rdt = SetOSGroup(h, r.pool) /\ r.pool = u.pool /\ r.status = "ok"
        /\ r.w = [w EXCEPT !.cos = g]
    BY <2>2
  <2>10. /\ Sound(r.pool) /\ Available(pool) \subseteq Available(r.pool) \cup {g}
    BY <1>2, <1>5, <2>9 DEF g
  <2>11. \/ g \in Visible(pool) /\ Type(w) = "shared" /\ h.mask[g] = rdt.mask[g]
         \/ Candidates(w, h.mask[g])
    BY <2>3, <2>4, <2>8
  <2>12. Commits(w, r, g)
    BY <2>8, <2>9, <2>10, <2>11 DEF Commits
  <2>13. r = [status |-> r.status, w |-> r.w, pool |-> r.pool, rdt |-> r.rdt]
    BY <2>2
  <2> QED BY <2>1, <2>9, <2>12, <2>13
<1> QED BY <1>2, <1>3, <1>4, <1>5

(* The three outcomes of Enforce, for the platform and the pool: nothing   *)
(* has happened; a shared workload with a bandwidth has reserved a class   *)
(* for which nothing is committed; or a class is committed.                *)
LEMMA EnforceOutcomes ==
  ASSUME Sound(pool), rdt \in Platform, NEW w \in RDTWorkLoad,
         NEW c, GoodChoice(w, c), NEW r, r = Enforce(w, c)
  PROVE  \/ r.w = w /\ r.pool = pool /\ r.rdt = rdt
         \/ /\ UseCache(w) /\ Type(w) = "shared" /\ UsesMba(w) /\ GetSharedCLOS(pool).ok
            /\ r.w = w /\ r.pool = GetSharedCLOS(pool).pool /\ r.rdt = rdt /\ r.status = "failed"
         \/ \E g \in PoolClos : UseCache(w) /\ r.w = [w EXCEPT !.cos = g] /\ Commits(w, r, g)
<1> DEFINE q == IF UseCache(w) THEN enforceRDT(w, c) ELSE NoChange(w, "ok")
<1>1. \/ \E status : r = NoChange(w, status)
      \/ /\ r = q \/ r = [q EXCEPT !.status = "failed"]
         /\ UseCache(w) => /\ Type(w) # "unsupported"
                           /\ \A s \in Sockets : enforceCache(w)[s] # {}
  BY DEF Enforce
<1>2. CASE \E status : r = NoChange(w, status)
  BY <1>2 DEF NoChange
<1>3. CASE ~UseCache(w) /\ (r = q \/ r = [q EXCEPT !.status = "failed"])
  BY <1>3 DEF NoChange
<1>4. CASE /\ UseCache(w) /\ (r = q \/ r = [q EXCEPT !.status = "failed"])
           /\ Type(w) # "unsupported" /\ \A s \in Sockets : enforceCache(w)[s] # {}
  <2>1. Type(w) \in PoolName
    BY <1>4, WorkloadWays
  <2>2. q = enforceRDT(w, c)
    BY <1>4
  <2> HIDE DEF q
  <2>3. \/ q = NoChange(w, "failed")
        \/ /\ Type(w) = "shared" /\ UsesMba(w) /\ GetSharedCLOS(pool).ok
           /\ q = [status |-> "failed", w |-> w, pool |-> GetSharedCLOS(pool).pool, rdt |-> rdt]
        \/ \E g \in PoolClos : /\ q.status = "ok" /\ q.w = [w EXCEPT !.cos = g]
                               /\ q = [status |-> q.status, w |-> q.w, pool |-> q.pool, rdt |-> q.rdt]
                               /\ Commits(w, q, g)
    BY <1>4, <2>1, <2>2, RDTOutcomes
  <2>4. CASE q = NoChange(w, "failed")
    BY <1>4, <2>4 DEF NoChange
  <2>5. CASE /\ Type(w) = "shared" /\ UsesMba(w) /\ GetSharedCLOS(pool).ok
             /\ q = [status |-> "failed", w |-> w, pool |-> GetSharedCLOS(pool).pool, rdt |-> rdt]
    BY <1>4, <2>5
  <2>6. ASSUME NEW g \in PoolClos, q.w = [w EXCEPT !.cos = g], Commits(w, q, g),
               q = [status |-> q.status, w |-> q.w, pool |-> q.pool, rdt |-> q.rdt]
        PROVE  r.w = [w EXCEPT !.cos = g] /\ Commits(w, r, g)
    <3>1. r.w = q.w /\ r.pool = q.pool /\ r.rdt = q.rdt
      BY <1>4, <2>6
    <3> QED BY <2>6, <3>1 DEF Commits
  <2> QED BY <1>4, <2>3, <2>4, <2>5, <2>6
<1> QED BY <1>1, <1>2, <1>3, <1>4

-----------------------------------------------------------------------------
(* Release.                                                                *)

(* The outcomes of Release, for the platform and the pool: members have    *)
(* moved; the OS group is recomputed as well; a class that is available    *)
(* anyway is returned; or a class gets the default mask and is returned.   *)
LEMMA ReleaseOutcomes ==
  ASSUME Sound(pool), rdt \in Platform, NEW w \in RDTWorkLoad, NEW got, NEW plugin,
         NEW r, r = Release(w, got, plugin)
  PROVE  \E h \in Platform :
            /\ h.mask = rdt.mask /\ h.mode = rdt.mode
            /\ \/ r.pool = pool /\ r.rdt = h
               \/ r.pool = pool /\ r.rdt = SetOSGroup(h, pool)
               \/ /\ w.cos \in PoolClos
                  /\ r.pool = ReturnClos(pool, w.cos) /\ r.rdt = h
               \/ /\ w.cos \in PoolClos
                  /\ r.pool = ReturnClos(pool, w.cos)
                  /\ r.rdt = SetOSGroup(ResetCOSParamsToDefaults(h, w.cos), r.pool)
<1> DEFINE d == DeallocateTasks(rdt, w.tasks, got)
           e == DeallocateCores(d.rdt, w.cores)
<1>1. d.rdt \in Platform /\ d.rdt.mask = rdt.mask /\ d.rdt.mode = rdt.mode
  BY DeallocateEffect
<1>2. e \in Platform /\ e.mask = rdt.mask /\ e.mode = rdt.mode
  <2> HIDE DEF d
  <2> QED BY <1>1, DeallocateEffect
<1>3. \/ r.pool = pool /\ (r.rdt = rdt \/ r.rdt = d.rdt)
      \/ w.cos # NoClos /\ r = ReleaseClos(w, e)
  BY DEF Release
<1>4. w.cos # NoClos => w.cos \in PoolClos
  BY DEF RDTWorkLoad, ClosName
<1> HIDE DEF d, e
<1>5. CASE r.pool = pool /\ (r.rdt = rdt \/ r.rdt = d.rdt)
  BY <1>1, <1>5
<1>6. CASE w.cos # NoClos /\ r = ReleaseClos(w, e)
  <2>1. \/ r.pool = ReturnClos(pool, w.cos) /\ r.rdt = e
        \/ r.pool = pool /\ r.rdt = SetOSGroup(e, pool)
        \/ /\ r.pool = ReturnClos(pool, w.cos)
           /\ r.rdt = SetOSGroup(ResetCOSParamsToDefaults(e, w.cos), r.pool)
    BY <1>6 DEF ReleaseClos, FreeClos
  <2> QED BY <1>2, <1>4, <1>6, <2>1
<1> QED BY <1>3, <1>5, <1>6

-----------------------------------------------------------------------------
(* Enforce and Release of a workload that does not ask for shared cache.   *)

(* The members that Enforce associates with the class of workload w.       *)
Joining(w, c) == IF w.tasks # {} THEN Associated(w.tasks, c.living, c.got) ELSE w.cores

(* Enforce has reserved class g for w, given it the masks that it found,   *)
(* in the order that c chose, the bandwidth of w and the members of w, and *)
(* has touched no other class but the OS group: v, p and h are then the    *)
(* workload, the pool and the platform.                                    *)
TakesAs(w, c, v, p, h, g) ==
  /\ UseCache(w) /\ Type(w) \in {"guarantee", "besteffort"}
  /\ \A s \in Sockets : enforceCache(w)[s] # {}
  /\ UseAvailableCLOS(pool).ok
  /\ g = UseAvailableCLOS(pool).clos /\ p = UseAvailableCLOS(pool).pool
  /\ v = [w EXCEPT !.cos = g]
  /\ h \in Platform
  /\ \A x \in Group \ {0, g} : h.mask[x] = rdt.mask[x]
  /\ \A s \in Sockets : h.mask[g][s] = enforceCache(w)[c.order[s]]
  /\ \A x \in Group \ {g} : h.mb[x] = rdt.mb[x]
  /\ \A s \in Sockets :
        \/ h.mb[g][s] \in {rdt.mb[g][s], MbaMax}
        \/ UsesMba(w) /\ h.mb[g][s] = enforceMba(w, c.seen)[s]
  /\ UsesMba(w) /\ w.tasks \subseteq c.living =>
        \A s \in Sockets \cap c.set : h.mb[g][s] = enforceMba(w, c.seen)[s]
  /\ \A m \in Members : h.group[m] = IF m \in Joining(w, c) THEN g ELSE rdt.group[m]

Takes(w, c, r, g) == TakesAs(w, c, r.w, r.pool, r.rdt, g)

(* What enforceRDT commits for it.                                         *)
LEMMA RDTTakes ==
  ASSUME Sound(pool), rdt \in Platform, NEW w \in RDTWorkLoad, UseCache(w),
         Type(w) \in {"guarantee", "besteffort"}, \A s \in Sockets : enforceCache(w)[s] # {},
         NEW c, GoodChoice(w, c), NEW r, r = enforceRDT(w, c)
  PROVE  \/ r = NoChange(w, "failed")
         \/ /\ \E g \in PoolClos : Takes(w, c, r, g)
            /\ r = [status |-> "ok", w |-> r.w, pool |-> r.pool, rdt |-> r.rdt]
<1> DEFINE u     == UseAvailableCLOS(pool)
           g     == u.clos
           mask  == [s \in Sockets |-> enforceCache(w)[c.order[s]]]
           tasks == w.tasks \cup ({} \cap Tasks)
           cores == w.cores \cup ({} \cap Cores)
           mb    == [s \in c.set |-> enforceMba(w, c.seen)[s]]
           res   == [ResAssociation(mask, tasks, cores) EXCEPT !.useMba = UsesMba(w), !.mb = mb]
           h     == AllocateCLOS(rdt, g, res, c.living, c.got)
<1>1. Type(w) # "shared"
  OBVIOUS
<1>2. r = IF ~u.ok
          THEN [status |-> "failed", w |-> w, pool |-> pool, rdt |-> rdt]
          ELSE [status |-> "ok", w |-> [w EXCEPT !.cos = g], pool |-> u.pool,
                rdt |-> SetOSGroup(h, u.pool)]
  BY <1>1 DEF enforceRDT
<1>3. CASE ~u.ok
  BY <1>2, <1>3 DEF NoChange
<1>4. CASE u.ok
  <2>1. g \in PoolClos /\ g \in Group /\ g # 0
    BY <1>4, UseSound, PoolGroups
  <2>2. r = [status |-> "ok", w |-> [w EXCEPT !.cos = g], pool |-> u.pool,
             rdt |-> SetOSGroup(h, u.pool)]
    BY <1>2, <1>4
  <2>3. \A s \in Sockets : mask[s] = enforceCache(w)[c.order[s]]
    OBVIOUS
  <2>4. mask \in Mask
    <3>1. \A s \in Sockets : c.order[s] \in Sockets
      BY DEF GoodChoice, Orders
    <3>2. \A s \in Sockets : enforceCache(w)[s] \in SUBSET Ways
      BY CandidateShape DEF PoolName
    <3> QED BY <3>1, <3>2 DEF Mask
  <2>5. tasks = w.tasks /\ cores = w.cores
    OBVIOUS
  <2>6. DOMAIN mb = c.set /\ \A s \in c.set : mb[s] = enforceMba(w, c.seen)[s]
    OBVIOUS
  <2> HIDE DEF mask, tasks, cores, u, mb
  <2>7. /\ res.mask = mask /\ res.useMba = UsesMba(w) /\ res.mb = mb
        /\ res.tasks = tasks /\ res.cores = cores
    <3> DEFINE b == UsesMba(w)
               no == FALSE
               a == [mask |-> mask, tasks |-> tasks, cores |-> cores, useMba |-> no, mb |-> <<>>]
               e == [a EXCEPT !.useMba = b, !.mb = mb]
    <3>1. e = res
      BY DEF ResAssociation
    <3> HIDE DEF b, no
    <3>2. e.mask = mask /\ e.useMba = b /\ e.mb = mb /\ e.tasks = tasks /\ e.cores = cores
      OBVIOUS
    <3> HIDE DEF e
    <3> QED BY <3>1, <3>2 DEF b
  <2>8. WellFormed(res)
    <3>1. \A s \in Sockets : s \in DOMAIN mb => mb[s] \in 1 .. MbaMax
      BY <2>6 DEF GoodChoice
    <3>2. UsesMba(w) \in BOOLEAN
      BY DEF UsesMba
    <3> QED BY <2>4, <2>7, <3>1, <3>2 DEF WellFormed
  <2>9. MovedBy(res, c.living, c.got) = Joining(w, c)
    BY <2>5, <2>7 DEF MovedBy, Joining
  <2> HIDE DEF res
  <2>10. /\ h \in Platform /\ h.mask[g] = mask
         /\ \A x \in Group \ {g} : h.mask[x] = rdt.mask[x] /\ h.mb[x] = rdt.mb[x]
         /\ h.mb[g] = IF res.tasks \subseteq c.living THEN SetMba(rdt, g, res) ELSE rdt.mb[g]
         /\ \A m \in Members : h.group[m] = IF m \in Joining(w, c) THEN g ELSE rdt.group[m]
    BY <2>1, <2>7, <2>8, <2>9, AllocateEffect
  <2>11. ASSUME NEW s \in Sockets
         PROVE  /\ \/ h.mb[g][s] \in {rdt.mb[g][s], MbaMax}
                   \/ UsesMba(w) /\ h.mb[g][s] = enforceMba(w, c.seen)[s]
                /\ UsesMba(w) /\ w.tasks \subseteq c.living /\ s \in c.set =>
                     h.mb[g][s] = enforceMba(w, c.seen)[s]
    <3>1. SetMba(rdt, g, res)[s]
            = IF res.useMba THEN IF s \in DOMAIN res.mb THEN res.mb[s] ELSE rdt.mb[g][s]
              ELSE IF rdt.mode = "mbps" THEN MbaMax ELSE rdt.mb[g][s]
      BY DEF SetMba
    <3> HIDE DEF h
    <3> QED BY <2>5, <2>6, <2>7, <2>10, <3>1
  <2> HIDE DEF h, g
  <2>12. /\ r.rdt = SetOSGroup(h, u.pool) /\ r.pool = u.pool
         /\ r.w = [w EXCEPT !.cos = g]
         /\ r = [status |-> "ok", w |-> r.w, pool |-> r.pool, rdt |-> r.rdt]
    BY <2>2
  <2>13. /\ r.rdt \in Platform /\ r.rdt.group = h.group /\ r.rdt.mb = h.mb
         /\ \A x \in Group \ {0} : r.rdt.mask[x] = h.mask[x]
    BY <2>10, <2>12, SetOSGroupEffect
  <2>14. Takes(w, c, r, g)
    <3>1. UseAvailableCLOS(pool).ok /\ g = UseAvailableCLOS(pool).clos
          /\ r.pool = UseAvailableCLOS(pool).pool
      BY <1>4, <2>12 DEF u, g
    <3>2. \A s \in Sockets : r.rdt.mask[g][s] = enforceCache(w)[c.order[s]]
      BY <2>1, <2>3, <2>10, <2>13 DEF g
    <3>3. \A x \in Group \ {0, g} : r.rdt.mask[x] = rdt.mask[x]
      BY <2>10, <2>13
    <3>4. \A x \in Group \ {g} : r.rdt.mb[x] = rdt.mb[x]
      BY <2>10, <2>13
    <3>5. /\ \A s \in Sockets :
                \/ r.rdt.mb[g][s] \in {rdt.mb[g][s], MbaMax}
                \/ UsesMba(w) /\ r.rdt.mb[g][s] = enforceMba(w, c.seen)[s]
          /\ UsesMba(w) /\ w.tasks \subseteq c.living =>
                \A s \in Sockets \cap c.set : r.rdt.mb[g][s] = enforceMba(w, c.seen)[s]
      BY <2>11, <2>13
    <3>6. \A m \in Members : r.rdt.group[m] = IF m \in Joining(w, c) THEN g ELSE rdt.group[m]
      BY <2>10, <2>13
    <3>7. r.w = [w EXCEPT !.cos = g] /\ r.rdt \in Platform
      BY <2>12, <2>13
    <3> QED BY Zenon, <3>1, <3>2, <3>3, <3>4, <3>5, <3>6, <3>7 DEF Takes, TakesAs
  <2> QED BY <2>1, <2>12, <2>14
<1> QED BY <1>3, <1>4

(* A request for at least one way is not a shared one.                     *)
LEMMA NotShared ==
  ASSUME NEW w \in RDTWorkLoad, CacheOf(w).max # 0, UseCache(w)
  PROVE  Type(w) # "shared"
<1>1. CacheOf(w).max # Nil
  BY DEF UseCache
<1>2. MaxWays(w) # 0
  BY <1>1 DEF MaxWays
<1> QED BY <1>2, WorkloadWays

(* So Enforce either leaves everything alone, or takes a class for it.     *)
LEMMA EnforceTakes ==
  ASSUME Sound(pool), rdt \in Platform, NEW w \in RDTWorkLoad, CacheOf(w).max # 0,
         NEW c, GoodChoice(w, c), NEW r, r = Enforce(w, c)
  PROVE  \/ r.w = w /\ r.pool = pool /\ r.rdt = rdt
         \/ \E g \in PoolClos : Takes(w, c, r, g)
<1> DEFINE q == IF UseCache(w) THEN enforceRDT(w, c) ELSE NoChange(w, "ok")
<1>1. \/ \E status : r = NoChange(w, status)
      \/ /\ r = q \/ r = [q EXCEPT !.status = "failed"]
         /\ UseCache(w) => /\ Type(w) # "unsupported"
                           /\ \A s \in Sockets : enforceCache(w)[s] # {}
  BY DEF Enforce
<1>2. CASE \E status : r = NoChange(w, status)
  BY <1>2 DEF NoChange
<1>3. CASE ~UseCache(w) /\ (r = q \/ r = [q EXCEPT !.status = "failed"])
  BY <1>3 DEF NoChange
<1>4. CASE /\ UseCache(w) /\ (r = q \/ r = [q EXCEPT !.status = "failed"])
           /\ Type(w) # "unsupported" /\ \A s \in Sockets : enforceCache(w)[s] # {}
  <2>1. Type(w) \in {"guarantee", "besteffort"}
    BY <1>4, WorkloadWays, NotShared DEF PoolName
  <2>2. q = enforceRDT(w, c)
    BY <1>4
  <2> HIDE DEF q
  <2>3. \/ q = NoChange(w, "failed")
        \/ /\ \E g \in PoolClos : Takes(w, c, q, g)
           /\ q = [status |-> "ok", w |-> q.w, pool |-> q.pool, rdt |-> q.rdt]
    BY <1>4, <2>1, <2>2, RDTTakes
  <2>4. CASE q = NoChange(w, "failed")
    BY <1>4, <2>4 DEF NoChange
  <2>5. ASSUME NEW g \in PoolClos, Takes(w, c, q, g),
               q = [status |-> "ok", w |-> q.w, pool |-> q.pool, rdt |-> q.rdt]
        PROVE  Takes(w, c, r, g)
    <3>1. r.w = q.w /\ r.pool = q.pool /\ r.rdt = q.rdt
      BY <1>4, <2>5
    <3> QED BY <2>5, <3>1 DEF Takes
  <2> QED BY <2>3, <2>4, <2>5
<1> QED BY <1>1, <1>2, <1>3, <1>4

(* Release has moved the members of w back to COS0.                        *)
Frees(w, r) ==
  /\ r.pool = ReturnClos(pool, w.cos) /\ r.rdt \in Platform
  /\ \A x \in Group \ {0, w.cos} : r.rdt.mask[x] = rdt.mask[x]
  /\ r.rdt.mask[w.cos] = DefaultMask /\ r.rdt.mb[w.cos] = DefaultBandwidth
  /\ \A x \in Group \ {w.cos} : r.rdt.mb[x] = rdt.mb[x]
  /\ \A m \in Members : r.rdt.group[m] = IF m \in w.tasks \cup w.cores THEN 0 ELSE rdt.group[m]

(* Release, when there is no shared class: nothing has happened; some of   *)
(* the tasks were moved before one was found that has ended; or the class  *)
(* is free again.                                                          *)
LEMMA ReleaseFrees ==
  ASSUME Sound(pool), pool.shared = NoClos, rdt \in Platform, NEW w \in RDTWorkLoad,
         NEW got, NEW plugin, NEW r, r = Release(w, got, plugin)
  PROVE  \/ r.pool = pool /\ r.rdt = rdt
         \/ /\ r.ok /\ r.pool = pool /\ r.rdt \in Platform
            /\ r.rdt.mask = rdt.mask /\ r.rdt.mb = rdt.mb
            /\ \A m \in Members : \/ r.rdt.group[m] = rdt.group[m]
                                  \/ m \in w.tasks /\ r.rdt.group[m] = 0
         \/ r.ok /\ w.cos \in PoolClos /\ Frees(w, r)
<1> DEFINE d == DeallocateTasks(rdt, w.tasks, got)
           e == DeallocateCores(d.rdt, w.cores)
           k == ResetCOSParamsToDefaults(e, w.cos)
<1>1. /\ d.rdt \in Platform /\ d.rdt.mask = rdt.mask /\ d.rdt.mb = rdt.mb
      /\ d.ok = (w.tasks \subseteq alive)
      /\ \A m \in Members : d.rdt.group[m] = IF m \in Associated(w.tasks, alive, got) THEN 0
                                             ELSE rdt.group[m]
  <2>1. d.rdt \in Platform /\ d.rdt.mask = rdt.mask /\ d.rdt.mb = rdt.mb
    BY DeallocateEffect
  <2>2. d.ok = (w.tasks \subseteq alive)
    BY DEF DeallocateTasks
  <2>3. \A m \in Members : d.rdt.group[m] = IF m \in Associated(w.tasks, alive, got) THEN 0
                                             ELSE rdt.group[m]
    BY TasksMove
  <2> QED BY <2>1, <2>2, <2>3
<1>2. \/ r.pool = pool /\ r.rdt = rdt
      \/ r.ok /\ r.pool = pool /\ r.rdt = d.rdt
      \/ w.cos # NoClos /\ d.ok /\ r = ReleaseClos(w, e)
  BY DEF Release
<1> HIDE DEF d
<1>3. CASE r.ok /\ r.pool = pool /\ r.rdt = d.rdt
  BY <1>1, <1>3 DEF Associated
<1>4. CASE w.cos # NoClos /\ d.ok /\ r = ReleaseClos(w, e)
  <2>1. w.cos \in PoolClos /\ w.cos \in Group /\ w.cos # 0
    BY <1>4, PoolGroups DEF RDTWorkLoad, ClosName
  <2>2. /\ e \in Platform /\ e.mask = rdt.mask /\ e.mb = rdt.mb
        /\ \A m \in Members : e.group[m] = IF m \in w.cores THEN 0 ELSE d.rdt.group[m]
    <3> DEFINE x == d.rdt
    <3>1. x \in Platform
      BY <1>1
    <3> HIDE DEF x
    <3>2. LET y == DeallocateCores(x, w.cores)
          IN  y \in Platform /\ y.mask = x.mask /\ y.mb = x.mb
      BY <3>1, DeallocateEffect
    <3>3. ASSUME NEW m \in Members
          PROVE  DeallocateCores(x, w.cores).group[m] = IF m \in w.cores THEN 0 ELSE x.group[m]
      BY <3>1, CoresMove
    <3> QED BY <1>1, <3>2, <3>3 DEF x
  <2>3. \A m \in Members : e.group[m] = IF m \in w.tasks \cup w.cores THEN 0 ELSE rdt.group[m]
    BY <1>1, <1>4, <2>2 DEF Associated
  <2> HIDE DEF e
  <2>4. r = [ok |-> TRUE, pool |-> ReturnClos(pool, w.cos),
             rdt |-> SetOSGroup(k, ReturnClos(pool, w.cos))]
    BY <1>4, <2>1 DEF ReleaseClos, FreeClos, IsSharedCLOS
  <2>5. /\ k \in Platform /\ k.mask[w.cos] = DefaultMask /\ k.mb[w.cos] = DefaultBandwidth
        /\ k.group = e.group
        /\ \A x \in Group \ {w.cos} : k.mask[x] = rdt.mask[x] /\ k.mb[x] = rdt.mb[x]
    BY <2>1, <2>2, ResetEffect
  <2> HIDE DEF k
  <2>6. r.ok /\ r.pool = ReturnClos(pool, w.cos) /\ r.rdt = SetOSGroup(k, r.pool)
    BY <2>4
  <2>7. /\ r.rdt \in Platform /\ r.rdt.group = k.group /\ r.rdt.mb = k.mb
        /\ \A x \in Group \ {0} : r.rdt.mask[x] = k.mask[x]
    BY <2>5, <2>6, SetOSGroupEffect
  <2> QED BY <2>1, <2>3, <2>5, <2>6, <2>7 DEF Frees
<1> QED BY <1>2, <1>3, <1>4

(* A run that is found has the length that was asked for.                  *)
LEMMA RunLength ==
  ASSUME NEW bits \in SUBSET Ways, NEW n \in Nat \ {0}
  PROVE  /\ GetConnectiveBits(bits, n) # {} => Cardinality(GetConnectiveBits(bits, n)) = n
         /\ GetConnectiveBitsFromLow(bits, n) # {} =>
              Cardinality(GetConnectiveBitsFromLow(bits, n)) = n
<1> USE NWaysAssumption
<1>1. \A i \in RunStarts(bits, n) : i \in Int /\ i .. (i + n - 1) \subseteq bits
  BY DEF RunStarts, Ways
<1>2. ASSUME NEW x \in GetConnectiveBits(bits, n)
      PROVE  Cardinality(GetConnectiveBits(bits, n)) = n
  <2>1. PICK i \in RunStarts(bits, n) : \A j \in RunStarts(bits, n) : j <= i
    BY DEF GetConnectiveBits
  <2>2. \A k \in RunStarts(bits, n) : (\A j \in RunStarts(bits, n) : j <= k) => k = i
    BY <1>1, <2>1
  <2>3. GetConnectiveBits(bits, n) = i .. (i + n - 1)
    BY <1>1, <2>1, <2>2 DEF GetConnectiveBits
  <2>4. i \in Int /\ i + n - 1 \in Int /\ ~(i > i + n - 1) /\ (i + n - 1) - i + 1 = n
    BY <1>1
  <2> QED BY <2>3, <2>4, FS_Interval
<1>3. ASSUME NEW x \in GetConnectiveBitsFromLow(bits, n)
      PROVE  Cardinality(GetConnectiveBitsFromLow(bits, n)) = n
  <2>1. PICK i \in RunStarts(bits, n) : \A j \in RunStarts(bits, n) : i <= j
    BY DEF GetConnectiveBitsFromLow
  <2>2. \A k \in RunStarts(bits, n) : (\A j \in RunStarts(bits, n) : k <= j) => k = i
    BY <1>1, <2>1
  <2>3. GetConnectiveBitsFromLow(bits, n) = i .. (i + n - 1)
    BY <1>1, <2>1, <2>2 DEF GetConnectiveBitsFromLow
  <2>4. i \in Int /\ i + n - 1 \in Int /\ ~(i > i + n - 1) /\ (i + n - 1) - i + 1 = n
    BY <1>1
  <2> QED BY <2>3, <2>4, FS_Interval
<1> QED BY <1>2, <1>3

(* A pool is never the whole cache: the OS has a way of its own.           *)
LEMMA LayoutProper ==
  ASSUME NEW name \in PoolName, NEW s \in Sockets
  PROVE  GetCachePoolLayout(name, s) # CbmMask
<1> USE LayoutAssumption, NWaysAssumption
<1>1. ASSUME NEW n \in Nat, NEW o \in Nat, n + o < NWays
      PROVE  getReservedCache(n, o, s) # Ways
  <2>1. 0 \in Ways /\ NWays - 1 \in Ways
    BY <1>1 DEF Ways
  <2>2. PICK base \in Nat : getReservedCache(n, o, s) = {w \in Ways : base <= w /\ w < base + n}
    BY DEF getReservedCache
  <2>3. CASE base = 0
    <3>1. NWays - 1 \notin getReservedCache(n, o, s)
      BY <1>1, <2>2, <2>3
    <3> QED BY <2>1, <3>1
  <2>4. CASE base # 0
    <3>1. 0 \notin getReservedCache(n, o, s)
      BY <2>2, <2>4
    <3> QED BY <2>1, <3>1
  <2> QED BY <2>3, <2>4
<1>2. /\ GuaranteeWays + 0 < NWays /\ BesteffortWays + GuaranteeWays < NWays
      /\ SharedWays + (GuaranteeWays + BesteffortWays) < NWays
      /\ GuaranteeWays + BesteffortWays \in Nat
  OBVIOUS
<1> QED BY <1>1, <1>2 DEF GetCachePoolLayout, PoolName, CbmMask

(* The mask m is what workload w asks for on cache s.                      *)
Fits(w, m, s) == /\ Contiguous(m) /\ m \subseteq GetCachePoolLayout(Type(w), s)
                 /\ Cardinality(m) \in MinWays(w) .. MaxWays(w)

(* The types of exclusive workloads in terms of the two values.            *)
LEMMA ExclusiveWays ==
  ASSUME NEW w \in RDTWorkLoad, Type(w) \in {"guarantee", "besteffort"}
  PROVE  /\ MinWays(w) \in Nat \ {0} /\ MaxWays(w) \in Nat \ {0}
         /\ MinWays(w) <= MaxWays(w)
         /\ Type(w) = "guarantee" <=> MinWays(w) = MaxWays(w)
<1>1. MinWays(w) \in Nat /\ MaxWays(w) \in Nat
  BY WorkloadWays
<1>2. \A a, b \in Nat :
        GetCachePoolName(a, b) \in {"guarantee", "besteffort"} =>
           /\ b # 0 /\ a # 0 /\ b <= a
           /\ GetCachePoolName(a, b) = "guarantee" <=> b = a
  BY DEF GetCachePoolName
<1> QED BY <1>1, <1>2 DEF Type

(* The candidate on a cache on which the workload runs is what it asks for.*)
LEMMA CandidateFits ==
  ASSUME NEW w \in RDTWorkLoad, UseCache(w),
         Type(w) \in {"guarantee", "besteffort"}, NEW s \in Sockets,
         inCacheList(s, getSocketIDs(w)), enforceCache(w)[s] # {}
  PROVE  Fits(w, enforceCache(w)[s], s)
<1> DEFINE l    == GetCachePoolLayout(Type(w), s)
           free == GetAvailableCacheSchemata(rdt, pool, l, s)
           m    == enforceCache(w)[s]
<1>1. l \in SUBSET Ways
  BY LayoutShape DEF PoolName
<1>2. free \in SUBSET Ways /\ free \subseteq l
  <2> HIDE DEF l
  <2> QED BY <1>1, FreeWays
<1> DEFINE lo == MinWays(w)
           hi == MaxWays(w)
<1>3. /\ lo \in Nat \ {0} /\ hi \in Nat \ {0} /\ lo <= hi
      /\ Type(w) = "guarantee" <=> lo = hi
  BY ExclusiveWays
<1>4. m = IF Type(w) = "guarantee" THEN GetConnectiveBits(free, hi)
          ELSE BesteffortCandidate(w, free, s)
  BY <1>3 DEF enforceCache
<1>5. \A n \in lo .. hi : n \in Int /\ n \in Nat \ {0}
  BY <1>3
<1>6. SUFFICES \E n \in lo .. hi :
                 \/ m = GetConnectiveBits(free, n)
                 \/ m = GetConnectiveBitsFromLow(l, n)
  <2>1. m # {}
    OBVIOUS
  <2> HIDE DEF m, free, l
  <2>2. PICK n \in lo .. hi : \/ m = GetConnectiveBits(free, n)
                                    \/ m = GetConnectiveBitsFromLow(l, n)
    BY <1>6
  <2>3. Contiguous(m) /\ m \subseteq l
    BY <1>1, <1>2, <1>5, <2>2, ConnectiveBitsShape
  <2>4. Cardinality(m) = n
    BY <1>1, <1>2, <1>5, <2>1, <2>2, RunLength
  <2> QED BY <2>2, <2>3, <2>4 DEF Fits, m, l
<1>7. CASE Type(w) = "guarantee"
  BY <1>3, <1>4, <1>7
<1>8. CASE Type(w) = "besteffort"
  <2>1. LongestRun(free) \in Nat
    <3> HIDE DEF free
    <3> QED BY <1>2, LongestRunExists, NWaysAssumption
  <2>2. m = BesteffortCandidate(w, free, s) /\ m # {} /\ Type(w) = "besteffort"
    BY <1>4, <1>8
  <2> HIDE DEF m, free
  <2>3. CASE LongestRun(free) >= lo
    <3> DEFINE n == IF LongestRun(free) > hi THEN hi ELSE LongestRun(free)
    <3>1. n \in lo .. hi
      BY <1>3, <2>1, <2>3
    <3>2. m = GetConnectiveBits(free, n)
      BY <1>3, <2>2, <2>3 DEF BesteffortCandidate
    <3> QED BY <3>1, <3>2
  <2>4. CASE ~(LongestRun(free) >= lo)
    <3>1. m = GetConnectiveBitsFromLow(l, lo)
      BY <1>3, <2>2, <2>4 DEF BesteffortCandidate, shrinkBEPool
    <3>2. lo \in lo .. hi
      BY <1>3
    <3> QED BY <3>1, <3>2
  <2> QED BY <2>3, <2>4
<1> QED BY <1>7, <1>8

(* A run of n ways is found exactly when the longest run is as long.       *)
LEMMA RunFound ==
  ASSUME NEW bits \in SUBSET Ways, NEW n \in Nat \ {0}
  PROVE  /\ n <= LongestRun(bits) => Cardinality(GetConnectiveBits(bits, n)) = n
         /\ n > LongestRun(bits) => Cardinality(GetConnectiveBits(bits, n)) = 0
<1> USE NWaysAssumption
<1> DEFINE m == LongestRun(bits)
<1>1. /\ m \in 0 .. NWays /\ (m = 0 \/ RunStarts(bits, m) # {})
      /\ RunStarts(bits, m + 1) = {}
  BY LongestRunExists
<1> HIDE DEF m
<1>2. CASE n <= m
  <2>1. PICK i \in RunStarts(bits, m) : TRUE
    BY <1>1, <1>2
  <2>2. i \in Ways /\ i .. (i + m - 1) \subseteq bits
    BY DEF RunStarts
  <2>3. i .. (i + n - 1) \subseteq i .. (i + m - 1)
    BY <1>1, <1>2, <2>2 DEF Ways
  <2>4. i \in RunStarts(bits, n)
    BY <2>2, <2>3 DEF RunStarts
  <2> DEFINE T == {k \in Nat : NWays - 1 - k \in RunStarts(bits, n)}
  <2>5. NWays - 1 - i \in T
    BY <2>2, <2>4 DEF Ways
  <2>6. PICK k \in T : \A j \in T : k <= j
    <3> HIDE DEF T
    <3>1. T \in SUBSET Nat
      BY DEF T
    <3> QED BY <2>5, <3>1, FirstPosition
  <2>7. PICK x \in RunStarts(bits, n) : x = NWays - 1 - k /\ k \in Nat
    BY <2>6
  <2>8. \A j \in RunStarts(bits, n) : j <= x
    <3> SUFFICES ASSUME NEW j \in RunStarts(bits, n) PROVE j <= x
      OBVIOUS
    <3>1. j \in Ways
      BY DEF RunStarts
    <3>2. NWays - 1 - j \in Nat /\ NWays - 1 - (NWays - 1 - j) = j
      BY <3>1 DEF Ways
    <3>3. k <= NWays - 1 - j
      BY <2>6, <3>2
    <3> HIDE DEF T
    <3> QED BY <2>7, <3>1, <3>3 DEF Ways
  <2>9. x \in Ways /\ x .. (x + n - 1) \subseteq bits
    BY <2>7 DEF RunStarts
  <2>10. x \in x .. (x + n - 1)
    BY <2>9 DEF Ways
  <2>11. x \in GetConnectiveBits(bits, n)
    BY <2>7, <2>8, <2>9, <2>10 DEF GetConnectiveBits
  <2> HIDE DEF T
  <2>12. Cardinality(GetConnectiveBits(bits, n)) = n
    BY <2>11, RunLength
  <2> QED BY <1>1, <1>2, <2>12 DEF m
<1>3. CASE n > m
  <2>1. ASSUME NEW i \in RunStarts(bits, n) PROVE FALSE
    <3>1. i \in Ways /\ i .. (i + n - 1) \subseteq bits
      BY <2>1 DEF RunStarts
    <3>2. i .. (i + (m + 1) - 1) \subseteq i .. (i + n - 1)
      BY <1>1, <1>3, <3>1 DEF Ways
    <3>3. i \in RunStarts(bits, m + 1)
      BY <3>1, <3>2 DEF RunStarts
    <3> QED BY <1>1, <3>3
  <2>2. GetConnectiveBits(bits, n) = {}
    BY <2>1 DEF GetConnectiveBits
  <2> QED BY <1>1, <1>3, <2>2, FS_EmptySet DEF m
<1> QED BY <1>1, <1>2, <1>3 DEF m

(* Whole percentages.                                                      *)
LEMMA Percentages ==
  ASSUME NEW n \in Nat \ {0}, NEW a \in Nat
  PROVE  /\ (a * 100) \div n \in Nat
         /\ a <= n => (a * 100) \div n <= 100
         /\ a >= n => (a * 100) \div n >= 100
OBVIOUS
=============================================================================
