----------------------------- MODULE CacheWays -----------------------------
(***************************************************************************)
(* Last-level cache ways: how the configuration divides them into pools    *)
(* (modules/cache/cachepool.go, osgroup.go) and how runs of ways are found *)
(* in a bitmap (utils/bitmap/bitmap.go).  A capacity bitmask is the set of *)
(* the numbers of its one bits, bit 0 being the lowest.  The three         *)
(* bitmap functions that scan a binary string are stated by what they      *)
(* compute.  This module has no state.                                     *)
(***************************************************************************)
EXTENDS Integers

CONSTANTS NWays,      \* GetCosInfo().CbmMaskLen
          Sockets,    \* cache ids
          OSSockets,  \* cache ids with a CPU of the OS group's cpuset
          InfraSockets, \* cache ids with a CPU of the infra group's cpuset
          OSWays, GuaranteeWays, BesteffortWays, SharedWays, \* rmd.toml
          InfraWays,  \* rmd.toml; 0 if there is no infra group
          Shrink      \* cachepool.shrink of rmd.toml

ASSUME NWaysAssumption == NWays \in Nat
ASSUME SocketsAssumption == OSSockets \subseteq Sockets /\ InfraSockets \subseteq Sockets
\* config.NewOSConfig defaults to one way; GetCachePoolLayout refuses more
\* ways than there are.
ASSUME LayoutAssumption ==
  /\ OSWays \in Nat \ {0}
  /\ GuaranteeWays \in Nat /\ BesteffortWays \in Nat /\ SharedWays \in Nat
  /\ OSWays + GuaranteeWays + BesteffortWays + SharedWays <= NWays
  /\ InfraWays \in 0 .. NWays
ASSUME ShrinkAssumption == Shrink \in BOOLEAN

Ways == 0 .. (NWays - 1)

\* GetCosInfo().CbmMask, the default of every class.
CbmMask == Ways

PoolName == {"guarantee", "besteffort", "shared"}

(* Mutant of getReservedCache: the ways of the OS are not left out.        *)
ReservedOverOS(ways, offset, s) == {w \in Ways : offset <= w /\ w < offset + ways}

(* getReservedCache: ways starting at the pool's offset, shifted past the  *)
(* OS ways on a cache that has an OS CPU.                                  *)
getReservedCache(ways, offset, s) ==
  LET base == offset + (IF s \in OSSockets THEN OSWays ELSE 0)
  IN  {w \in Ways : base <= w /\ w < base + ways}

GetCachePoolLayout(name, s) ==
  CASE name = "guarantee"  -> getReservedCache(GuaranteeWays, 0, s)
    [] name = "besteffort" -> getReservedCache(BesteffortWays, GuaranteeWays, s)
    [] name = "shared"     ->
         getReservedCache(SharedWays, GuaranteeWays + BesteffortWays, s)

(* A pool of zero ways has no entry in ReservedInfo.                       *)
Configured(name) ==
  CASE name = "guarantee"  -> GuaranteeWays > 0
    [] name = "besteffort" -> BesteffortWays > 0
    [] name = "shared"     -> SharedWays > 0

(* GetInfraGroupReserve: the highest ways on a cache that has an infra     *)
(* CPU, which the pools may have as well; all ways elsewhere.              *)
InfraMask(s) == IF s \in InfraSockets THEN {w \in Ways : NWays - InfraWays <= w}
                ELSE CbmMask

(* The pool a request for max and min ways is served from.                 *)
GetCachePoolName(max, min) ==
  CASE max = 0              -> "shared"
    [] max > min /\ min # 0 -> "besteffort"
    [] max = min /\ max # 0 -> "guarantee"
    [] OTHER                -> "unsupported"

-----------------------------------------------------------------------------
(* The lowest ways of the runs of n consecutive ways of bits.              *)
RunStarts(bits, n) == {i \in Ways : i .. (i + n - 1) \subseteq bits}

(* Mutant of GetConnectiveBits: one way short.                             *)
ConnectiveBitsShort(bits, n) ==
  {w \in bits : \E i \in RunStarts(bits, n) :
                   /\ \A j \in RunStarts(bits, n) : j <= i
                   /\ w \in i .. (i + n - 2)}

(* GetConnectiveBits(n, 0, false): the run of n ways nearest to the high   *)
(* end; empty if there is none.                                            *)
GetConnectiveBits(bits, n) ==
  {w \in bits : \E i \in RunStarts(bits, n) :
                   /\ \A j \in RunStarts(bits, n) : j <= i
                   /\ w \in i .. (i + n - 1)}

(* GetConnectiveBits(n, 0, true): the run of n ways nearest to bit 0.      *)
GetConnectiveBitsFromLow(bits, n) ==
  {w \in bits : \E i \in RunStarts(bits, n) :
                   /\ \A j \in RunStarts(bits, n) : i <= j
                   /\ w \in i .. (i + n - 1)}

(* The length of the longest run of ones among ToBinStrings().             *)
LongestRun(bits) ==
  CHOOSE n \in 0 .. NWays : /\ n = 0 \/ RunStarts(bits, n) # {}
                            /\ RunStarts(bits, n + 1) = {}

(* ToBinStrings()[0] when bit 0 is set: the run of ones that starts there. *)
LowestRun(bits) == {w \in bits : 0 .. w \subseteq bits}

Contiguous(bits) == \A i, j \in bits : i .. j \subseteq bits
=============================================================================
