---------------------------- MODULE Enforcement ----------------------------
(***************************************************************************)
(* Validation, Enforce and Release of modules/workload/workload.go.        *)
(* Enforce and Release hold the package mutex l from beginning to end, and *)
(* but for mbaValue what they read and write is written by no one without  *)
(* l, so each is one step: an operator from a workload to an outcome.      *)
(*                                                                         *)
(* What decides an outcome and is not in the state is a choice c:          *)
(*   order   newResAss appends one schemata entry per cache in the order   *)
(*           in which Go iterates over a map, which is unspecified, and    *)
(*           AllocateCLOS gives the i-th entry to socket i                 *)
(*   living  the tasks that exist when they are associated                 *)
(*   got     the tasks before the first nonexistent one in the task list   *)
(*   plugin  whether the calls into the loadable plugins succeed           *)
(*   seen    the value of mbaValue when the entry of a socket is made      *)
(*   set     the sockets on which a bandwidth is really set                *)
(***************************************************************************)
EXTENDS Resctrl, WorkloadDB

VARIABLES pool,     \* the CLOS pool of package pqos
          db,       \* the workload database
          mbaValue  \* the global variable of package workload

Orders == {f \in [Sockets -> Sockets] :
             \A s \in Sockets : \E t \in Sockets : f[t] = s}

Prefixes(tasks, living) == IF tasks \subseteq living THEN {{}}
                           ELSE SUBSET (tasks \cap living)

PluginResults(w) == IF w.plug THEN BOOLEAN ELSE {TRUE}

HasMembers(w) == /\ w.tasks # {} \/ w.cores # {}
                 /\ w.tasks \subseteq alive

(* A bandwidth in the unit with which resctrl is not mounted.              *)
OtherMode(w) == \E unit \in MbaMode \ {rdt.mode} : w.mba[unit] # Nil

(* validate before it assigns mbaValue: the request has members, its tasks *)
(* exist, it names no policy, and the cache values come together.          *)
ReachesMba(w) == /\ HasMembers(w)
                 /\ w.policy = NoPolicy
                 /\ CacheTogether(w)
                 /\ ~OtherMode(w)

(* Mutant of ValidMba: the value is not compared with the limits.          *)
AnyMba(w, value) == w.mba # NoMba => w.max # Nil

(* The bandwidth of a request, as far as value, read from mbaValue, tells: *)
(* it comes with cache, of guaranteed type if it is a limit at all.        *)
ValidMba(w, value) ==
  w.mba # NoMba =>
    /\ value \in 1 .. MbaMax
    /\ w.max # Nil
    /\ w.max # w.min \/ w.max = 0 => value = MbaMax

(* validate, on a machine that supports both cache allocation and MBA.  Of *)
(* a workload with a policy nothing is looked at but its members: what the *)
(* policy does not overwrite, its bandwidth for one, stays as it was sent. *)
validate(w, value) ==
  \/ /\ ReachesMba(w)
     /\ ValidMba(w, value)
     /\ w.max # Nil \/ w.plug
  \/ /\ HasMembers(w)
     /\ w.policy # NoPolicy
     /\ CanFill(w)

Validate(w, value) == validate(w, value) /\ ValidateWorkload(db, w)

-----------------------------------------------------------------------------
(* getSocketIDs: the caches on which the members run; a task that has gone *)
(* is taken to run anywhere.  The bitmap of 400 CPUs that stands for that  *)
(* has more words than the one to which it is added, which is a panic      *)
(* unless an existing task before it has widened the sum.                  *)
getSocketIDs(w) ==
  UNION {IF m \in Tasks \ alive THEN Sockets ELSE Affinity[m] :
           m \in w.tasks \cup w.cores}

PanicsInGetSocketIDs(w, c) == ~(w.tasks \subseteq alive) /\ c.got = {}

inCacheList(s, socketList) == socketList = {} \/ s \in socketList

(* populateEnforceRequest: a value that is missing, from the workload or   *)
(* from its policy, is zero, and cache is used only when both are there.   *)
MinWays(w) == IF CacheOf(w).min = Nil THEN 0 ELSE CacheOf(w).min
MaxWays(w) == IF CacheOf(w).max = Nil THEN 0 ELSE CacheOf(w).max
UseCache(w) == CacheOf(w).max # Nil /\ CacheOf(w).min # Nil
Type(w) == GetCachePoolName(MaxWays(w), MinWays(w))

(* shrinkBEPool looks for groups named "...-besteffort".  Groups are named *)
(* COSn, so no group is found, none is shrunk, and the lowest run of the   *)
(* whole pool is the candidate.                                            *)
shrinkBEPool(s, reqways) ==
  GetConnectiveBitsFromLow(GetCachePoolLayout("besteffort", s), reqways)

(* Mutant of BesteffortCandidate: no upper limit.                          *)
CandidateUnlimited(w, free, s) ==
  IF LongestRun(free) >= MinWays(w) THEN GetConnectiveBits(free, LongestRun(free)) ELSE {}

(* The two ways in which a best-effort request is served.                  *)
BesteffortCandidate(w, free, s) ==
  LET longest == LongestRun(free)
  IN  IF longest >= MinWays(w)
      THEN GetConnectiveBits(free, IF longest > MaxWays(w) THEN MaxWays(w)
                                   ELSE longest)
      ELSE IF Shrink THEN shrinkBEPool(s, MinWays(w)) ELSE {}

(* enforceCache: the candidate mask per cache, {} where the cache left is  *)
(* not enough.                                                             *)
enforceCache(w) ==
  [s \in Sockets |->
     LET free == GetAvailableCacheSchemata(rdt, pool,
                                           GetCachePoolLayout(Type(w), s), s)
     IN  IF Type(w) = "shared" THEN GetCachePoolLayout("shared", s)
         ELSE IF ~inCacheList(s, getSocketIDs(w)) THEN CbmMask
         ELSE IF Type(w) = "guarantee" THEN GetConnectiveBits(free, MaxWays(w))
         ELSE BesteffortCandidate(w, free, s)]

(* populateEnforceRequest: bandwidth without cache, for guaranteed cache,  *)
(* or without being a limit.  Nobody looks at it if there is a policy.     *)
MbaAccepted(w) ==
  UsesMba(w) =>
    \/ w.max = Nil /\ w.min = Nil
    \/ UseCache(w) /\ ((w.max = w.min /\ w.max > 0) \/ mbaValue = MbaMax)

(* enforceMba: the limit on the sockets of the workload, none elsewhere.   *)
enforceMba(w, seen) ==
  [s \in Sockets |-> IF inCacheList(s, getSocketIDs(w)) THEN seen[s] ELSE MbaMax]

(* enforceRDT: reserve a CLOS, commit the group, recompute the OS group.   *)
(* A shared workload joins the shared group if there is one: the committed *)
(* association is then the group's own, with the new members added.  A     *)
(* bandwidth is refused to a shared workload once its CLOS is reserved.    *)
enforceRDT(w, c) ==
  LET r     == IF Type(w) = "shared" THEN GetSharedCLOS(pool)
               ELSE UseAvailableCLOS(pool)
      joins == Type(w) = "shared" /\ r.clos \in Visible(pool)
      old   == IF joins THEN MembersOf(rdt, r.clos) ELSE {}
      mask  == IF joins THEN rdt.mask[r.clos]
               ELSE [s \in Sockets |-> enforceCache(w)[c.order[s]]]
      res   == [ResAssociation(mask, w.tasks \cup (old \cap Tasks),
                               w.cores \cup (old \cap Cores))
                  EXCEPT !.useMba = UsesMba(w),
                         !.mb = [s \in c.set |-> enforceMba(w, c.seen)[s]]]
      h     == AllocateCLOS(rdt, r.clos, res, c.living, c.got)
  IN  IF ~r.ok
      THEN [status |-> "failed", w |-> w, pool |-> pool, rdt |-> rdt]
      ELSE IF UsesMba(w) /\ Type(w) = "shared"
      THEN [status |-> "failed", w |-> w, pool |-> r.pool, rdt |-> rdt]
      ELSE [status |-> "ok", w |-> [w EXCEPT !.cos = r.clos], pool |-> r.pool,
            rdt |-> SetOSGroup(h, r.pool)]

NoChange(w, status) == [status |-> status, w |-> w, pool |-> pool, rdt |-> rdt]

(* Mutant of Enforce: nobody looks whether there are ways left.            *)
EnforceUnchecked(w, c) ==
  IF MinWays(w) > MaxWays(w)
  THEN NoChange(w, "failed")
  ELSE IF ~UseCache(w)
  THEN NoChange(w, IF c.plugin THEN "ok" ELSE "failed")
  ELSE IF Type(w) = "unsupported" \/ ~Configured(Type(w))
  THEN NoChange(w, "bad")
  ELSE enforceRDT(w, c)

(* Bandwidth without cache, which only a PATCH can ask for: AllocateCLOS   *)
(* indexes the masks of the cache, of which there are none, and the root   *)
(* process ends.                                                           *)
EndsRoot(w, c) == /\ ~PanicsInGetSocketIDs(w, c)
                  /\ UsesMba(w) /\ w.max = Nil /\ w.min = Nil
                  /\ pool.avail # <<>>

(* Enforce: "bad" is the error that makes the POST handler answer 400,     *)
(* "failed" any other error, a panic (which net/http recovers from, the    *)
(* mutex being unlocked by a deferred call) included.  A plugin that fails *)
(* leaves everything that was done before it as it is.                     *)
Enforce(w, c) ==
  LET r == IF UseCache(w) THEN enforceRDT(w, c) ELSE NoChange(w, "ok")
  IN  IF \/ PanicsInGetSocketIDs(w, c)
         \/ ~MbaAccepted(w)
         \/ MinWays(w) > MaxWays(w)
         \/ ~UseCache(w) /\ UsesMba(w)    \* no CLOS is left
         \/ w.policy \notin DOMAIN Policies \cup {NoPolicy}
      THEN NoChange(w, "failed")
      ELSE IF UseCache(w) /\ Type(w) = "unsupported"
      THEN NoChange(w, "bad")
      ELSE IF UseCache(w) /\ ~Configured(Type(w))
      THEN NoChange(w, "failed")
      ELSE IF UseCache(w) /\ \E s \in Sockets : enforceCache(w)[s] = {}
      THEN NoChange(w, "bad")
      ELSE IF r.status = "ok" /\ ~c.plugin
      THEN [r EXCEPT !.status = "failed"]
      ELSE r

-----------------------------------------------------------------------------
(* The end of Release: the class gets its default mask back and its name   *)
(* goes back to the pool.                                                  *)
FreeClos(w, h) ==
  LET p == ReturnClos(pool, w.cos)
  IN  [ok |-> TRUE, pool |-> p,
       rdt |-> SetOSGroup(ResetCOSParamsToDefaults(h, w.cos), p)]

(* Mutant of ReleaseClos: the shared class is treated like any other.      *)
ReleaseAnyClos(w, h) == FreeClos(w, h)

(* Release, once the tasks and cores are back in COS0.  The shared class   *)
(* is kept while it has other members.                                     *)
ReleaseClos(w, h) ==
  IF IsSharedCLOS(pool, w.cos) /\ w.cos \notin Visible(pool)
  THEN [ok |-> TRUE, pool |-> ReturnClos(pool, w.cos), rdt |-> h]
  ELSE IF IsSharedCLOS(pool, w.cos) /\ MembersOf(h, w.cos) # {}
  THEN [ok |-> TRUE, pool |-> pool, rdt |-> SetOSGroup(h, pool)]
  ELSE FreeClos(w, h)

(* Mutant of Release: the cores are not moved back to COS0.                *)
ReleaseKeepsCores(w, got, plugin) ==
  LET d == DeallocateTasks(rdt, w.tasks, got)
  IN  IF ~plugin THEN [ok |-> FALSE, pool |-> pool, rdt |-> rdt]
      ELSE IF w.cos = NoClos \/ ~d.ok THEN [ok |-> TRUE, pool |-> pool, rdt |-> d.rdt]
      ELSE ReleaseClos(w, d.rdt)

(* Release: not ok when a plugin refuses, before anything is undone.  When *)
(* a task does not exist any more the rest is skipped and the result is    *)
(* still ok: the class stays in the used list.                             *)
Release(w, got, plugin) ==
  LET d == DeallocateTasks(rdt, w.tasks, got)
  IN  IF ~plugin
      THEN [ok |-> FALSE, pool |-> pool, rdt |-> rdt]
      ELSE IF w.cos = NoClos
      THEN [ok |-> TRUE, pool |-> pool, rdt |-> rdt]
      ELSE IF ~d.ok
      THEN [ok |-> TRUE, pool |-> pool, rdt |-> d.rdt]
      ELSE ReleaseClos(w, DeallocateCores(d.rdt, w.cores))
=============================================================================
