------------------------ MODULE WorkloadProperties ------------------------
(***************************************************************************)
(* What the workload manager promises.                                     *)
(***************************************************************************)
EXTENDS WorkloadManager, CacheInfo

(* The types of the state.                                                 *)
TypeOK ==
  /\ pool \in Pool
  /\ rdt \in Platform
  /\ alive \subseteq Tasks
  /\ db \in Database
  /\ mbaValue \in Nat
  /\ thread \in [Threads -> Thread]
  /\ phase \in {"down", "init", "mark", "up"}
  /\ boot \in Snapshot
  /\ requests \in 0 .. MaxRequests
  /\ crashes \in 0 .. MaxCrashes
  /\ resets \in 0 .. MaxResets

-----------------------------------------------------------------------------
(* Rows about which a promise is made: RMD is up, no DELETE or PATCH is    *)
(* half way through with them, and some of their tasks live.               *)

HalfWay(id) == \E t \in Threads : /\ thread[t].pc \in {"delete", "reenforce", "store"}
                                  /\ thread[t].w.id = id

Settled == {i \in RowIds(db) :
              /\ phase = "up"
              /\ ~HalfWay(i)
              /\ db.rows[i].tasks = {} \/ db.rows[i].tasks \cap alive # {}}

SettledWithClos == {i \in Settled : db.rows[i].cos # NoClos}

Exclusive(w) == Type(w) \in {"guarantee", "besteffort"}

LiveMembers(w) == (w.tasks \cap alive) \cup w.cores

LiveSockets(w) == UNION {Affinity[m] : m \in LiveMembers(w)}

(* While a stored workload runs, its class of service is reserved: it is   *)
(* in usedCLOSes, and UseAvailableCLOS cannot hand it out again.  (The     *)
(* pool and the database are kept in step only by the order in which the   *)
(* handlers call Enforce, Create, Release and Delete.)                     *)
RowClosHeld ==
  \A i \in SettledWithClos : db.rows[i].cos \in Used(pool) \ Available(pool)

(* README: "Workloads allocating cache ways from this group have their     *)
(* guaranteed amount of desired cache ways", as one run of ways of the     *)
(* guarantee pool, on every cache on which the workload runs, and neither  *)
(* the OS group nor another workload's class overlaps with it there.       *)
(* (The infra group, which may share ways with every pool, does.)          *)
GuaranteeHonoured ==
  \A i \in SettledWithClos : Type(db.rows[i]) = "guarantee" =>
     \A s \in LiveSockets(db.rows[i]) :
        LET mine == rdt.mask[db.rows[i].cos][s]
        IN  /\ Cardinality(mine) = MaxWays(db.rows[i])
            /\ Contiguous(mine)
            /\ mine \subseteq GetCachePoolLayout("guarantee", s)
            /\ mine \cap rdt.mask[0][s] = {}
            /\ \A j \in SettledWithClos \ {i} :
                  s \in LiveSockets(db.rows[j]) =>
                     mine \cap rdt.mask[db.rows[j].cos][s] = {}

(* README, best effort group: "their minimal amount of desired cache ways  *)
(* guaranteed but can burst to their maximum amount".                      *)
BesteffortHonoured ==
  \A i \in SettledWithClos : Type(db.rows[i]) = "besteffort" =>
     \A s \in LiveSockets(db.rows[i]) :
        LET mine == rdt.mask[db.rows[i].cos][s]
        IN  /\ Cardinality(mine) \in MinWays(db.rows[i]) .. MaxWays(db.rows[i])
            /\ Contiguous(mine)
            /\ mine \subseteq GetCachePoolLayout("besteffort", s)

(* The members of a stored workload really are in its class: its tasks,    *)
(* or its cores if it has no tasks.  (Those of a shared workload only if   *)
(* no task has ended: one that ends while another workload joins the       *)
(* shared group keeps the new members out of it.)                          *)
MembersPlaced ==
  \A i \in SettledWithClos :
     LET w == db.rows[i]
     IN  w.tasks \subseteq alive /\ (Exclusive(w) \/ alive = Tasks) =>
           IF w.tasks # {} THEN \A m \in w.tasks : rdt.group[m] = w.cos
           ELSE \A m \in w.cores : rdt.group[m] = w.cos

(* README: cache ways of guaranteed and best-effort workloads "are         *)
(* dedicated to their associated workloads": no member of another workload *)
(* and no leftover is in their class.                                      *)
ExclusiveMembers ==
  \A i \in SettledWithClos :
     Exclusive(db.rows[i]) =>
        MembersOf(rdt, db.rows[i].cos) \subseteq MembersNamed(db.rows[i])

(* pqos.go: "Shared COS (shared group) is one for all workloads with       *)
(* "shared" type", from the first that needs it to the last that leaves.   *)
(* (A task that ends while a workload joins leaves its members outside,    *)
(* and the class is returned before the last has left.)                    *)
SharedTogether ==
  \A i, j \in SettledWithClos :
     /\ Type(db.rows[i]) = "shared" /\ Type(db.rows[j]) = "shared"
     /\ alive = Tasks
     => db.rows[i].cos = db.rows[j].cos

(* Two classes that are not available for reservation and have a mask of   *)
(* their own do not share a way outside the shared pool.  This is what     *)
(* "dedicated" needs from the platform, whatever the database says.        *)
WaysExclusive ==
  phase = "up" =>
    \A g, h \in Visible(pool) \ {0, 1} : \A s \in Sockets :
       \/ g = h
       \/ rdt.mask[g][s] = CbmMask \/ rdt.mask[h][s] = CbmMask
       \/ rdt.mask[g][s] \cup rdt.mask[h][s] \subseteq GetCachePoolLayout("shared", s)
       \/ rdt.mask[g][s] \cap rdt.mask[h][s] = {}

(* UserGuide, workload parameters: the memory bandwidth that a stored      *)
(* workload asks for is the one that its class has, on the caches on which *)
(* it runs.  Enforce takes the value not from the workload but from the    *)
(* global variable mbaValue.  (A bandwidth beside a policy is stored as it *)
(* was sent, but is never set.)                                            *)
MbaHonoured ==
  \A i \in SettledWithClos :
     LET w == db.rows[i]
     IN  UsesMba(w) /\ w.tasks \subseteq alive =>
           \A s \in LiveSockets(w) : rdt.mb[w.cos][s] = w.mba[rdt.mode]

(* Nobody is throttled who has not asked for it: a class that limits       *)
(* bandwidth is not the OS group's, waits for no other workload, and       *)
(* belongs to workloads that ask for the limit, on caches where they run.  *)
(* (A row whose class has been released no longer has it.)                 *)
ThrottleConfined ==
  phase = "up" =>
    \A g \in Group, s \in Sockets : rdt.mb[g][s] # MbaMax =>
       /\ g \notin Available(pool) \cup {0, 1}
       /\ \A i \in RowIds(db) : db.rows[i].cos = g /\ ~HalfWay(i) =>
             UsesMba(db.rows[i]) /\ s \in getSocketIDs(db.rows[i])

(* UserGuide, --force-config: RMD serves only workloads whose bandwidth,   *)
(* if it counts, is in the unit with which resctrl is mounted.  (Nobody    *)
(* looks at the unit of a bandwidth that is posted beside a policy.  It    *)
(* counts once a PATCH of other parameters has ended the policy.)          *)
ModeConsistent ==
  phase = "up" => \A i \in RowIds(db) :
     db.rows[i].policy = NoPolicy => ~OtherMode(db.rows[i])

(* The mask of a class is the default, or one run of ways inside one pool: *)
(* libpqos and the kernel refuse a mask with holes.                        *)
MaskShape ==
  \A g \in PoolClos, s \in Sockets :
     LET m == rdt.mask[g][s]
     IN  m = CbmMask \/ /\ m # {} /\ Contiguous(m)
                        /\ \E name \in PoolName : m \subseteq GetCachePoolLayout(name, s)

(* README: the OS group "does not share/overlap with cache ways in other   *)
(* groups".                                                                *)
OSDisjoint ==
  phase = "up" =>
    \A g \in Visible(pool) \ {0, 1}, s \in Sockets :
       rdt.mask[g][s] = CbmMask \/ rdt.mask[g][s] \cap rdt.mask[0][s] = {}

(* workload.Init never meets a stored workload whose CLOS it cannot        *)
(* reserve, which would end the process at every start from then on.       *)
RestartSucceeds ==
  phase = "mark" => \A i \in Ids :
     First(boot, i) /\ boot[i].cos # NoClos => boot[i].cos \in Available(pool)

(* README, /hospitality: "how well a host can do to fulfill a certain      *)
(* cache allocation requirement".  The score of a request for exclusive    *)
(* cache is never more than the share of its maximum that Enforce would    *)
(* give it now, on any cache on which it would run, although the score is  *)
(* computed from other groups than Enforce looks at.  It is exactly that   *)
(* share where the infra group, which only the score takes for occupied,   *)
(* has none of the ways of the pool.                                       *)
ExclusiveRequests == {r \in Requests : UseCache(r) /\ Exclusive(r)}

ExclusivePolicies ==
  {[max |-> MaxWays(r), min |-> MinWays(r)] : r \in ExclusiveRequests}

InfraApart(name, s) == \/ rdt.mask[1][s] = CbmMask
                       \/ rdt.mask[1][s] \cap GetCachePoolLayout(name, s) = {}

ScoreTruthful ==
  phase = "up" => \A r \in ExclusiveRequests : \A s \in getSocketIDs(r) :
     LET score == Score(MaxWays(r), MinWays(r), s)
         given == (Cardinality(enforceCache(r)[s]) * 100) \div MaxWays(r)
     IN  /\ score <= given
         /\ InfraApart(Type(r), s) => score = given

(* GET /cache, available_policy: as many workloads of a policy fit into    *)
(* the ways that are left as Enforce could serve one after the other, and  *)
(* of a best-effort policy, which may take more than it needs, at least as *)
(* many.  Where the infra group has ways of the pool, fewer are shown, but *)
(* none that Enforce would refuse.  (Whether there are classes for them is *)
(* not counted.)                                                           *)
Served(p, s, bits) ==
  LET w           == [policy |-> NoPolicy, max |-> p.max, min |-> p.min]
      given(free) == IF Type(w) = "guarantee" THEN GetConnectiveBits(free, p.max)
                     ELSE BesteffortCandidate(w, free, s)
      n[free \in SUBSET bits] ==
        IF given(free) = {} THEN 0 ELSE 1 + n[free \ given(free)]
  IN  n[bits]

CountTruthful ==
  phase = "up" => \A s \in Sockets :
     LET shown == GetByLevel(s, ExclusivePolicies).AvailablePolicy
     IN  \A p \in ExclusivePolicies :
           LET name   == GetCachePoolName(p.max, p.min)
               served == Served(p, s, GetAvailableCacheSchemata(
                                        rdt, pool, GetCachePoolLayout(name, s), s))
           IN  /\ shown[p] > 0 => served > 0
               /\ name = "guarantee" => shown[p] <= served
               /\ InfraApart(name, s) => shown[p] >= served

-----------------------------------------------------------------------------
(* A stored workload of which a task still runs leaves the database only   *)
(* because its client deletes or its POST fails; the validator never       *)
(* removes it.                                                             *)
ValidatorSparesLive ==
  [][\A i \in Ids :
       /\ \E t \in Threads : thread[t].pc = "scan"
       /\ db.rows[i] # NoRow /\ db'.rows[i] = NoRow
       /\ db.rows[i].tasks \cap alive # {}
       => \E t \in Threads : thread[t].pc \in {"delete", "undo"} /\ thread[t].w.id = i]_vars

(* Every request is answered, in spite of the validator and other requests *)
(* that hold the mutex.                                                    *)
EveryRequestAnswered ==
  \A t \in Threads \ {Validator} : thread[t].pc # "idle" ~> thread[t].pc = "idle"

(* ConfigurationGuide, dbValidatorInterval: a workload all of whose tasks  *)
(* have ended does not stay in the database.                               *)
DeadRow(i) == /\ db.rows[i] # NoRow /\ db.rows[i].tasks # {}
              /\ db.rows[i].tasks \cap alive = {}

DeadRowsRemoved == \A i \in Ids : DeadRow(i) ~> ~DeadRow(i)

(* A process that has ended serves requests again.                         *)
ServesAgain == phase = "down" ~> phase = "up"
=============================================================================
