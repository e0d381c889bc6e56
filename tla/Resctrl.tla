------------------------------ MODULE Resctrl ------------------------------
(***************************************************************************)
(* The platform as resctrl shows it: the cache mask and the memory         *)
(* bandwidth of every group, and the group of every task and core.  The    *)
(* root process changes it through package pqos (AllocateCLOS,             *)
(* DeallocateTasks, DeallocateCores, ResetCOSParamsToDefaults); the user   *)
(* process reads it with GetResAssociation and recomputes the OS group     *)
(* with SetOSGroup, and at its start the infra group with SetInfraGroup.   *)
(*                                                                         *)
(* A platform h is [mask, group, mb, mode]: mask[g][s] is the set of ways  *)
(* of group g on cache s, mb[g][s] its memory bandwidth there, group[m]    *)
(* the group of task or core m, and mode the unit of bandwidths, with      *)
(* which resctrl is mounted.  Group 0 is COS0, the OS group, and group 1   *)
(* is COS1, the infra group, whose tasks and CPUs are none of those that   *)
(* workloads name.                                                         *)
(* libpqos creates one directory per CLOS when it is initialised, so the   *)
(* groups are COS0 .. COS(NumClos-1) at all times.                         *)
(***************************************************************************)
EXTENDS Workload, CacheWays

CONSTANTS Affinity,  \* the caches on which a task or core runs
          MbaMax     \* the bandwidth that is no limit, in either mode

ASSUME AffinityAssumption == Affinity \in [Members -> SUBSET Sockets]
ASSUME MbaMaxAssumption == MbaMax \in Nat \ {0}

VARIABLES rdt,   \* the platform
          alive  \* the tasks that have a directory under /proc

Group == 0 .. (NumClos - 1)

Mask == [Sockets -> SUBSET Ways]

Bandwidth == [Sockets -> 1 .. MbaMax]

Platform == [mask : [Group -> Mask], group : [Members -> Group],
             mb : [Group -> Bandwidth], mode : MbaMode]

DefaultMask == [s \in Sockets |-> CbmMask]

DefaultBandwidth == [s \in Sockets |-> MbaMax]

(* GetResAssociation(pqos.GetAvailableCLOSes()): the directories of        *)
(* available CLOSes are skipped.                                           *)
Visible(p) == Group \ Available(p)

MembersOf(h, g) == {m \in Members : h.group[m] = g}

(* Mutant of GetAvailableCacheSchemata: a group without members is taken   *)
(* to be free.                                                             *)
SchemataOfOccupied(h, p, bits, s) ==
  {w \in bits : \A g \in Visible(p) \ {0, 1} :
                   \/ h.mask[g][s] = CbmMask \/ w \notin h.mask[g][s]
                   \/ MembersOf(h, g) = {}}

(* GetAvailableCacheSchemata with ignore list COS1 and ".": the ways of    *)
(* bits on cache s that no visible group has; a group whose mask is the    *)
(* default is taken to have none.  (Its test for too many groups cannot    *)
(* succeed: SetOSGroup would already have failed at boot.)                 *)
GetAvailableCacheSchemata(h, p, bits, s) ==
  {w \in bits : \A g \in Visible(p) \ {0, 1} :
                   h.mask[g][s] = CbmMask \/ w \notin h.mask[g][s]}

(* Mutant of SetOSGroup: all ways that the OS group has count as free, not *)
(* only its own.                                                           *)
SetOSGroupKept(h, p) ==
  [h EXCEPT !.mask[0] =
     [s \in Sockets |->
        LowestRun(GetAvailableCacheSchemata(h, p, CbmMask, s) \cup h.mask[0][s])]]

(* SetOSGroup: on every cache the OS group gets the run of free ways that  *)
(* starts at way 0, its own OSWays counted as free.                        *)
SetOSGroup(h, p) ==
  [h EXCEPT !.mask[0] =
     [s \in Sockets |->
        LowestRun(GetAvailableCacheSchemata(h, p, CbmMask, s)
                  \cup 0 .. (OSWays - 1))]]

(* SetInfraGroup gives COS1 its ways, if there is an infra group.          *)
SetInfraGroup(h) ==
  IF InfraWays = 0 THEN h
  ELSE [h EXCEPT !.mask[1] = [s \in Sockets |-> InfraMask(s)]]

(* What is committed to a group: its mask, its members, and bandwidths if  *)
(* the workload asks for one (MbaSchemata, with the sockets on which it is *)
(* really set).  GetResAssociation never fills MbaSchemata.                *)
ResAssociation(mask, tasks, cores) ==
  [mask |-> mask, tasks |-> tasks, cores |-> cores, useMba |-> FALSE, mb |-> <<>>]

(* pqos_wrapper_assoc_pid associates the tasks in the order of the list    *)
(* and stops at the first that does not exist; got are the ones before it. *)
Associated(tasks, living, got) == IF tasks \subseteq living THEN tasks
                                  ELSE tasks \cap got \cap living

(* SetMbaForSingleCos sets socket after socket and stops at the first      *)
(* value that libpqos refuses: the sets of sockets that may be reached.    *)
Reached(values) ==
  LET good == {s \in Sockets : values[s] \in 1 .. MbaMax}
  IN  IF good = Sockets THEN {Sockets} ELSE SUBSET good

(* Bandwidths are set last.  In Mbps mode a group without them is reset.   *)
SetMba(h, g, res) ==
  [s \in Sockets |-> IF res.useMba
                      THEN IF s \in DOMAIN res.mb THEN res.mb[s] ELSE h.mb[g][s]
                      ELSE IF h.mode = "mbps" THEN MbaMax ELSE h.mb[g][s]]

(* Mutant of AllocateCLOS: only tasks are associated.                      *)
AllocateTasksOnly(h, g, res, living, got) ==
  [h EXCEPT !.mask[g] = res.mask,
            !.group = [m \in Members |-> IF m \in Associated(res.tasks, living, got)
                                         THEN g ELSE @[m]]]

(* AllocateCLOS(res, g), what Commit does in the root process.  Masks are  *)
(* set for socket i from the i-th entry of the schemata, whatever cache id *)
(* the entry carries.  With tasks in res the cores are not associated, and *)
(* when one of the tasks does not exist the bandwidths are not set.        *)
AllocateCLOS(h, g, res, living, got) ==
  LET moved == IF res.tasks # {} THEN Associated(res.tasks, living, got) ELSE res.cores
  IN  [h EXCEPT !.mask[g] = res.mask,
                !.group   = [m \in Members |-> IF m \in moved THEN g ELSE @[m]],
                !.mb[g]   = IF res.tasks \subseteq living THEN SetMba(h, g, res) ELSE @]

(* DeallocateTasks and DeallocateCores: back to COS0; an error when a task *)
(* does not exist, after the ones before it have been moved.               *)
DeallocateTasks(h, tasks, got) ==
  [ok  |-> tasks \subseteq alive,
   rdt |-> [h EXCEPT !.group =
              [m \in Members |-> IF m \in Associated(tasks, alive, got) THEN 0
                                 ELSE h.group[m]]]]

DeallocateCores(h, cores) ==
  [h EXCEPT !.group = [m \in Members |-> IF m \in cores THEN 0 ELSE h.group[m]]]

(* Mutant of ResetCOSParamsToDefaults: the bandwidths stay.                *)
ResetCacheOnly(h, g) == [h EXCEPT !.mask[g] = DefaultMask]

(* Mutant of ResetCOSParamsToDefaults: the masks stay.                    *)
ResetMbaOnly(h, g) == [h EXCEPT !.mb[g] = DefaultBandwidth]

ResetCOSParamsToDefaults(h, g) ==
  [h EXCEPT !.mask[g] = DefaultMask, !.mb[g] = DefaultBandwidth]

(* Before the first start of RMD, and after ResetAPI: default masks and    *)
(* bandwidths, everything in COS0.                                         *)
FreshPlatform(mode) == [mask  |-> [g \in Group |-> DefaultMask],
                        group |-> [m \in Members |-> 0],
                        mb    |-> [g \in Group |-> DefaultBandwidth],
                        mode  |-> mode]

(* Tasks end: the kernel removes them from their groups.                   *)
WithoutTasks(h, gone) ==
  [h EXCEPT !.group = [m \in Members |-> IF m \in gone THEN 0 ELSE @[m]]]

TaskExit(t) == /\ t \in alive
               /\ alive' = alive \ {t}
               /\ rdt' = WithoutTasks(rdt, {t})
=============================================================================
