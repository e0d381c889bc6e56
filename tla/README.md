# TLA+ specification of RMD

RMD (Resource Management Daemon) divides the last-level cache of a host between
*workloads*: sets of tasks or cores that a client registers over REST, or that
OpenStack Nova announces over AMQP. This directory holds a model of how RMD
keeps three records of the same facts in step: the list of free classes of
service in memory, the workload database on disk, and the resctrl groups of the
kernel; and of what surrounds this: the bitmaps in which ways and cores are
computed, the consumer of Nova's notifications, what is told to schedulers, and
the life of the two processes. Paths below are relative to the repository.

## 1. The system

| Component | State | Operations | Talks to |
|---|---|---|---|
| CLOS pool, `utils/pqos/pqos.go` | `availableCLOSes`, `usedCLOSes`, `sharedCLOS` | `InitCLOSPool`, `UseAvailableCLOS`, `ReturnClos`, `GetSharedCLOS`, `MarkCLOSasUsed` | called by the workload manager, without a lock of its own |
| Workload database, `internal/db` | bolt buckets `workload` and `mapping`, the id sequence | validate, create, delete, update, read by id or UUID; one transaction each | REST handlers, Nova consumer, validator, boot |
| Workload manager, `modules/workload/workload.go` | the mutex `l`, `mbaValue` | `Validate`, `Enforce`, `Release`, `update`, `Init`, `dbContentValidation` | pool, database, proxy |
| REST handlers, `modules/workload/workload_api.go` | none | POST, PATCH, DELETE, GET | workload manager |
| OpenStack, `internal/openstack` | the AMQP connection and durable queue, the Keystone token, the map of endpoints | create and delete notifications, one at a time, acknowledged when handled; query of a policy with one retry | workload manager, Keystone, Swift |
| Cache pools, OS and infra group, `modules/cache` | none after start (layout from `rmd.toml`) | `GetCachePoolLayout`, `GetAvailableCacheSchemata`, `SetOSGroup`, `SetInfraGroup` | resctrl, proxy |
| Bitmaps, `utils/bitmap` | none | parse, print, search for runs of ones | cache pools, workload manager |
| libpqos wrapper and resctrl reader, `utils/pqos`, `utils/resctrl` | the groups of the kernel: a mask per class and cache, a class per task and core | `AllocateCLOS`, `DeallocateTasks`, `DeallocateCores`, `ResetCOSParamsToDefaults`, `GetResAssociation` | the platform |
| Proxy, `internal/proxy` | a pair of pipes between the unprivileged and the root process | one RPC per platform change | workload manager, wrapper |
| Boot, `cmd/rmd`, `utils/pidfile`, `utils/bootcheck` | pid file, child process, its death signal, the lock of the database file, the port | `CreatePID`, `DropRunAs`, `SanityCheck`, `DBCheck`, `RunServer`, the forced change of the MBA mode | everything |
| Hospitality and cache information, `modules/hospitality`, `modules/cache/cache.go` | none | score of a request, free ways, policy counts | resctrl, without the mutex |
| Policies, `modules/policy` | a table from `policy.toml` | lookup by name | workload manager, cache information |
| ACL, PAM, TLS, plugins loader | tables and configuration | reads, except plugins | REST |

What is hard here:

* **Concurrency.** The HTTP server runs a goroutine per request, the Nova
  consumer another, the validator another. `l` protects `Enforce`, `Release` and
  the validator's scan, each by itself. Everything between them (validate, then
  enforce, then create; read, then release, then delete) is unprotected.
* **Crashes.** Pool and threads are lost, database and platform are kept, and
  `workload.Init` has to rebuild the first from the second.
* **Partial failure.** Tasks end while requests are about them, plugins refuse
  after the cache was given, the second half of a PATCH fails.
* **Limits.** A host has as few as four classes and a handful of ways.
* **Unspecified order.** Masks are listed in the iteration order of a Go map.
* **Shared globals.** The bandwidth of a request travels from `validate` to
  `Enforce` in a package variable that every request writes.
* **Unreliable surroundings.** Notifications that are delivered again, tokens that
  expire, services that do not answer, a broker that goes away; kills between any
  two steps of the start.
* **Boundaries.** Bitmaps of different lengths are combined word by word.

What makes it correct: the class of a stored workload is reserved and no other
workload gets it; the ways that README.md promises are there and are exclusive;
the members are in the class of their workload and nobody else is; a restart
restores all this; no class is lost; every request is answered; dead workloads
go away. `PROJECT.json` lists the hazards line by line, with the property that
covers each.

## 2. The modules

```
ClosPool --- Workload --+-- WorkloadDB ---------------------+---- NovaListener
   |                    |       |                           |          |
   |      CacheWays ----+-- Resctrl -- Enforcement -- WorkloadManager  |
   |          |                 |          |                |          |
   |          |                 |      CacheInfo --- WorkloadProperties|
   |          |                 |                           |          |
ClosPoolCalls |           WorkloadDBCalls               MCWorkload MCNovaListener
              |                 |
              |           MCWorkloadDB         Bitmap --- BitmapCalls --> BitSet
              |                                               |
              +-----------------------------------------------+
                                               Lifecycle --- MCLifecycle
```

(Lines are `EXTENDS`; the arrow is the refinement; BitmapCalls takes the run
functions of CacheWays with `INSTANCE`.) The proofs are in modules beside these:

```
PoolAndDBLemmas (WorkloadDB) --+-- PoolAndDBProofs (ClosPoolCalls, WorkloadDBCalls)
                               +-- NovaListenerProofs (NovaListener)
                               +-- EnforcementLemmas (Enforcement)
                                        |
                                   WorkloadManagerProofs (WorkloadProperties)
                                        |
                                   WorkloadPromises (WorkloadProperties)
BitmapProofs (BitmapCalls)         LifecycleProofs (Lifecycle)
```

(In brackets the module that each of them is about.)

* **ClosPool**: the pool as a record `[avail, used, shared]`, its functions as
  operators from a pool to a result. `availableCLOSes` is a sequence because it
  is used as a queue. Nothing observes the order of `usedCLOSes`, but a name may
  be in it more than once, so it is a bag.
* **ClosPoolCalls**: any caller calls any function at any time.
* **Workload**: the workload record, reduced to members, policy, cache values,
  bandwidths by unit, a plugin flag, class, UUID, origin; the table of policies, how
  a policy fills a workload (`FilledByPolicy`), which of the two counts when the
  workload is enforced (`CacheOf`, `UsesMba`), and what a PATCH makes of it (`Merged`,
  `Patched`).
* **WorkloadDB**: both buckets and the sequence; one operator per transaction.
  **WorkloadDBCalls**: callers that do not overlap.
* **CacheWays**: the layout of the pools and the runs of ways that the bitmap
  functions find. A mask is a set of way numbers.
* **Resctrl**: the platform `[mask, mb, mode, group]` (masks and bandwidths per
  class and cache, the unit of bandwidths, a class per task and core) and what the
  root process does to it.
  `GetResAssociation` skips the groups of available classes; `Visible` is that
  view. A default mask counts as "has no ways of its own", as in the code. `SetInfraGroup`
  gives COS1 the highest ways on the caches that have an infra CPU, pools or not.
* **Enforcement**: `Validate`, `Enforce` and `Release`. Each of the last two
  holds the mutex from beginning to end, and nobody writes what it reads without
  the mutex, except `mbaValue`, so each is an operator with an outcome. Four
  choices are nondeterministic: the iteration order of the map of candidates, how
  many tasks are associated before one that has ended stops the call, whether a
  plugin succeeds, and which values of `mbaValue` an `Enforce` sees while another
  request is in `validate`.
* **WorkloadManager**: the threads. A step is one database transaction or one
  critical section. `Continue(t)` is a thread going on with its request.

  | Action | Code |
  |---|---|
  | `NewWorkload`, `EnforceNew`, `Create`, `UndoNew` | POST: fill and validate; `Enforce`; `Create`, or `Delete` after a 400 |
  | `processCreateNotification` | the same path for Nova, which has no undo |
  | `DeleteByID`, `processDeleteNotification`, `ReleaseOld`, `DeleteOld` | read; `Release`; `Delete` |
  | `Patch`, `BeginScan`, `ScanRow`, `EndScan` | PATCH reads the row and runs `dbContentValidation` |
  | `RefusePatch`, `ReleaseForPatch`, `EnforcePatched`, `UpdateMembers`, `updateInDB` | `update`, then the database |
  | `BeginScan`, `ScanRow`, `EndScan` of `Validator` | the periodic `dbContentValidation`; the only place where the mutex is held over several transactions |
  | `Crash`, `ResetAPI`, `SanityCheck`, `LoadWorkloads`, `MarkRow`, `StartServing` | the end of the process, the forced change of the MBA mode, boot checks, `workload.Init` row by row |
  | `Exit` | a task ends |

* **CacheInfo**: the hospitality score and the numbers of `GET /cache` as operators
  on the same platform. They look at other groups than `Enforce` does: at all of
  them, whether available or not.
* **WorkloadProperties**: the promises. A promise about a row is made while RMD
  is up, no DELETE or PATCH is half way through with the row, and the workload
  has no tasks or one of its tasks is alive.

* **Bitmap**: `utils/bitmap/bitmap.go` by what it does to words. A bitmap is a
  length and a sequence of words, a word a set of bit numbers below `W` (32 in the
  code), a hexadecimal digit has `D` bits (4). Lists such as "0-3,^2" are sequences
  of parsed items. **BitmapCalls**: a bitmap that is made and combined in every way.
  **BitSet**: what callers take it for, a set of numbers below a length.
* **NovaListener**: one step of `handle` or of the client per action (`Receive`,
  `Lookup`, `FirstQuery`, `RenewToken`, `SecondQuery`, `EnforceInstance`, `Create`,
  `Find`, `ReleaseInstance`, `Delete`, `Ack`), the broker's queue, and an environment
  that creates and removes instances, breaks and repairs Keystone, Swift and the
  connection, lets the token expire and ends the process. The database is that of
  WorkloadDB; `Enforce` and `Release`, which WorkloadManager has in full, are reduced
  to the class that the cores of the instance get.
* **Lifecycle**: launches of the program as slots, each with a root process and a
  child. `main` is split where another process can see the difference: reading,
  truncating and writing the pid file, spawning, asking for the death signal, taking
  the lock of the database, the first RPC, listening. Any process may be killed, and
  any step may fail, at any point.

### What is abstracted

* A POST may also give a `cos_name`, which `Enforce` of a workload with cache
  overwrites (and one with plugins only keeps), and a `uuid`, which the REST handler stores like any other field
  (`workload_api.go:146`). Neither is in a request of the manager; the database under any
  UUIDs, the posted ones included, is WorkloadDBCalls.
* The bandwidth of a policy is read as an `int` (`workload.go:91`), which no number of a
  TOML file is after decoding, so a policy has none. What a policy does to a workload
  that comes with a bandwidth is modelled.
* The tasks and CPUs of the infra group are none of those that workloads name.
* Bandwidths are 1 .. `MbaMax`; the largest stands for the default of the unit
  (100 percent, or the largest number of Mbps), larger values are out of range.
* All plugins of a workload are one flag; their calls succeed or fail at will.
* Tasks that end do not come back: reuse of process ids is not modelled.
* `Commit` in the client never returns an error because the server's handler
  answers nil; the deferred `ReturnClos` of `enforceRDT`, which runs on such errors
  only, is therefore not modelled. Neither is the test for too many groups in
  `GetAvailableCacheSchemata`, which would have failed at boot.
* A PATCH with members only is validated under the id that the workload already
  has, and `validateWorkload` refuses a stored id. It is accepted only if the
  PATCH's own scan has just removed the row, which `updateInDB` then creates again.
  The model does exactly this.
* The allocator uses the functions of `utils/bitmap` by what they compute (CacheWays);
  that their scans compute it is the `bitmaps` run.
* A message of Nova is a type and an instance; those that cannot be parsed are
  acknowledged like those of other hosts. Nova announces an instance once and
  removes it once; only the broker delivers twice.
* Two launches do not run through `CreatePID` at the same time, because it is not
  atomic (`Launch`).

## 3. What TLC checks

`tlc -config X.cfg M` in this directory. Violation runs end with the
counterexample described.

| Run | Module, configuration | Shows |
|---|---|---|
| `pool_calls` | ClosPoolCalls, `ClosPoolCalls.cfg` | three classes, any calls: nothing is lost from both lists, no count goes below zero, the shared class is counted as used |
| `db_calls` | MCWorkloadDB, `WorkloadDB.cfg` | one caller at a time, posted ids within and beyond the sequence, PATCHes of members, cache and policy: both buckets agree (`MappingSound`), nothing but a PATCH makes two rows share a member (`SharedOnlyByPatch`), and creating a workload replaces no other, except one with a posted id that is generated again (`CreateKeepsOthers`) |
| `concurrent` | MCWorkload, `Workload_concurrent.cfg` | two REST clients, Nova and the validator interleaved, tasks that end, requests about different members: the class of each row is reserved (`RowClosHeld`), the promised ways are there and neither the OS group nor another workload has them (`GuaranteeHonoured`), members are where they belong (`MembersPlaced`, `ExclusiveMembers`), shared workloads share one class, the validator removes no living workload |
| `crash` | MCWorkload, `Workload_crash.cfg` | one client, every type of workload and several that are refused, bandwidths in both units, also beside a policy, a policy that does not exist, an infra group, a plugin that may fail, a crash between any two steps, a change of the MBA mode and all restarts: `RowClosHeld`, `WaysExclusive`, and no workload whose bandwidth counts is served in the other unit (`ModeConsistent`) |
| `wild` | MCWorkload, `Workload_wild.cfg` | two clients that POST, PATCH and DELETE the same workloads and tasks, with posted ids, PATCHes that change members or the policy, and an infra group that has a way of the shared pool and one of the best-effort pool: what holds even then (`TypeOK`, `WaysExclusive`, `MaskShape`, `OSDisjoint`), and that the hospitality score is never more than `Enforce` would give, and as much where the infra group has nothing (`ScoreTruthful`) |
| `spanning` | MCWorkload, `Workload_spanning.cfg` | two caches, an infra group on one of them with ways of every pool, workloads on both, with and without bandwidths, one with a bandwidth beside its policy: ways and bandwidths are there on each cache (`GuaranteeHonoured`, `BesteffortHonoured`, `MbaHonoured`), nobody else is throttled (`ThrottleConfined`), and policy counts are what `Enforce` can serve one after the other, and not more where the infra group has ways (`CountTruthful`) |
| `liveness` | MCWorkload, `Workload_liveness.cfg` | a client that competes for the mutex with the validator, a PATCH that ends the root process, and a crash: every request is answered, dead rows go, the process serves again |
| `bitmaps` | BitmapCalls, `BitmapCalls.cfg` | bitmaps are sets of numbers (`IsBitSet`, a refinement of BitSet), no operation indexes a word that is not there, the scans find the runs that CacheWays speaks of, what is printed is read back, and overlapping cores are recognised whatever lengths the lists have |
| `listener` | MCNovaListener, `NovaListener.cfg` | when the queue is empty no workload is left of an instance that is gone (`NoGhosts`), cores are in the class of their stored workload (`CoresFollowRows`), the queue is worked off (`QueueDrained`), and an expired token does not cost an instance its policy (`PolicyApplied`) |
| `lifecycle` | MCLifecycle, `Lifecycle.cfg` | one root process at a time and the pid file names it (`OneRoot`), no child outlives its root process for long (`OrphansEnd`), RMD comes to serve again whatever was killed when (`ServesAgain`) |
| `shared_restart` | `Workload_shared_restart.cfg` | **violation** of `RestartSucceeds`: with two shared workloads stored, the class of the second cannot be marked, and `Init` fails at every start |
| `mba_race` | `Workload_mba_race.cfg` | **violation** of `MbaHonoured`: two clients POST workloads of their own with different bandwidths, both are validated, and the first to be enforced gets the bandwidth of the other |

### The refinement

`IsBitSet` is `BitSet!Spec` with `set <- BitsOf(b)`, the positions of all words, and
`len <- b.len`. Every `Or`, `And`, `Xor`, `Axor` and `NewBitmap` is a union, an
intersection, a difference, a one-sided difference or an assignment of sets (proved
for every width and length in BitmapProofs, section 4). The
lengths of the results (the longer, the shorter, the receiver's) are part of it,
since the next operation allocates words by them.

### Bounds

Every bound is a constant. `MaxEntries` bounds the occurrences of a name in the
lists of the pool; four is one more than the number of classes, so names do
occur twice in `avail`. `MaxRequests` bounds POSTs, PATCHes and create
notifications; DELETEs need a row and are not bounded. Three requests are enough
to fill two classes and be refused the third, to reuse a returned class, and to
have one workload in the database while two requests are in flight. `NumClos` is
3 or 4 (one or two classes besides those of the OS and the infra group), ways are
so few that the pools run out, `MaxCrashes` is one and a restart may fail any
number of times; `MaxResets` is one change of the MBA mode. `MbaMax` is two,
so that a limit, the default and a value out of range are among the requests.
`MaxId` and `MaxSeq` are at least `MaxRequests`, so no create is cut off in the runs
of the manager; in `db_calls` the sequence ends at 2 and 2 and 3 may be posted, so that a
posted id can be generated again, and another cannot. `OneAtATime` is TRUE where a run assumes that no two requests in
flight are about the same workload or the same members; `Mortal` is the set of tasks
that may end; `ForceConfig` is the flag `--force-config`. Clients are interchangeable, so
the safety runs with two of them use symmetry.

Bitmaps have words of `W = 3` bits, digits of `D = 1` bit and the lengths 2, 3, 5
and 6: below a word, exactly one, between, exactly two. The listener has three
instances (one plain, one with a plugin, one on another host), one class, one
failure (`MaxFaults`; services recover at will, so one is enough for each retry to
meet it) and one crash. The life of the processes has three slots, which is a
launch that has failed while its child still runs, the next one, and one that is
refused; and three faults, which is as many as a sequence needs that kills a root
process, then its successor while it writes the pid file, and reuses a pid.

### Fairness

`FairSpec` of WorkloadManager assumes `SF(Continue(t))` for every thread: a Go
`sync.Mutex` hands the lock to a goroutine that has waited for a millisecond, so a
thread that waits for it again and again obtains it although the validator takes
it for ever. `SF(BeginScan(Validator))`: the validator is an endless loop that waits
for the same mutex. `WF(Start)`: the process is started again, by the operator,
because `rmd.service` has no `Restart=`. Nothing is assumed of clients, task exits
or crashes. `liveness` has one client: the validator is the only thread that
competes for the mutex for ever. With two clients and a crash `ServesAgain` fails
(see 3.2).

NovaListener: `WF(Listener)`, the goroutine runs and the process is started again;
nothing is assumed of Keystone, Swift, the broker or Nova. Lifecycle: weak fairness
of each root process and of each child, and of a launch when no RMD runs; a child
that waits for the database's lock or for the port is simply not enabled.

### 3.1 Properties that look weaker than one would like

* `RowClosHeld` and the promises of `concurrent` fail when two requests are about
  the same workload, because DELETE and PATCH release the copy that they read
  before they waited for the mutex. `OneAtATime` is that assumption; `wild` does
  without it and checks only what remains.
* Even with `OneAtATime`, `RowClosHeld` does not hold of every set of requests: when a
  task of the shared group ends while a second shared workload joins, a third that is
  released takes the class from under both. `concurrent` has two shared requests, both
  for tasks. The class that is taken may become a guaranteed workload's while the row of
  a shared one still names it (`GuaranteeHonoured` with `Shared({t1}, {})`,
  `Shared({t2}, {})`, `Shared({}, {k1})`, `Guaranteed({}, {k1}, 1)`, `Mortal = {t1}` and four
  requests: 15 steps).
* `MembersPlaced` and `SharedTogether` leave out shared workloads once a task has ended: a
  task of the shared group that ends while another workload joins stops the association
  of the new members, and `AllocateCLOS`, which returns nothing, does not say so.
* `ThrottleConfined` does not speak of a row whose class has been released and that is
  about to be deleted.
* `ScoreTruthful` and `CountTruthful` are about ways, for exclusive types and runs
  without crashes; see 3.2 for what the score does not say. On a cache where the infra
  group has ways of the pool they say only that no more is promised than there is.
* `SharedOnlyByPatch` does not promise that the members of stored workloads are unique,
  which a PATCH may end (3.2), but that nothing else makes two of them share any, also
  not once a PATCH has.
* `CreateKeepsOthers` and `MappingSound` make an exception for the ids that clients have
  posted: `CreateWorkload` replaces such a row when the sequence reaches its id (3.2).
  The run posts an id that the sequence reaches and one that it does not.
* `ModeConsistent` leaves out rows with a policy, whose bandwidth does not count, and
  `MbaHonoured` and `ThrottleConfined` read a bandwidth only where it counts (`UsesMba`).
* `OSDisjoint`, `GuaranteeHonoured` and `WaysExclusive` are about classes of workloads; the
  infra group may overlap with all of them (`docs/ConfigurationGuide.md`, "This group
  can be overlap with other cache pools").
* `NoGhosts` and `CoresFollowRows` leave out instances whose plugin refuses, and the
  second leaves out crashes: one between `Enforce` and `Create` of an instance
  that is then removed leaves its cores in a class that nobody knows of.
* `QueueDrained` and `ServesAgain` of Lifecycle name the states in which the code
  gives up: the listener without a connection or waiting for a silent Keystone, an
  empty pid file, a pid that another program has.
* `WaysExclusive` lets two classes overlap inside the shared pool, and any class
  that has the default mask overlaps with everything. After a restart it is checked
  for the requests of `crash` only: a class that is twice in the available list, or
  that a crash has left with a mask and without a row, is a counterexample with others.

### 3.2 Further disagreements between code and documentation

The model exhibits these as well; a constant or a request set of MCWorkload
changed as described gives the trace.

* `update` releases the workload and then calls `Enforce` (`workload.go:811`, "release
  current resource group and re-enforce it", `:649`). When that fails, the PATCH is
  answered with an error while the row still has its old class and maximum
  (`GuaranteeHonoured` in `concurrent` with a PATCH that does not fit).
* "When create a new workload we need to verify that the new PIDs we the workload
  specified should not existed" (`internal/db/boltdb.go:92`), but validation and
  creation are two transactions: two POSTs of one task are both stored
  (`ExclusiveMembers` in `concurrent` without `OneAtATime`).
* `newResAss` lists masks in the order of a map iteration and `AllocateCLOS` writes
  the i-th to socket i: with workloads on one socket each, of two, the mask that
  was computed for one cache may be written to the other (`GuaranteeHonoured` in
  `spanning` with such workloads).
* "Number of CLOSes is strictly limited so it's better to not waste it on non-RDT
  workloads" (`workload.go:409`), but a class stays in the used list, with its mask,
  when the tasks of its workload have ended (the validator only deletes the row,
  and a DELETE fails in `RemoveTasks`) and when a plugin refuses after the class was
  committed.
* `ReturnClos` "moves CLOS with given name from used list into available list"
  (`utils/pqos/pqos.go:608`), but leaves the entry of the shared class in the used
  list.
* `NextSequence` may generate an id that a client has posted, and `CreateWorkload`
  then overwrites that workload and leaves its UUID in the mapping
  (`internal/db/boltdb.go:107`), although `validateWorkload` says of posted ids that a
  workload with one "already exists". `db_calls` has this case; without the exceptions
  for `PostIds`, `CreateKeepsOthers` and `MappingSound` are violated in it.
* A PATCH that changes members together with a parameter replaces them
  (`workload.go:804`) without looking at other rows, so one task or core is stored in two
  workloads although no requests overlap (`MembersUnique` of WorkloadDBCalls as an
  invariant of `db_calls`). A PATCH that changes members only is refused instead, see
  above.
* After a restart `sharedCLOS` is empty although stored workloads use the class:
  the next shared workload gets another (`SharedTogether` in `crash`).
* With `Shrink = TRUE`, `shrinkBEPool` finds no group whose name ends in
  `-besteffort`, because groups are named `COSn`, and ways in use are given away
  (`WaysExclusive`, with two best-effort requests that do not fit together).
* A crash between `Enforce` and `Create` leaves a task in a class that the next
  workload is given (`ExclusiveMembers` in `crash`).
* A crash between `Release` and `Delete`, after a second client was given and
  stored the released class, leaves two rows with one class: `Init` fails at every
  start (`ServesAgain` in `liveness` with two clients).
* `AllocateCLOS` associates cores only for a group without tasks, so cores that join a
  shared group with tasks stay in COS0 (`MembersPlaced` in `concurrent` with the requests
  `Shared({t1}, {})` and `Shared({}, {k1})`: 6 steps). The group does not know of them, and
  when the tasks leave, the class is returned and given to another workload.
* On a cache without an OS CPU the guarantee pool starts at way 0, which
  `SetOSGroup` gives to the OS as well (`OSDisjoint` and `GuaranteeHonoured` with
  `OSSockets` empty).
* The infra group shares ways "with all of the other groups **except** OS group"
  (`README.md:51`), but `SetOSGroup` ignores COS1 (`osgroup.go:115`): the OS group grows
  over the ways of the infra group whenever the pools below them are free.
* The validator judges the row that it has read and deletes by id; a PATCH that
  replaces the tasks may be stored in between (`ValidatorSparesLive` with a PATCH
  that changes tasks and ways). The same with a posted id that is deleted and posted
  again.
* A POST with an id that `Enforce` refuses deletes the row with this id, also if
  another request has stored it meanwhile (`workload_api.go:163`).

Memory bandwidth:

* `validate` writes `mbaValue` before it has checked the range, and a PATCH of the cache
  only re-enforces a workload with whatever value was validated last (0 after a
  restart, which libpqos refuses without anybody noticing).
* A request with shared cache and a bandwidth reserves a class for which `enforceRDT`
  commits no mask and after which the OS group is not recomputed. Whatever mask the
  class was left with becomes visible again: after a crash between `Enforce` and `Create`
  it overlaps with the OS group (`OSDisjoint` in `wild` with such a request and
  `MaxCrashes = 1`, 15 steps); without a crash, when DELETEs that overlap have put a class
  into the available list twice, it overlaps with another workload's ways (`WaysExclusive`
  with two guaranteed requests, such a request, and `MaxRequests = 10`: 39 steps, the
  case that the proof of `WaysExclusiveHolds` has to exclude).
* Of a request with a policy `validate` looks at the members only (`workload.go:222`),
  and `fillWorkloadByPolicy` does not touch the bandwidth, so a POST may store one that is
  out of range or in the other unit; `populateEnforceRequest` does not look at it either
  (`:963`), so it is never set. `crash` and `spanning` have such requests. The row
  shows a limit that the workload does not have, and a start with such a row fails without
  `--force-config` and removes it with it.
* A PATCH of the cache ends the policy, and the bandwidth that was posted beside it counts
  from then on: in the other unit (`ModeConsistent` in `wild` with
  `InMbps(ByPolicy({t1}, {}, gold), 1)` among the requests), or with the value that
  `mbaValue` happens to have.
* A PATCH to another policy takes the limit from the workload, but leaves it in the row.
* A crash between `Enforce` and `Create` leaves a throttled class for the next workload,
  a shared workload with the largest bandwidth leaves the shared class reserved, and
  a DELETE of a workload of which a task has ended leaves the others throttled.
* A PATCH with a bandwidth on a plugin-only workload makes the root process index an
  empty list of masks, which ends it (`pqos.go:161`); `liveness` has this request.
* `--force-config` "can reset resctrl and remove workloads with incompatible MBA mode
  used" (`docs/UserGuide.md:134`); the reset takes the ways of all other workloads
  as well, which stay stored.
* The largest number of Mbps is 4294967290 in `validate` and 4294967289 by default.
* `getSocketIDs` panics if the first task of a request has ended meanwhile.

Listener and processes:

* `openstack.Init` in the user process only logs a failure. A broker that is down at
  the start, or a connection that is lost, is never tried again. Without Keystone at
  the start there is no endpoint of Swift, and every create is dropped until the next
  start.
* A create or release that fails is acknowledged and lost, also when the only reason is
  a REST workload on the same cores.
* `CreatePID` is not atomic, and a root process killed between `O_TRUNC` and `Write` leaves
  an empty file, for which `Glob("/proc/")` finds a running process at every later start;
  `scripts/test.sh:72` takes an empty file for "not running".
* The root process leaves its pid file behind when it fails after spawning; and a child
  that exits with 0, which it does when a Unix socket is configured and it cannot listen on
  it (`server.go:206`), leaves a root process without an API. (`ChildWaited`
  does not have this exit.)
* The forced reset of the MBA mode (`rmd.go:160`) happens before `CreatePID` (`:203`): a
  second launch that is going to be refused resets the platform of the first.
* A child that lost its root process before `prctl` waits for the database's lock for
  as long as another RMD runs.

Information for schedulers:

* Hospitality by policy name always fails: `.(int)` on values that TOML delivers as
  `int64` (`hospitality.go:70`, compare `cache.go:358`). The score of a shared request
  is always 100, since no class is called "shared".
* Score and count ignore how many classes are left, and count the masks of available
  classes that a crash has left behind. Their ignore lists name "infra", which is no
  group (`hospitality.go:113`, `cache.go:424`; it is COS1), so the ways of the infra group
  are taken for occupied, although the pools may have them and `Enforce` gives them
  (`workload.go:260`): with an infra group in `rmd.toml` a request may score 0 and be served
  in full (`ScoreTruthful` in `wild` and `CountTruthful` in `spanning` without
  `InfraApart`). With shrinking enabled `Enforce` may serve a request with score 0.

Bitmaps (outside of what the callers do):

* `Maximum` looks only at the last word (it has no caller); a reversed range "5-3" sets
  the bits from 5 to the end of the word; a core beyond the last word is an index out of
  range in `genBits`; `GetConnectiveBits` of 0 ways returns a bit that is not set;
  `getPIDTaskSet` takes a mask of f's for "not pinned".

## 4. What TLAPS proves

For every number of classes, tasks, cores, ids, clients, requests, crashes and faults,
and every instance of the other constants. The assumptions are the named ASSUMEs of
the modules (at least three classes, disjoint tasks and cores, and so on), which TLC
evaluates in the runs, and the hypotheses that a theorem states itself. The last column
says what happens without them; where it is not a counterexample, it says so.

| Theorem | Hypothesis | Without it |
|---|---|---|
| `PoolTypeCorrect`, `PoolNeverLoses`, `SharedAlwaysReserved` | none | |
| `DatabaseTypeCorrect`, `MappingIsSound`, `CreateNeverOverwrites`, `SharingNeedsAPatch` | none (callers do not overlap in WorkloadDBCalls; PATCHes of members and any posted ids are allowed) | two POSTs of one task are both stored (3.2) |
| `StoredMembersAreUnique` | PATCHes name no members | a PATCH stores one task in two rows (3.2) |
| `OneRootHolds` | none (two launches are not both in `CreatePID`) | `CreatePID` is not atomic |
| `NoGhostsHolds`, `CoresFollowRowsHolds` | none; the properties leave out refusing plugins, the second one crashes | 3.1 |
| `BitSetImplemented` | lists make well formed bitmaps (`ListsMade`) | not a condition of the code: a list is read by a fold, of which the prover cannot say what it computes; the invariant `ReadBack` shows it on the instance of the run |
| `TypeOKHolds`, `NoClassLost` | none | |
| `ModeConsistentHolds` | no request has a bandwidth beside a policy, or every PATCH that gives a parameter gives a policy | a PATCH ends the policy, and the bandwidth posted beside it counts in the other unit (3.2) |
| `MaskShapeHolds` | the OS has CPUs on all caches or on none | the map order may put a mask on another cache, where the pools start elsewhere |
| `OSDisjointHolds` | the OS has a CPU on every cache; no bandwidth with shared cache | 3.2: the guarantee pool starts at way 0; a class is reserved without a mask |
| `WaysExclusiveHolds` | one cache, no shrinking, the process has not ended yet, no bandwidth with shared cache | 3.1, 3.2 |
| `ValidatorSparesLiveHolds` | no posted ids, no PATCH of tasks, no `--force-config` | an id is used again, or the tasks change, between reading and deleting (3.2); `Init` itself removes rows while the validator scans |
| `InOneList` | no shared cache | `ReturnClos` leaves the shared class in the used list (3.2) |
| `RowClosHeldHolds` | no shared cache, requests do not overlap, no PATCH; crashes are allowed | 3.1: a shared class is returned too early; two DELETEs of one workload return its class twice; a PATCH that fails leaves a row with a class that has been returned |
| `MembersPlacedHolds`, `ExclusiveMembersHolds` | as `RowClosHeldHolds`, and the process has not ended yet | cores that join a shared group stay outside (3.2); a crash between `Enforce` and `Create` leaves members in a class that the next process takes for free (3.2) |
| `GuaranteeHonouredHolds` | as before, one cache with a CPU of the OS, no shrinking | the order of the map may put the ways on another cache; shrinking gives away ways in use; without a CPU of the OS the guarantee pool starts at way 0, which the OS has too (3.2) |
| `BesteffortHonouredHolds` | as before, one cache; shrinking is allowed | the same order of the map |
| `ScoreTruthfulHolds` | no shared cache, no shrinking, the process has not ended yet; overlapping requests, PATCHes and several caches are allowed | a crash leaves a mask on an available class, and `Enforce` may shrink (3.2). That shared cache is left out is needed by the proof, which has every class in one list; `wild` checks the score with shared cache too |
| `ThrottleConfinedHolds` | as `MembersPlacedHolds`, and every task and core has a cache; any number of clients that race for `mbaValue` | 3.2, "Memory bandwidth"; the last condition is true of every host |
| `MbaHonouredHolds` | as `MembersPlacedHolds`, any number of clients; from the validation of a request whose limit counts to the end of its `Enforce` nobody else writes `mbaValue` (`Undisturbed`) | run `mba_race`: the promise fails by exactly this race |
| `AloneUndisturbed` | as `MembersPlacedHolds`, one client, and Nova asks for no bandwidth that counts (`OneLimiter`) | its conclusion is `Undisturbed`, which the second client of `mba_race` breaks |

The hypotheses on constants are satisfiable, and those of the first rows are true of the
runs that check the same property. The runs go further where they can: `wild` and `crash`
check `WaysExclusive` and `OSDisjoint` for requests and restarts that the theorems leave
out; `concurrent` checks the promises about rows with shared requests; and `spanning` checks
those about ways and bandwidths on two caches, for workloads that run on both.
The theorems in turn have any number of clients, workloads, classes and ways.

* **PoolAndDBLemmas**: one lemma per function of the pool (`ReserveSound`, `UseSound`,
  `SharedSound`, `MarkSound`, `ReturnSound`) and one per transaction of the database
  (`CreateEffect`, `DeleteEffect`, `UpdateEffect`), stated for any pool and any database
  and not for a variable, so that all specifications can use them. `Sound(p)` is that a
  pool is well typed, has every class in one of its lists, and counts the shared class
  as used. The three parts need each other: returning the shared class relies on it
  being used, and that no class is lost when the queue is shortened relies on the new
  entry in the bag.
* **PoolAndDBProofs**: the inductive invariant of the pool is `Sound(pool)`. That of the
  database, `DBInv`, is types and that a row is stored under its own id, which
  is what makes deleting and updating what was read touch the right key. `MappingInv` adds
  that the two buckets agree and that no row, but for those with posted ids, has an id
  that the sequence has yet to generate. `SharingIsOld` is the step of
  `SharedOnlyByPatch`: a workload that replaces one with a posted id was itself compared
  with all rows.
* **LifecycleProofs**: `RootInv` says that one launch at a time is in `CreatePID`, that
  the pid file names exactly the process that is past it, and that from the check of
  the file to its writing it names nobody.
* **NovaListenerProofs**: `NoGhosts` is about the moment when the queue is empty. What is
  inductive is that the workload of an instance that is gone has its delete notification
  still ahead (`GhostsAnnounced`), which needs the order of the queue, that the listener
  works on its head, and that both buckets agree (`NovaInv`). `CoresInv` says where the
  cores are in the two gaps between platform and database.
* **BitmapProofs**: the bits of a word by word result are compared position by position,
  with quotient and remainder of the position by the width (`BitsMeans`, `Result`); one
  lemma per operation (`OrIsUnion`, `AndIsIntersection`, `XorIsDifference`,
  `AxorIsDifference`), and `HexReadBack` for `ToString` and `NewBitmap` of its result. The
  invariant is that the bitmap has exactly the words that its length needs and no bit
  beyond it; with it every step maps to a step of BitSet.
* **EnforcementLemmas**: what the run functions find (a run, inside the mask they search,
  of the length that is asked for), which masks a pool can give, the effect on the
  platform of each call of the root process, and the few outcomes of `Enforce` and `Release`.
* **WorkloadManagerProofs**: `ManagerInv` is the base of all others: types, a sound pool,
  what each program counter says of its thread's locals, rows under their own ids.
  - `ModeInv` follows the unit of bandwidths that count through requests in flight and
    through the start, and those beside a policy as well unless policies stay
    (`InMode`): while rows are being marked, every row in the other unit is still among those
    that `Init` has yet to look at.
  - `PlatformSteps` sorts the actions by what they can do to phase, pool and masks: nothing,
    an enforcement, a release, a recomputed OS group, a reset, a marked row. The three theorems
    about masks are a case split over it. `OSInv` has to speak of all classes during the start,
    since it is not known before the last row is marked which of them will be visible.
    `WaysExclusive` is inductive under its hypotheses, because what `Enforce` finds is
    apart from the masks of all visible classes (`CandidatesApart`) and what is returned
    becomes invisible or gets the default mask.
  - `SpareInv`, for the validator: a workload that is stored, in a scan's copy of the rows
    or in a handler's hands stands for its id alone (`IdsOnce`: no two of them with one id
    and different tasks), and so what the scan judged is what it deletes. It was checked
    with TLC first, on the interleavings of two clients with the validator and a crash.
* **WorkloadPromises**: what RMD promises to the owner of a workload, in layers that
  are each inductive on top of the ones before.
  - `CleanInv`: no stored workload and no request in flight asks for shared cache, and
    every class is exactly once in exactly one list. `UseAvailableCLOS` takes a class from
    one list to the other, `ReturnClos` back, and `Init` marks only what is available.
  - `ClaimInv`: a class is *claimed* by a stored workload whose release has not begun and
    which `Init` has marked, or by a handler between `Enforce` and `Create` or before
    `Release`. A claimed class is in the used list, and no two claims are for one class,
    but for the handler that is about to release the row it has read. `OneAtATime` is what
    makes the handler's copy the row's only one. That this survives crashes needs
    `BootCopies`: until `Init` has marked a row, its copy is what is stored.
  - `ApartInv`: rows and requests in flight have no members in common.
  - With these, every step of a serving daemon is of one of three kinds, whatever
    action it is: `CalmStep` leaves lists, masks and bandwidths of claimed classes
    alone, `TakeStep` moves one available class to one request, and `FreeStep` returns the
    class of a workload that nobody else claims. The promises are one case
    split over the three: `MemberInv` (a claimed class has the members of its workload
    and an available class has none), `FitInv` (its ways are a run of the asked length in
    its pool), `ThrottleInv` (an available class limits nothing, a claimed one only what
    was asked for), `LimitInv` and `BandwidthInv` (a limit that is still in `mbaValue`
    when its request is enforced is in range, and a claimed class has the limit of its
    workload). The last one takes from `Undisturbed` that it is still there: which steps write
    `mbaValue`, and that with one client none of them comes in between, is `MbaWriters`.
  - `GuaranteeHonouredHolds` takes the ways from `FitInv` and that nobody else has them
    from `WaysExclusiveHolds` and `ClaimInv`.
  - `ScoreTruthfulHolds` does without `ClaimInv`, hence with overlapping requests: it needs
    only that available classes have the default mask (`FreeIsDefault`), so that the groups
    which the score counts and `Enforce` leaves out take no way from it but the infra group,
    and that both find a longest run (`RunFound`), which has no fewer ways where more are
    free (the inequality).

  TLC, run on the properties with larger sets of requests before their proofs, is how the
  exception in `ThrottleConfined` and the condition `alive = Tasks` in `SharedTogether` were
  found to be needed.

Model-checked only:

* liveness (`EveryRequestAnswered`, `DeadRowsRemoved`, `ServesAgain`, `QueueDrained`,
  `PolicyApplied`, `OrphansEnd`), because fairness is out of the prover's reach;
* what the scans and lists of bitmaps compute (`ScansFindRuns`, `ReadBack` but for its part about
  hexadecimal strings with commas, `OverlapRefused`), which are folds;
* `CountTruthful`, which compares with enforcement repeated until it fails, a recursive
  function of which only an induction over data could say what it computes;
* `SharedTogether`, since the shared class leaves the list of used classes with an entry
  too many and may be returned while a row names it (3.1): `CleanInv` and `ClaimInv` are
  false with shared cache, and what remains true depends on which members the requests
  name.

## 5. Not modelled

The members of the infra group, and reading the policy file. The undo log of
`resctrl/task_flow.go`, the queries of Glance and `Maximum` have no caller. ACL, PAM and
TLS are libraries; the MongoDB backend is unfinished; the rest reads or writes files:
`providercfg.go` writes a file for Nova at the start, the configuration generator and
the inventory print, and the capability queries of libpqos read the hardware.
`PROJECT.json` has the list with reasons.

## 6. What is left

What is modelled is what the code allows to be modelled, and every safety invariant of
the runs that is within the prover's reach is stated by a theorem. What could be added
are larger hypotheses, each of which waits for a change of the code rather than of the
proofs:

1. The promises across restarts: they need a class that a crash has left behind to be
   recognised at the start. Today only `RowClosHeld` is true there.
2. The promises with PATCH: they need `update` to restore the class, or to store the row
   without it, when the second `Enforce` fails.
3. The promises with shared cache: they need `ReturnClos` to remove the entry of the shared
   class from the used list, and `AllocateCLOS` to report members that it has not
   associated.
4. `GuaranteeHonoured` and `BesteffortHonoured` on several caches: they need schemata in the
   order of the caches. For workloads that run on all caches the statement is true
   (`spanning`), and could be proved with the choice of ways made cache by cache.
