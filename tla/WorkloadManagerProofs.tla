----------------------- MODULE WorkloadManagerProofs -----------------------
(***************************************************************************)
(* What holds of the workload manager for any number of clients, any       *)
(* requests, any host, any number of crashes and changes of mode.          *)
(*                                                                         *)
(* ManagerInv is inductive: the types, what each program counter says of   *)
(* the locals of its thread, that rows are stored under their own id, and  *)
(* that the pool has lost no class.  The other invariants are proved on    *)
(* top of it, those about masks from the lemma PlatformSteps, which says   *)
(* in how few ways a step of Next can change the pool and the masks.       *)
(***************************************************************************)
EXTENDS WorkloadProperties, EnforcementLemmas

(* What thread t keeps between two steps: every handler carries a          *)
(* workload, a PATCH also what it has received, and it stores the workload *)
(* under an id; the validator only scans.                                  *)
GoodLocal(t, x) ==
  /\ x \in Thread
  /\ t = Validator => x.pc \in {"idle", "scan"}
  /\ t # Validator /\ x.pc # "idle" => x.w \in RDTWorkLoad
  /\ t # Validator /\ x.pc \in {"lock", "scan", "update"} =>
       x.patch \in Patches /\ x.w.id \in Ids
  /\ x.pc \in {"reenforce", "store"} => x.w.id \in Ids

ThreadsGood == thread \in [Threads -> Thread] /\ \A t \in Threads : GoodLocal(t, thread[t])

(* A row is stored under its own id.                                       *)
RowsKeyed == \A i \in RowIds(db) : db.rows[i].id = i

ManagerInv == TypeOK /\ Sound(pool) /\ ThreadsGood /\ RowsKeyed

-----------------------------------------------------------------------------
(* The records that handlers make.                                         *)

(* A workload made from a request.                                         *)
LEMMA NewWorkloadType ==
  ASSUME NEW r \in Request, NEW id \in Ids \cup {NoId}, NEW u \in UUIDs \cup {NoUUID},
         NEW o \in {"REST", "OPENSTACK"}
  PROVE  LET w == NewRDTWorkLoad(r, id, u, o)
         IN  /\ w \in RDTWorkLoad /\ w.mba = r.mba /\ w.max = r.max /\ w.min = r.min
             /\ w.policy = r.policy
BY DEF Request, NewRDTWorkLoad, RDTWorkLoad, ClosName

(* Enforce writes the class into the workload.                             *)
LEMMA WithClos ==
  ASSUME NEW w \in RDTWorkLoad, NEW g \in PoolClos
  PROVE  LET v == [w EXCEPT !.cos = g]
         IN  /\ v \in RDTWorkLoad /\ v.id = w.id /\ v.mba = w.mba /\ v.tasks = w.tasks
             /\ v.policy = w.policy
<1>1. [w EXCEPT !.cos = g] \in RDTWorkLoad
  BY DEF RDTWorkLoad, ClosName
<1> QED BY <1>1 DEF RDTWorkLoad

(* The value of a bandwidth in the unit of the platform is a number.       *)
LEMMA LimitIsNumber ==
  ASSUME rdt.mode \in MbaMode, NEW w, w.mba \in Mba, w.mba # NoMba, ~OtherMode(w)
  PROVE  w.mba[rdt.mode] \in Nat
<1> SUFFICES ASSUME w.mba[rdt.mode] = Nil PROVE FALSE
  BY DEF Mba
<1>1. \A unit \in MbaMode : w.mba[unit] = Nil
  BY DEF OtherMode
<1>2. w.mba = NoMba
  BY <1>1 DEF Mba, NoMba
<1> QED BY <1>2

(* The value that a request leaves in mbaValue.                            *)
LEMMA PostedValue ==
  ASSUME ManagerInv, NEW w \in RDTWorkLoad, w.mba # NoMba, ReachesMba(w)
  PROVE  w.mba[rdt.mode] \in Nat
<1>1. rdt.mode \in MbaMode
  BY DEF ManagerInv, TypeOK, Platform
<1>2. w.mba \in Mba
  BY DEF RDTWorkLoad
<1> QED BY <1>1, <1>2, LimitIsNumber DEF ReachesMba

(* The value that an accepted patch leaves there.                          *)
LEMMA PatchedValue ==
  ASSUME ManagerInv, NEW w \in RDTWorkLoad, NEW p \in Request, ~MbaRefused(p)
  PROVE  PatchedMbaValue(w, p) \in Nat
<1>1. rdt.mode \in MbaMode /\ mbaValue \in Nat
  BY DEF ManagerInv, TypeOK, Platform
<1>2. CASE ~MbaChanged(w, p)
  BY <1>1, <1>2 DEF PatchedMbaValue
<1>3. CASE MbaChanged(w, p)
  <2>1. SameButParams(Merged(w, p), w) /\ ParamsOfPatch(Merged(w, p), w, p)
    BY MergedParams
  <2>2. Merged(w, p).mba # w.mba /\ Merged(w, p).mba \in Mba /\ w.mba \in Mba
    BY <1>3, <2>1 DEF MbaChanged, SameButParams, RDTWorkLoad
  <2>3. p.policy = NoPolicy
    BY <2>1, <2>2 DEF ParamsOfPatch
  <2>4. p.mba # NoMba
    <3> SUFFICES ASSUME p.mba = NoMba PROVE FALSE
      OBVIOUS
    <3>1. p.policy # w.policy \/ w.policy = NoPolicy
      BY <2>3
    <3>2. FilledByPolicy(w) \in RDTWorkLoad /\ FilledByPolicy(w).mba = w.mba
      BY Filled DEF SameButParams
    <3>3. \A unit \in MbaMode : p.mba[unit] = Nil
      BY DEF NoMba
    <3>4. Merged(w, p).mba = [unit \in MbaMode |-> w.mba[unit]]
      BY <2>3, <3>1, <3>2, <3>3 DEF Merged, RDTWorkLoad
    <3> QED BY <2>2, <3>4 DEF Mba
  <2>5. p.mba \in Mba /\ ~OtherMode(p)
    BY <2>3 DEF MbaRefused, Request
  <2>6. p.mba[rdt.mode] \in Nat
    BY <1>1, <2>4, <2>5, LimitIsNumber
  <2> QED BY <1>3, <2>6 DEF PatchedMbaValue
<1> QED BY <1>2, <1>3

(* A patch that leads to no Enforce does not change the bandwidth.         *)
LEMMA QuietPatch ==
  ASSUME NEW w \in RDTWorkLoad, NEW p \in Request, ~reEnforce(w, p)
  PROVE  Merged(w, p).mba = w.mba
<1>1. CASE p.policy # NoPolicy
  BY <1>1, MergedParams DEF ParamsOfPatch
<1>2. CASE p.policy = NoPolicy
  BY <1>2 DEF reEnforce, MbaChanged
<1> QED BY <1>1, <1>2

-----------------------------------------------------------------------------
(* Threads.                                                                *)

(* The two shapes of locals that most steps end with.                      *)
LEMMA GoodLocals ==
  ASSUME NEW t
  PROVE  /\ GoodLocal(t, Idle)
         /\ \A pc \in {"enforce", "undo", "create", "release", "delete", "reenforce", "store"},
               w \in RDTWorkLoad :
              /\ t # Validator
              /\ pc \in {"reenforce", "store"} => w.id \in Ids
              => GoodLocal(t, At(pc, w))
<1>1. NoRows \in Snapshot
  BY DEF NoRows, Snapshot
<1>2. Idle \in Thread /\ Idle.pc = "idle"
  BY <1>1 DEF Idle, Thread, PCs
<1>3. ASSUME NEW pc \in {"enforce", "undo", "create", "release", "delete", "reenforce", "store"},
             NEW w \in RDTWorkLoad
      PROVE  At(pc, w) \in Thread /\ At(pc, w).pc = pc /\ At(pc, w).w = w
  BY <1>1 DEF At, Thread, PCs
<1> QED BY <1>2, <1>3 DEF GoodLocal

(* Goto changes the locals of one thread.                                  *)
LEMMA GotoKeeps ==
  ASSUME ThreadsGood, NEW t \in Threads, NEW x, GoodLocal(t, x), Goto(t, x)
  PROVE  ThreadsGood'
<1>1. x \in Thread
  BY DEF GoodLocal
<1>2. thread' \in [Threads -> Thread]
  BY <1>1 DEF ThreadsGood, Goto
<1>3. \A u \in Threads : thread'[u] = IF u = t THEN x ELSE thread[u]
  BY DEF ThreadsGood, Goto
<1>4. \A u \in Threads : GoodLocal(u, thread'[u])
  BY <1>3 DEF ThreadsGood
<1> QED BY <1>2, <1>4 DEF ThreadsGood, GoodLocal, Thread

(* Down leaves every thread idle.                                          *)
LEMMA DownKeeps ==
  ASSUME Down
  PROVE  /\ ThreadsGood' /\ pool' = InitCLOSPool /\ Sound(pool') /\ phase' = "down"
         /\ mbaValue' = 0 /\ boot' \in Snapshot
         /\ \A t \in Threads : thread'[t].pc = "idle"
<1>1. \A t \in Threads : GoodLocal(t, Idle) /\ Idle.pc = "idle"
  BY GoodLocals DEF Idle
<1>2. thread' \in [Threads -> Thread] /\ \A t \in Threads : thread'[t] = Idle
  BY <1>1 DEF Down, GoodLocal
<1>3. ThreadsGood'
  BY <1>1, <1>2 DEF ThreadsGood, GoodLocal, Thread
<1>4. boot' \in Snapshot
  BY DEF Down, NoRows, Snapshot
<1> QED BY <1>1, <1>2, <1>3, <1>4, InitSound DEF Down

(* A thread at a handler's program counter is a handler: it has a          *)
(* workload, and the process is up.                                        *)
LEMMA HandlerRuns ==
  ASSUME ThreadsGood, NEW t \in Threads, NEW pc \in PCs \ {"idle", "scan"}, Running(t, pc)
  PROVE  /\ t # Validator /\ phase = "up" /\ thread[t].w \in RDTWorkLoad
         /\ pc \in {"lock", "update"} => /\ thread[t].patch \in Patches
                                        /\ thread[t].patch \in Request
                                        /\ thread[t].w.id \in Ids
         /\ pc \in {"reenforce", "store"} => thread[t].w.id \in Ids
<1>1. GoodLocal(t, thread[t]) /\ thread[t].pc = pc
  BY DEF ThreadsGood, Running
<1>2. t # Validator
  BY <1>1 DEF GoodLocal
<1> QED BY <1>1, <1>2, RequestsAssumption DEF GoodLocal, Running

-----------------------------------------------------------------------------
(* ManagerInv, action by action.                                           *)

(* The types of what handlers make of requests.                            *)
LEMMA RequestTypes ==
  /\ \A r \in Requests, id \in PostIds \cup {NoId} :
        NewRDTWorkLoad(r, id, NoUUID, "REST") \in RDTWorkLoad
  /\ \A r \in NovaRequests, u \in UUIDs : NewRDTWorkLoad(r, NoId, u, "OPENSTACK") \in RDTWorkLoad
<1>1. /\ \A r \in Requests : r \in Request
      /\ \A r \in NovaRequests : r \in Request
      /\ \A id \in PostIds \cup {NoId} : id \in Ids \cup {NoId}
  BY RequestsAssumption, PostIdsAssumption
<1> QED BY <1>1, NewWorkloadType

(* What another client writes to mbaValue is a number.                     *)
LEMMA RacingValues == ASSUME ManagerInv, NEW t PROVE Racing(t) \subseteq Nat
<1> SUFFICES ASSUME NEW r \in Requests, NEW id \in PostIds \cup {NoId},
                    Refused(NewRDTWorkLoad(r, id, NoUUID, "REST"))
             PROVE  NewRDTWorkLoad(r, id, NoUUID, "REST").mba[rdt.mode] \in Nat
  BY DEF Racing
<1>1. NewRDTWorkLoad(r, id, NoUUID, "REST") \in RDTWorkLoad
  BY RequestTypes
<1> QED BY <1>1, PostedValue DEF Refused

(* POST and create notification, up to Enforce.                            *)
LEMMA BeginCreateKeeps ==
  ASSUME ManagerInv, NEW t \in Threads \ {Validator}, NEW w \in RDTWorkLoad, BeginCreate(t, w)
  PROVE  ManagerInv'
<1>1. mbaValue' \in Nat
  <2>1. CASE UsesMba(w)
    <3>1. w.mba # NoMba /\ ReachesMba(w)
      BY <2>1 DEF BeginCreate, Validate, validate, UsesMba
    <3> QED BY <2>1, <3>1, PostedValue, RacingValues DEF BeginCreate
  <2>2. CASE ~UsesMba(w)
    BY <2>2 DEF BeginCreate, ManagerInv, TypeOK
  <2> QED BY <2>1, <2>2
<1>2. requests' \in 0 .. MaxRequests
  BY BoundsAssumption DEF BeginCreate, Count, ManagerInv, TypeOK
<1>3. ThreadsGood'
  <2>1. FilledByPolicy(w) \in RDTWorkLoad
    BY Filled DEF SameButParams
  <2> QED BY <2>1, GoodLocals, GotoKeeps DEF BeginCreate, ManagerInv
<1> QED BY <1>1, <1>2, <1>3 DEF BeginCreate, ManagerInv, TypeOK, ThreadsGood, RowsKeyed

(* A POST that is refused.                                                 *)
LEMMA RefuseNewKeeps ==
  ASSUME ManagerInv, NEW t, RefuseNew(t)
  PROVE  ManagerInv'
<1>1. PICK r \in Requests, id \in PostIds \cup {NoId} :
        /\ Refused(NewRDTWorkLoad(r, id, NoUUID, "REST"))
        /\ mbaValue' = NewRDTWorkLoad(r, id, NoUUID, "REST").mba[rdt.mode]
  BY DEF RefuseNew
<1>2. NewRDTWorkLoad(r, id, NoUUID, "REST") \in RDTWorkLoad
  BY RequestTypes
<1>3. mbaValue' \in Nat
  BY <1>1, <1>2, PostedValue DEF Refused
<1>4. UNCHANGED <<pool, rdt, alive, db, thread, phase, boot, requests, crashes, resets>>
  BY DEF RefuseNew
<1> QED BY <1>3, <1>4 DEF ManagerInv, TypeOK, ThreadsGood, RowsKeyed, GoodLocal

(* DELETE and delete notification, up to Release.                          *)
LEMMA BeginDeleteKeeps ==
  ASSUME ManagerInv, NEW t \in Threads \ {Validator}, NEW w \in RDTWorkLoad \cup {NoRow},
         NEW origin, BeginDelete(t, w, origin)
  PROVE  ManagerInv'
<1>1. w \in RDTWorkLoad
  BY DEF BeginDelete
<1>2. ThreadsGood'
  BY <1>1, GoodLocals, GotoKeeps DEF BeginDelete, ManagerInv
<1> QED BY <1>2 DEF BeginDelete, ManagerInv, TypeOK, ThreadsGood, RowsKeyed

(* What handlers read from the database are rows.                          *)
LEMMA RowsRead ==
  ASSUME ManagerInv
  PROVE  /\ \A i \in Ids : GetWorkloadByID(db, i) \in RDTWorkLoad \cup {NoRow}
         /\ \A u \in UUIDs : GetWorkloadByUUID(db, u) \in RDTWorkLoad \cup {NoRow}
<1>1. db \in Database
  BY DEF ManagerInv, TypeOK
<1> QED BY <1>1, DatabaseFields DEF GetWorkloadByID, GetWorkloadByUUID

(* The choices of an Enforce are good.                                     *)
LEMMA ChoicesGood ==
  ASSUME NEW w, NEW living, NEW v, NEW c \in Choices(w, living, v)
  PROVE  GoodChoice(w, c)
<1>1. PICK o \in Orders, g \in Prefixes(w.tasks, living), p \in PluginResults(w),
           x \in IF ~UsesMba(w) THEN {[seen |-> Seen(v, {}), set |-> {}]}
                 ELSE UNION {{[seen |-> Seen(v, late), set |-> d] :
                                 d \in Reached(enforceMba(w, Seen(v, late)))} :
                               late \in IF v = mbaValue THEN {{}} ELSE SUBSET Sockets} :
        c = [order |-> o, living |-> living, got |-> g, plugin |-> p,
             seen |-> x.seen, set |-> x.set]
  BY DEF Choices
<1>2. \A values : \A d \in Reached(values) :
        d \subseteq Sockets /\ \A s \in d : values[s] \in 1 .. MbaMax
  BY DEF Reached
<1>3. /\ x.set \subseteq Sockets
      /\ \A s \in x.set : enforceMba(w, x.seen)[s] \in 1 .. MbaMax
  <2>1. CASE ~UsesMba(w)
    BY <2>1
  <2>2. CASE UsesMba(w)
    <3>1. PICK late, d : /\ d \in Reached(enforceMba(w, Seen(v, late)))
                         /\ x = [seen |-> Seen(v, late), set |-> d]
      BY <2>2
    <3>2. x.seen = Seen(v, late) /\ x.set = d
      BY <3>1
    <3> QED BY <1>2, <3>1, <3>2
  <2> QED BY <2>1, <2>2
<1>4. c.order = o /\ c.seen = x.seen /\ c.set = x.set
  BY <1>1
<1> QED BY <1>3, <1>4 DEF GoodChoice

(* What an Enforce of workload w does to the pool and the masks.           *)
EnforceChanges(w) ==
  \/ pool' = pool /\ rdt'.mask = rdt.mask
  \/ /\ CacheOf(w).max = 0 /\ UsesMba(w) /\ GetSharedCLOS(pool).ok
     /\ pool' = GetSharedCLOS(pool).pool /\ rdt'.mask = rdt.mask
  \/ \E g \in PoolClos : \E r : Commits(w, r, g) /\ pool' = r.pool /\ rdt'.mask = r.rdt.mask

(* Enforce by a handler: the thread goes on with the same workload, in its *)
(* class, or is done.                                                      *)
LEMMA EnforceStepEffect ==
  ASSUME ManagerInv, NEW t \in Threads, NEW pc, NEW next, EnforceStep(t, pc, next),
         (pc = "enforce" /\ next = "create") \/ (pc = "reenforce" /\ next = "store")
  PROVE  /\ t # Validator /\ phase = "up" /\ thread[t].w \in RDTWorkLoad /\ thread[t].pc = pc
         /\ rdt' \in Platform /\ rdt'.mode = rdt.mode /\ Sound(pool')
         /\ alive' \subseteq alive /\ mbaValue' \in Nat
         /\ \/ Goto(t, Idle)
            \/ \E u \in RDTWorkLoad : /\ u.id = thread[t].w.id /\ u.mba = thread[t].w.mba
                                      /\ u.tasks = thread[t].w.tasks
                                      /\ u.policy = thread[t].w.policy
                                      /\ \/ Goto(t, At(next, u))
                                         \/ next = "create" /\ Goto(t, At("undo", u))
         /\ EnforceChanges(thread[t].w)
<1> DEFINE w == thread[t].w
<1>1. /\ t # Validator /\ phase = "up" /\ w \in RDTWorkLoad /\ thread[t].pc = pc
  <2>1. pc \in PCs \ {"idle", "scan"} /\ Running(t, pc)
    BY DEF PCs, EnforceStep
  <2> QED BY <2>1, HandlerRuns DEF ManagerInv, Running
<1>2. PICK dying, v, c :
        /\ dying \in SUBSET Dying(w) /\ v \in {mbaValue} \cup Racing(t)
        /\ c \in Choices(w, alive \ dying, v)
        /\ pool' = Enforce(w, c).pool
        /\ rdt' = WithoutTasks(Enforce(w, c).rdt, dying)
        /\ alive' = alive \ dying
        /\ mbaValue' = v
        /\ Goto(t, AfterEnforce(t, Enforce(w, c).status, Enforce(w, c).w, next))
  BY DEF EnforceStep
<1> DEFINE r == Enforce(w, c)
<1>3. mbaValue' \in Nat
  BY <1>2, RacingValues DEF ManagerInv, TypeOK
<1>4. Sound(pool) /\ rdt \in Platform
  BY DEF ManagerInv, TypeOK
<1>5. GoodChoice(w, c)
  BY <1>2, ChoicesGood
<1> HIDE DEF w
<1>6. \/ r.w = w /\ r.pool = pool /\ r.rdt = rdt
      \/ /\ UseCache(w) /\ Type(w) = "shared" /\ UsesMba(w) /\ GetSharedCLOS(pool).ok
         /\ r.w = w /\ r.pool = GetSharedCLOS(pool).pool /\ r.rdt = rdt /\ r.status = "failed"
      \/ \E g \in PoolClos : UseCache(w) /\ r.w = [w EXCEPT !.cos = g] /\ Commits(w, r, g)
  BY <1>1, <1>4, <1>5, EnforceOutcomes
<1> HIDE DEF r
<1>7. /\ r.rdt \in Platform /\ r.rdt.mode = rdt.mode /\ Sound(r.pool)
      /\ r.w \in RDTWorkLoad /\ r.w.id = w.id /\ r.w.mba = w.mba /\ r.w.tasks = w.tasks
      /\ r.w.policy = w.policy
  <2>1. CASE r.w = w /\ r.pool = pool /\ r.rdt = rdt
    BY <1>1, <1>4, <2>1
  <2>2. CASE /\ GetSharedCLOS(pool).ok
             /\ r.w = w /\ r.pool = GetSharedCLOS(pool).pool /\ r.rdt = rdt
    BY <1>1, <1>4, <2>2, SharedSound
  <2>3. ASSUME NEW g \in PoolClos, r.w = [w EXCEPT !.cos = g], Commits(w, r, g)
        PROVE  /\ r.rdt \in Platform /\ r.rdt.mode = rdt.mode /\ Sound(r.pool)
               /\ r.w \in RDTWorkLoad /\ r.w.id = w.id /\ r.w.mba = w.mba
               /\ r.w.tasks = w.tasks /\ r.w.policy = w.policy
    <3>1. PICK h \in Platform : r.rdt = SetOSGroup(h, r.pool) /\ h.mode = rdt.mode /\ Sound(r.pool)
      BY <2>3 DEF Commits
    <3>2. r.rdt \in Platform /\ r.rdt.mode = rdt.mode
      BY <3>1, SetOSGroupEffect
    <3> QED BY <1>1, <2>3, <3>1, <3>2, WithClos
  <2> QED BY <1>6, <2>1, <2>2, <2>3
<1>8. rdt' \in Platform /\ rdt'.mask = r.rdt.mask /\ rdt'.mode = r.rdt.mode
  BY <1>2, <1>7, DeallocateEffect DEF r
<1>9. UseCache(w) /\ Type(w) = "shared" => CacheOf(w).max = 0
  BY <1>1, WorkloadWays DEF UseCache, MaxWays
<1>10. EnforceChanges(w)
  BY <1>2, <1>6, <1>8, <1>9 DEF EnforceChanges, r
<1>11. \/ Goto(t, Idle)
       \/ Goto(t, At(next, r.w))
       \/ next = "create" /\ Goto(t, At("undo", r.w))
  BY <1>2 DEF AfterEnforce, r
<1> QED BY <1>1, <1>2, <1>3, <1>7, <1>8, <1>10, <1>11 DEF w, r

(* What a Release of workload w does to the pool and the masks.            *)
ReleaseChanges(w) ==
  \E h \in Platform :
     /\ h.mask = rdt.mask /\ h.mode = rdt.mode
     /\ \/ pool' = pool /\ rdt' = h
        \/ pool' = pool /\ rdt' = SetOSGroup(h, pool)
        \/ w.cos \in PoolClos /\ pool' = ReturnClos(pool, w.cos) /\ rdt' = h
        \/ /\ w.cos \in PoolClos /\ pool' = ReturnClos(pool, w.cos)
           /\ rdt' = SetOSGroup(ResetCOSParamsToDefaults(h, w.cos), pool')

(* Release by a handler.                                                   *)
LEMMA ReleaseStepEffect ==
  ASSUME ManagerInv, NEW t \in Threads, NEW pc \in {"release", "update"}, NEW done,
         ReleaseStep(t, pc, done)
  PROVE  /\ t # Validator /\ phase = "up" /\ thread[t].w \in RDTWorkLoad /\ thread[t].pc = pc
         /\ rdt' \in Platform /\ rdt'.mode = rdt.mode /\ Sound(pool')
         /\ Goto(t, done) \/ Goto(t, Idle)
         /\ ReleaseChanges(thread[t].w)
<1> DEFINE w == thread[t].w
<1>1. /\ t # Validator /\ phase = "up" /\ w \in RDTWorkLoad /\ thread[t].pc = pc
  <2>1. pc \in PCs \ {"idle", "scan"} /\ Running(t, pc)
    BY DEF PCs, ReleaseStep
  <2> QED BY <2>1, HandlerRuns DEF ManagerInv, Running
<1>2. PICK got, plugin : /\ pool' = Release(w, got, plugin).pool
                         /\ rdt' = Release(w, got, plugin).rdt
                         /\ Goto(t, done) \/ Goto(t, Idle)
  BY DEF ReleaseStep
<1>3. Sound(pool) /\ rdt \in Platform
  BY DEF ManagerInv, TypeOK
<1> HIDE DEF w
<1>4. ReleaseChanges(w)
  BY <1>1, <1>2, <1>3, ReleaseOutcomes DEF ReleaseChanges
<1>5. PICK h \in Platform :
        /\ h.mask = rdt.mask /\ h.mode = rdt.mode
        /\ \/ pool' = pool /\ rdt' = h
           \/ pool' = pool /\ rdt' = SetOSGroup(h, pool)
           \/ w.cos \in PoolClos /\ pool' = ReturnClos(pool, w.cos) /\ rdt' = h
           \/ /\ w.cos \in PoolClos /\ pool' = ReturnClos(pool, w.cos)
              /\ rdt' = SetOSGroup(ResetCOSParamsToDefaults(h, w.cos), pool')
  BY <1>4 DEF ReleaseChanges
<1>6. Sound(pool')
  BY <1>3, <1>5, ReturnSound DEF ClosName
<1>7. rdt' \in Platform /\ rdt'.mode = rdt.mode
  BY <1>5, SetOSGroupEffect, ResetEffect
<1> QED BY <1>1, <1>2, <1>4, <1>6, <1>7 DEF w

(* New members are committed to the class, with the mask that it has.      *)
LEMMA CommitMembersEffect ==
  ASSUME rdt \in Platform, NEW w \in RDTWorkLoad, NEW p, CanCommit(w, p),
         NEW e, e = CommitMembers(w, p)
  PROVE  e \in Platform /\ e.mask = rdt.mask /\ e.mode = rdt.mode
<1> DEFINE g     == w.cos
           tasks == (MembersOf(rdt, g) \cap Tasks) \cup p.tasks
           cores == IF p.cores # {} THEN p.cores ELSE MembersOf(rdt, g) \cap Cores
           no    == FALSE
           res   == [mask |-> rdt.mask[g], tasks |-> tasks, cores |-> cores, useMba |-> no,
                     mb |-> <<>>]
<1>1. g \in PoolClos /\ g \in Group
  BY PoolGroups DEF CanCommit, Visible, RDTWorkLoad, ClosName
<1>2. e = AllocateCLOS(rdt, g, res, alive, {})
  BY DEF CommitMembers, ResAssociation
<1>3. WellFormed(res) /\ res.mask = rdt.mask[g]
  <2>1. rdt.mask[g] \in Mask
    BY <1>1, PlatformFields
  <2>2. no \in BOOLEAN /\ DOMAIN <<>> = {}
    OBVIOUS
  <2> HIDE DEF tasks, cores, no, g
  <2>3. res.mask = rdt.mask[g] /\ res.useMba = no /\ res.mb = <<>>
    OBVIOUS
  <2> HIDE DEF res
  <2> QED BY <2>1, <2>2, <2>3 DEF WellFormed
<1> HIDE DEF res
<1>4. /\ e \in Platform /\ e.mode = rdt.mode /\ e.mask[g] = rdt.mask[g]
      /\ \A x \in Group \ {g} : e.mask[x] = rdt.mask[x]
  BY <1>1, <1>2, <1>3, AllocateEffect
<1>5. e.mask \in [Group -> Mask] /\ rdt.mask \in [Group -> Mask]
  BY <1>4, PlatformFields
<1> QED BY <1>4, <1>5

(* A PATCH that re-enforces nothing.                                       *)
LEMMA UpdateMembersEffect ==
  ASSUME ManagerInv, NEW t \in Threads, UpdateMembers(t)
  PROVE  /\ t # Validator /\ phase = "up" /\ thread[t].pc = "update" /\ thread[t].w \in RDTWorkLoad
         /\ rdt' \in Platform /\ rdt'.mask = rdt.mask /\ rdt'.mode = rdt.mode
         /\ mbaValue' \in Nat
         /\ \/ Goto(t, Idle)
            \/ \E u \in RDTWorkLoad : /\ u.id = thread[t].w.id /\ u.mba = thread[t].w.mba
                                      /\ thread[t].patch.tasks = {} => u.tasks = thread[t].w.tasks
                                      /\ u.policy = Merged(thread[t].w, thread[t].patch).policy
                                      /\ Goto(t, At("store", u))
<1> DEFINE w == thread[t].w
           p == thread[t].patch
<1>1. /\ t # Validator /\ phase = "up" /\ w \in RDTWorkLoad /\ thread[t].pc = "update"
      /\ p \in Request /\ rdt \in Platform
  <2>1. "update" \in PCs \ {"idle", "scan"} /\ Running(t, "update")
    BY DEF PCs, UpdateMembers
  <2> QED BY <2>1, HandlerRuns DEF ManagerInv, TypeOK, Running
<1>2. mbaValue' \in Nat
  <2> DEFINE v == PatchAsWorkload(w, p)
  <2>1. \/ p.mba # NoMba /\ ReachesMba(v) /\ mbaValue' = p.mba[rdt.mode]
        \/ mbaValue' = mbaValue
    BY DEF UpdateMembers
  <2>2. v \in RDTWorkLoad /\ v.mba = p.mba
    <3>1. w.id \in Ids \cup {NoId}
      BY <1>1 DEF RDTWorkLoad
    <3> QED BY <1>1, <3>1, NewWorkloadType DEF PatchAsWorkload
  <2> HIDE DEF v, p
  <2> QED BY <2>1, <2>2, PostedValue DEF ManagerInv, TypeOK
<1>3. /\ ~reEnforce(w, p)
      /\ \/ rdt' = rdt /\ Goto(t, At("store", Merged(w, p)))
         \/ /\ CanCommit(w, p) /\ rdt' = CommitMembers(w, p)
            /\ Goto(t, At("store", WithMembers(Merged(w, p), p)))
         \/ rdt' = rdt /\ Goto(t, Idle)
  BY DEF UpdateMembers
<1> HIDE DEF w, p
<1>4. rdt' \in Platform /\ rdt'.mask = rdt.mask /\ rdt'.mode = rdt.mode
  BY <1>1, <1>3, CommitMembersEffect
<1>5. /\ Merged(w, p) \in RDTWorkLoad /\ Merged(w, p).id = w.id
      /\ Merged(w, p).mba = w.mba /\ Merged(w, p).tasks = w.tasks
  BY <1>1, <1>3, MergedParams, QuietPatch DEF SameButParams
<1>6. LET u == WithMembers(Merged(w, p), p)
      IN  /\ u \in RDTWorkLoad /\ u.id = w.id /\ u.mba = w.mba
          /\ p.tasks = {} => u.tasks = w.tasks
          /\ u.policy = Merged(w, p).policy
  BY <1>1, <1>5, PatchedParams
<1> QED BY <1>1, <1>2, <1>3, <1>4, <1>5, <1>6 DEF w, p

(* An Enforce that returns keeps ManagerInv.                               *)
LEMMA EnforceStepKeeps ==
  ASSUME ManagerInv, NEW t \in Threads, NEW pc, NEW next, EnforceStep(t, pc, next),
         (pc = "enforce" /\ next = "create") \/ (pc = "reenforce" /\ next = "store")
  PROVE  ManagerInv'
<1>1. UNCHANGED <<db, phase, boot, requests, crashes, resets>>
  BY DEF EnforceStep
<1>2. /\ rdt' \in Platform /\ Sound(pool') /\ alive' \subseteq alive /\ mbaValue' \in Nat
  BY EnforceStepEffect
<1>3. pc = "reenforce" => thread[t].w.id \in Ids
  <2>1. pc \in PCs \ {"idle", "scan"} /\ Running(t, pc)
    BY DEF PCs, EnforceStep
  <2> QED BY <2>1, HandlerRuns DEF ManagerInv
<1>4. ThreadsGood'
  <2>1. t # Validator
    BY EnforceStepEffect
  <2>2. \/ Goto(t, Idle)
        \/ \E u \in RDTWorkLoad : /\ u.id = thread[t].w.id
                                  /\ \/ Goto(t, At(next, u))
                                     \/ next = "create" /\ Goto(t, At("undo", u))
    BY EnforceStepEffect
  <2>3. CASE Goto(t, Idle)
    BY <2>3, GoodLocals, GotoKeeps DEF ManagerInv
  <2>4. ASSUME NEW u \in RDTWorkLoad, u.id = thread[t].w.id,
               Goto(t, At(next, u)) \/ (next = "create" /\ Goto(t, At("undo", u)))
        PROVE  ThreadsGood'
    <3>1. GoodLocal(t, At(next, u)) /\ GoodLocal(t, At("undo", u))
      BY <1>3, <2>1, <2>4, GoodLocals
    <3> QED BY <2>4, <3>1, GotoKeeps DEF ManagerInv
  <2> QED BY <2>2, <2>3, <2>4
<1> QED BY <1>1, <1>2, <1>4 DEF ManagerInv, TypeOK, ThreadsGood, RowsKeyed, Sound

(* Enforce keeps ManagerInv.                                               *)
LEMMA EnforceKeeps ==
  ASSUME ManagerInv, NEW t \in Threads, EnforceNew(t) \/ EnforcePatched(t) \/ EnforceEnds(t)
  PROVE  ManagerInv'
<1>1. CASE EnforceNew(t) \/ EnforcePatched(t)
  <2>1. EnforceStep(t, "enforce", "create") \/ EnforceStep(t, "reenforce", "store")
    BY <1>1 DEF EnforceNew, EnforcePatched
  <2> QED BY <2>1, EnforceStepKeeps
<1>2. CASE EnforceEnds(t)
  <2>1. Down /\ UNCHANGED <<rdt, alive, db, requests, crashes, resets>>
    BY <1>2 DEF EnforceEnds
  <2> QED BY <2>1, DownKeeps DEF ManagerInv, TypeOK, ThreadsGood, RowsKeyed, Sound
<1> QED BY <1>1, <1>2

(* The transactions of handlers keep ManagerInv.                           *)
LEMMA StoreKeeps ==
  ASSUME ManagerInv, NEW t \in Threads,
         Create(t) \/ UndoNew(t) \/ DeleteOld(t) \/ updateInDB(t)
  PROVE  ManagerInv'
<1> DEFINE w == thread[t].w
<1>1. ThreadsGood'
  BY GoodLocals, GotoKeeps DEF Create, UndoNew, DeleteOld, DeleteStep, updateInDB, ManagerInv
<1>2. UNCHANGED <<pool, rdt, alive, mbaValue, phase, boot, requests, crashes, resets>>
  BY DEF Create, UndoNew, DeleteOld, DeleteStep, updateInDB
<1>3. w \in RDTWorkLoad /\ db \in Database
  <2>1. \E pc \in PCs \ {"idle", "scan"} : Running(t, pc)
    BY DEF Create, UndoNew, DeleteOld, DeleteStep, updateInDB, PCs
  <2> QED BY <2>1, HandlerRuns DEF ManagerInv, TypeOK
<1>4. CASE Create(t)
  <2>1. NextIdExists(db, w) /\ db' = CreateWorkload(db, w)
    BY <1>4 DEF Create
  <2> HIDE DEF w
  <2>2. PICK k : k = CreatedId(db, w)
    OBVIOUS
  <2>3. /\ db' \in Database /\ RowIds(db') = RowIds(db) \cup {k} /\ db'.rows[k].id = k
        /\ \A i \in Ids \ {k} : db'.rows[i] = db.rows[i]
    BY <1>3, <2>1, <2>2, CreateEffect
  <2>4. RowsKeyed'
    BY <2>3 DEF ManagerInv, RowsKeyed, RowIds
  <2> QED BY <1>1, <1>2, <2>3, <2>4 DEF ManagerInv, TypeOK, ThreadsGood, Sound
<1>5. CASE UndoNew(t) \/ DeleteOld(t)
  <2>1. db' = DeleteWorkload(db, w)
    BY <1>5 DEF UndoNew, DeleteOld, DeleteStep
  <2> HIDE DEF w
  <2>2. /\ db' \in Database /\ RowIds(db') \subseteq RowIds(db)
        /\ \A i \in RowIds(db') : db'.rows[i] = db.rows[i]
    BY <1>3, <2>1, DeleteEffect
  <2>3. RowsKeyed'
    BY <2>2 DEF ManagerInv, RowsKeyed
  <2> QED BY <1>1, <1>2, <2>2, <2>3 DEF ManagerInv, TypeOK, ThreadsGood, Sound
<1>6. CASE updateInDB(t)
  <2>1. db' = UpdateWorkload(db, w)
    BY <1>6 DEF updateInDB
  <2>2. w.id \in Ids
    <3>1. "store" \in PCs \ {"idle", "scan"} /\ Running(t, "store")
      BY <1>6 DEF PCs, updateInDB
    <3> QED BY <3>1, HandlerRuns DEF ManagerInv
  <2>3. w.id # NoId
    BY <2>2, IdsAssumption DEF Ids
  <2> HIDE DEF w
  <2>4. /\ db' \in Database /\ RowIds(db') = RowIds(db) \cup {w.id} /\ db'.rows[w.id] = w
        /\ \A i \in Ids \ {w.id} : db'.rows[i] = db.rows[i]
    BY <1>3, <2>1, <2>3, UpdateEffect
  <2>5. RowsKeyed'
    BY <2>2, <2>4 DEF ManagerInv, RowsKeyed, RowIds
  <2> QED BY <1>1, <1>2, <2>4, <2>5 DEF ManagerInv, TypeOK, ThreadsGood, Sound
<1> QED BY <1>4, <1>5, <1>6

(* DELETE, and the Release of a PATCH, keep ManagerInv.                    *)
LEMMA ReleaseKeeps ==
  ASSUME ManagerInv, NEW t \in Threads, ReleaseOld(t) \/ ReleaseForPatch(t)
  PROVE  ManagerInv'
<1>1. UNCHANGED <<alive, db, phase, boot, requests, crashes, resets>>
  BY DEF ReleaseOld, ReleaseForPatch, ReleaseStep
<1>2. GoodLocal(t, thread[t])
  BY DEF ManagerInv, ThreadsGood
<1>3. CASE ReleaseOld(t)
  <2> DEFINE done == [thread[t] EXCEPT !.pc = "delete"]
  <2>1. ReleaseStep(t, "release", done) /\ mbaValue' = mbaValue
    BY <1>3 DEF ReleaseOld
  <2>2. t # Validator /\ thread[t].w \in RDTWorkLoad
    BY <2>1, ReleaseStepEffect
  <2>3. done \in Thread /\ done.pc = "delete" /\ done.w = thread[t].w
    BY <1>2 DEF GoodLocal, Thread, PCs
  <2>4. GoodLocal(t, done) /\ GoodLocal(t, Idle)
    BY <2>2, <2>3, GoodLocals DEF GoodLocal
  <2> HIDE DEF done
  <2>5. rdt' \in Platform /\ Sound(pool') /\ (Goto(t, done) \/ Goto(t, Idle))
    BY <2>1, ReleaseStepEffect
  <2>6. ThreadsGood'
    BY <2>4, <2>5, GotoKeeps DEF ManagerInv
  <2> QED BY <1>1, <2>1, <2>5, <2>6 DEF ManagerInv, TypeOK, ThreadsGood, RowsKeyed, Sound
<1>4. CASE ReleaseForPatch(t)
  <2> DEFINE done == At("reenforce", Patched(thread[t].w, thread[t].patch))
  <2>1. /\ ReleaseStep(t, "update", done) /\ ~MbaRefused(thread[t].patch)
        /\ mbaValue' = PatchedMbaValue(thread[t].w, thread[t].patch)
    BY <1>4 DEF ReleaseForPatch
  <2>2. /\ t # Validator /\ thread[t].w \in RDTWorkLoad /\ thread[t].pc = "update"
        /\ rdt' \in Platform /\ Sound(pool') /\ (Goto(t, done) \/ Goto(t, Idle))
    BY <2>1, ReleaseStepEffect
  <2>3. thread[t].patch \in Request /\ thread[t].w.id \in Ids
    BY <1>2, <2>2, RequestsAssumption DEF GoodLocal
  <2>4. mbaValue' \in Nat
    BY <2>1, <2>2, <2>3, PatchedValue
  <2>5. GoodLocal(t, done) /\ GoodLocal(t, Idle)
    <3>1. /\ Patched(thread[t].w, thread[t].patch) \in RDTWorkLoad
          /\ Patched(thread[t].w, thread[t].patch).id \in Ids
      BY <2>2, <2>3, PatchedParams
    <3> QED BY <2>2, <3>1, GoodLocals
  <2> HIDE DEF done
  <2>6. ThreadsGood'
    BY <2>2, <2>5, GotoKeeps DEF ManagerInv
  <2> QED BY <1>1, <2>2, <2>4, <2>6 DEF ManagerInv, TypeOK, ThreadsGood, RowsKeyed, Sound
<1> QED BY <1>3, <1>4

(* The locals of a thread that scans.                                      *)
LEMMA ScanLocals ==
  ASSUME ManagerInv, NEW t \in Threads, NEW ws \in Snapshot,
         thread[t].pc = IF t = Validator THEN "idle" ELSE "lock"
  PROVE  GoodLocal(t, [thread[t] EXCEPT !.pc = "scan", !.ws = ws])
<1> DEFINE x == [thread[t] EXCEPT !.pc = "scan", !.ws = ws]
<1>1. GoodLocal(t, thread[t])
  BY DEF ManagerInv, ThreadsGood
<1>2. x \in Thread /\ x.pc = "scan" /\ x.w = thread[t].w /\ x.patch = thread[t].patch
  BY <1>1 DEF GoodLocal, Thread, PCs
<1> HIDE DEF x
<1>3. GoodLocal(t, x)
  BY <1>1, <1>2 DEF GoodLocal
<1> QED BY <1>3 DEF x

(* A scan deletes rows, and keeps ManagerInv.                              *)
LEMMA ScanRowEffect ==
  ASSUME ManagerInv, NEW t \in Threads, ScanRow(t)
  PROVE  /\ db' \in Database /\ RowIds(db') \subseteq RowIds(db)
         /\ \A i \in RowIds(db') : db'.rows[i] = db.rows[i]
         /\ \E ws \in Snapshot : Goto(t, [thread[t] EXCEPT !.ws = ws])
<1>1. PICK i \in Ids :
        /\ First(thread[t].ws, i)
        /\ db' = IF shouldRemoveWorkload(thread[t].ws[i])
                 THEN DeleteWorkload(db, thread[t].ws[i]) ELSE db
        /\ Goto(t, [thread[t] EXCEPT !.ws = [@ EXCEPT ![i] = NoRow]])
  BY DEF ScanRow
<1>2. thread[t].ws \in Snapshot /\ db \in Database
  BY DEF ManagerInv, TypeOK, Thread
<1>3. thread[t].ws[i] \in RDTWorkLoad
  BY <1>1, <1>2 DEF First, Snapshot
<1>4. /\ db' \in Database /\ RowIds(db') \subseteq RowIds(db)
      /\ \A j \in RowIds(db') : db'.rows[j] = db.rows[j]
  BY <1>1, <1>2, <1>3, DeleteEffect
<1>5. [thread[t].ws EXCEPT ![i] = NoRow] \in Snapshot
  BY <1>2 DEF Snapshot
<1> QED BY <1>1, <1>4, <1>5

(* dbContentValidation keeps ManagerInv.                                   *)
LEMMA ScanKeeps ==
  ASSUME ManagerInv, NEW t \in Threads, BeginScan(t) \/ ScanRow(t) \/ EndScan(t)
  PROVE  ManagerInv'
<1>1. UNCHANGED <<pool, rdt, alive, mbaValue, phase, boot, requests, crashes, resets>>
  BY DEF BeginScan, ScanRow, EndScan
<1>2. GoodLocal(t, thread[t]) /\ db \in Database
  BY DEF ManagerInv, ThreadsGood, TypeOK
<1>3. CASE BeginScan(t)
  <2>1. RowsWithTasks \in Snapshot
    BY <1>2, DatabaseFields DEF RowsWithTasks, Snapshot
  <2>2. /\ thread[t].pc = IF t = Validator THEN "idle" ELSE "lock"
        /\ Goto(t, [thread[t] EXCEPT !.pc = "scan", !.ws = RowsWithTasks]) /\ db' = db
    BY <1>3 DEF BeginScan, Running
  <2>3. ThreadsGood'
    BY <2>1, <2>2, ScanLocals, GotoKeeps DEF ManagerInv
  <2> QED BY <1>1, <2>2, <2>3 DEF ManagerInv, TypeOK, ThreadsGood, RowsKeyed, Sound
<1>4. CASE ScanRow(t)
  <2>1. PICK ws \in Snapshot : Goto(t, [thread[t] EXCEPT !.ws = ws])
    BY <1>4, ScanRowEffect
  <2> DEFINE x == [thread[t] EXCEPT !.ws = ws]
  <2>2. /\ x \in Thread /\ x.pc = thread[t].pc /\ x.w = thread[t].w
        /\ x.patch = thread[t].patch
    BY <1>2 DEF GoodLocal, Thread
  <2> HIDE DEF x
  <2>3. GoodLocal(t, x)
    BY <1>2, <2>2 DEF GoodLocal
  <2>4. ThreadsGood'
    BY <2>1, <2>3, GotoKeeps DEF ManagerInv, x
  <2>5. db' \in Database /\ RowsKeyed'
    BY <1>4, ScanRowEffect DEF ManagerInv, RowsKeyed
  <2> QED BY <1>1, <2>4, <2>5 DEF ManagerInv, TypeOK, ThreadsGood, Sound
<1>5. CASE EndScan(t)
  <2> DEFINE x == IF t = Validator THEN Idle ELSE [thread[t] EXCEPT !.pc = "update"]
  <2>1. Goto(t, x) /\ thread[t].pc = "scan" /\ db' = db
    BY <1>5 DEF EndScan, Running
  <2>3. GoodLocal(t, x)
    <3>1. CASE t = Validator
      BY <3>1, GoodLocals
    <3>2. CASE t # Validator
      <4>1. /\ x \in Thread /\ x.pc = "update" /\ x.w = thread[t].w
            /\ x.patch = thread[t].patch
        BY <1>2, <3>2 DEF GoodLocal, Thread, PCs
      <4> HIDE DEF x
      <4> QED BY <1>2, <2>1, <3>2, <4>1 DEF GoodLocal
    <3> QED BY <3>1, <3>2
  <2> HIDE DEF x
  <2>4. ThreadsGood'
    BY <2>1, <2>3, GotoKeeps DEF ManagerInv
  <2> QED BY <1>1, <2>1, <2>4 DEF ManagerInv, TypeOK, ThreadsGood, RowsKeyed, Sound
<1> QED BY <1>3, <1>4, <1>5

(* The other steps of a PATCH keep ManagerInv.                             *)
LEMMA PatchKeeps ==
  ASSUME ManagerInv, NEW t \in Threads,
         (t # Validator /\ Patch(t)) \/ RefusePatch(t) \/ UpdateMembers(t)
  PROVE  ManagerInv'
<1>1. CASE t # Validator /\ Patch(t)
  <2>1. PICK id \in RowIds(db), p \in Patches :
          /\ Count
          /\ Goto(t, [pc |-> "lock", w |-> db.rows[id], patch |-> p, ws |-> NoRows])
          /\ UNCHANGED <<pool, rdt, alive, db, mbaValue, phase, boot, crashes, resets>>
    BY <1>1 DEF Patch
  <2> DEFINE x == [pc |-> "lock", w |-> db.rows[id], patch |-> p, ws |-> NoRows]
  <2>2. db.rows[id] \in RDTWorkLoad /\ db.rows[id].id \in Ids /\ p \in Request
    BY DatabaseFields, RequestsAssumption DEF ManagerInv, TypeOK, RowsKeyed
  <2>3. /\ x \in Thread /\ x.pc = "lock" /\ x.w = db.rows[id] /\ x.patch = p
    BY <2>2 DEF Thread, PCs, NoRows, Snapshot
  <2> HIDE DEF x
  <2>4. GoodLocal(t, x)
    BY <1>1, <2>2, <2>3 DEF GoodLocal
  <2>5. ThreadsGood'
    BY <2>1, <2>4, GotoKeeps DEF ManagerInv, x
  <2>6. requests' \in 0 .. MaxRequests
    BY <2>1, BoundsAssumption DEF Count, ManagerInv, TypeOK
  <2> QED BY <2>1, <2>5, <2>6 DEF ManagerInv, TypeOK, ThreadsGood, RowsKeyed, Sound
<1>2. CASE RefusePatch(t)
  <2>1. /\ Running(t, "update") /\ Goto(t, Idle)
        /\ \/ mbaValue' = mbaValue
           \/ /\ ~MbaRefused(thread[t].patch)
              /\ mbaValue' = PatchedMbaValue(thread[t].w, thread[t].patch)
        /\ UNCHANGED <<pool, rdt, alive, db, phase, boot, requests, crashes, resets>>
    BY <1>2 DEF RefusePatch
  <2>2. "update" \in PCs \ {"idle", "scan"}
    BY DEF PCs
  <2>3. thread[t].patch \in Request /\ thread[t].w \in RDTWorkLoad
    BY <2>1, <2>2, HandlerRuns DEF ManagerInv
  <2>4. mbaValue' \in Nat
    BY <2>1, <2>3, PatchedValue DEF ManagerInv, TypeOK
  <2>5. ThreadsGood'
    BY <2>1, GoodLocals, GotoKeeps DEF ManagerInv
  <2> QED BY <2>1, <2>4, <2>5 DEF ManagerInv, TypeOK, ThreadsGood, RowsKeyed, Sound
<1>3. CASE UpdateMembers(t)
  <2>1. /\ t # Validator /\ thread[t].pc = "update" /\ rdt' \in Platform /\ mbaValue' \in Nat
        /\ \/ Goto(t, Idle)
           \/ \E u \in RDTWorkLoad : /\ u.id = thread[t].w.id
                                     /\ Goto(t, At("store", u))
    BY <1>3, UpdateMembersEffect
  <2>2. thread[t].w.id \in Ids
    BY <2>1 DEF ManagerInv, ThreadsGood, GoodLocal
  <2>3. ThreadsGood'
    BY <2>1, <2>2, GoodLocals, GotoKeeps DEF ManagerInv
  <2>4. UNCHANGED <<pool, alive, db, phase, boot, requests, crashes, resets>>
    BY <1>3 DEF UpdateMembers
  <2> QED BY <2>1, <2>3, <2>4 DEF ManagerInv, TypeOK, ThreadsGood, RowsKeyed, Sound
<1> QED BY <1>1, <1>2, <1>3

(* DBCheck removes rows.                                                   *)
LEMMA DBCheckEffect ==
  ASSUME NEW d \in Database, NEW e, e = DBCheck(d)
  PROVE  /\ e \in Database /\ RowIds(e) \subseteq RowIds(d)
         /\ \A i \in RowIds(e) : e.rows[i] = d.rows[i]
         /\ e.seq = d.seq
<1> DEFINE rows    == [i \in Ids |-> IF d.rows[i] # NoRow /\ d.rows[i].cos = NoClos
                                     THEN NoRow ELSE d.rows[i]]
           mapping == [u \in UUIDs |->
                         IF \E i \in RowIds(d) : d.rows[i].cos = NoClos /\ d.rows[i].uuid = u
                         THEN NoId ELSE d.mapping[u]]
<1>1. /\ d.rows \in [Ids -> RDTWorkLoad \cup {NoRow}]
      /\ d.mapping \in [UUIDs -> Ids \cup {NoId}] /\ d.seq \in 0 .. MaxSeq
      /\ d = [rows |-> d.rows, mapping |-> d.mapping, seq |-> d.seq]
  BY DEF Database
<1>2. /\ rows \in [Ids -> RDTWorkLoad \cup {NoRow}] /\ mapping \in [UUIDs -> Ids \cup {NoId}]
      /\ \A i \in Ids : rows[i] # NoRow => rows[i] = d.rows[i]
  BY <1>1
<1>3. e = [d EXCEPT !.rows = rows, !.mapping = mapping]
  BY DEF DBCheck
<1> HIDE DEF rows, mapping
<1>4. e = [rows |-> rows, mapping |-> mapping, seq |-> d.seq]
  BY <1>1, <1>3
<1>5. e \in Database /\ e.rows = rows /\ e.seq = d.seq
  BY <1>1, <1>2, <1>4 DEF Database
<1> QED BY <1>2, <1>5 DEF RowIds

(* What Init does with a row: it reserves the class, deletes the row, or   *)
(* the process ends.                                                       *)
LEMMA MarkRowEffect ==
  ASSUME ManagerInv, MarkRow
  PROVE  /\ phase = "mark" /\ UNCHANGED <<rdt, alive, requests, crashes, resets>>
         /\ \/ Down /\ db' = db
            \/ \E i \in Ids :
                 /\ boot[i] \in RDTWorkLoad /\ boot' = [boot EXCEPT ![i] = NoRow]
                 /\ boot' \in Snapshot
                 /\ UNCHANGED <<phase, thread, mbaValue>>
                 /\ Sound(pool')
                 /\ \/ pool' = pool
                    \/ \E c \in PoolClos : pool' = MarkCLOSasUsed(pool, c).pool
                 /\ db' = IF OtherMode(boot[i]) THEN DeleteWorkload(db, boot[i]) ELSE db
<1>1. phase = "mark" /\ UNCHANGED <<rdt, alive, requests, crashes, resets>>
  BY DEF MarkRow
<1>2. PICK i \in Ids :
        /\ First(boot, i)
        /\ \/ Down /\ db' = db
           \/ /\ boot' = [boot EXCEPT ![i] = NoRow]
              /\ \/ pool' = pool
                 \/ boot[i].cos # NoClos /\ pool' = MarkCLOSasUsed(pool, boot[i].cos).pool
              /\ db' = IF OtherMode(boot[i]) THEN DeleteWorkload(db, boot[i]) ELSE db
              /\ UNCHANGED <<phase, thread, mbaValue>>
  BY DEF MarkRow
<1>3. boot[i] \in RDTWorkLoad /\ [boot EXCEPT ![i] = NoRow] \in Snapshot
  BY <1>2 DEF First, ManagerInv, TypeOK, Snapshot
<1>4. boot[i].cos # NoClos => boot[i].cos \in PoolClos
  BY <1>3 DEF RDTWorkLoad, ClosName
<1>5. /\ pool' = pool => Sound(pool')
      /\ \A c \in PoolClos : pool' = MarkCLOSasUsed(pool, c).pool => Sound(pool')
  BY MarkSound DEF ManagerInv
<1> QED BY <1>1, <1>2, <1>3, <1>4, <1>5

(* The end of the process and its start keep ManagerInv.                   *)
LEMMA BootKeeps ==
  ASSUME ManagerInv,
         Crash \/ ResetAPI \/ SanityCheck \/ LoadWorkloads \/ MarkRow \/ StartServing \/ Exit
  PROVE  ManagerInv'
<1>1. rdt \in Platform /\ db \in Database /\ RowsKeyed
  BY DEF ManagerInv, TypeOK
<1>2. CASE Crash
  <2>1. Down /\ UNCHANGED <<rdt, alive, db, requests, resets>>
    BY <1>2 DEF Crash
  <2>2. crashes' \in 0 .. MaxCrashes
    BY <1>2, BoundsAssumption DEF Crash, ManagerInv, TypeOK
  <2> QED BY <2>1, <2>2, DownKeeps DEF ManagerInv, TypeOK, ThreadsGood, RowsKeyed, Sound
<1>3. CASE ResetAPI
  <2>1. UNCHANGED <<pool, alive, db, mbaValue, thread, phase, boot, requests, crashes>>
    BY <1>3 DEF ResetAPI
  <2>2. rdt' \in Platform
    BY <1>3, FreshEffect DEF ResetAPI
  <2>3. resets' \in 0 .. MaxResets
    BY <1>3, BoundsAssumption DEF ResetAPI, ManagerInv, TypeOK
  <2> QED BY <2>1, <2>2, <2>3 DEF ManagerInv, TypeOK, ThreadsGood, RowsKeyed, Sound, GoodLocal
<1>4. CASE SanityCheck
  <2>1. /\ phase' = "init"
        /\ UNCHANGED <<pool, alive, mbaValue, thread, boot, requests, crashes, resets>>
    BY <1>4 DEF SanityCheck
  <2>2. rdt' \in Platform
    BY <1>1, <1>4, SetOSGroupEffect, SetInfraGroupEffect DEF SanityCheck
  <2>3. db' \in Database /\ RowsKeyed'
    BY <1>1, <1>4, DBCheckEffect DEF SanityCheck, RowsKeyed
  <2> QED BY <2>1, <2>2, <2>3 DEF ManagerInv, TypeOK, ThreadsGood, Sound, GoodLocal
<1>5. CASE LoadWorkloads
  <2>1. /\ pool' = InitCLOSPool /\ boot' = db.rows /\ phase' = "mark"
        /\ UNCHANGED <<rdt, alive, db, mbaValue, thread, requests, crashes, resets>>
    BY <1>5 DEF LoadWorkloads
  <2>2. boot' \in Snapshot
    BY <1>1, <2>1, DatabaseFields DEF Snapshot
  <2> QED BY <2>1, <2>2, InitSound DEF ManagerInv, TypeOK, ThreadsGood, RowsKeyed, Sound, GoodLocal
<1>6. CASE MarkRow
  <2>1. UNCHANGED <<rdt, alive, requests, crashes, resets>>
    BY <1>6, MarkRowEffect
  <2>2. CASE Down /\ db' = db
    BY <2>1, <2>2, DownKeeps DEF ManagerInv, TypeOK, ThreadsGood, RowsKeyed, Sound
  <2>3. ASSUME NEW i \in Ids, boot[i] \in RDTWorkLoad, boot' \in Snapshot, Sound(pool'),
               UNCHANGED <<phase, thread, mbaValue>>,
               db' = IF OtherMode(boot[i]) THEN DeleteWorkload(db, boot[i]) ELSE db
        PROVE  ManagerInv'
    <3>1. /\ db' \in Database /\ RowIds(db') \subseteq RowIds(db)
          /\ \A j \in RowIds(db') : db'.rows[j] = db.rows[j]
      BY <1>1, <2>3, DeleteEffect
    <3>2. RowsKeyed'
      BY <1>1, <3>1 DEF RowsKeyed
    <3> QED BY <2>1, <2>3, <3>1, <3>2 DEF ManagerInv, TypeOK, ThreadsGood, Sound, GoodLocal
  <2> QED BY <1>6, <2>2, <2>3, MarkRowEffect
<1>7. CASE StartServing
  BY <1>7 DEF StartServing, ManagerInv, TypeOK, ThreadsGood, RowsKeyed, Sound, GoodLocal
<1>8. CASE Exit
  <2>1. /\ alive' \subseteq alive
        /\ UNCHANGED <<pool, db, mbaValue, thread, phase, boot, requests, crashes, resets>>
    BY <1>8 DEF Exit, TaskExit
  <2>2. rdt' \in Platform
    BY <1>1, <1>8, DeallocateEffect DEF Exit, TaskExit
  <2> QED BY <2>1, <2>2 DEF ManagerInv, TypeOK, ThreadsGood, RowsKeyed, Sound, GoodLocal
<1> QED BY <1>2, <1>3, <1>4, <1>5, <1>6, <1>7, <1>8

(* The state before the first request.                                     *)
LEMMA InitManager ==
  Init => ManagerInv /\ rdt = SetInfraGroup(SetOSGroup(FreshPlatform("percentage"), pool))
<1> SUFFICES ASSUME Init
             PROVE  /\ ManagerInv
                    /\ rdt = SetInfraGroup(SetOSGroup(FreshPlatform("percentage"), pool))
  OBVIOUS
<1>1. Sound(pool) /\ rdt = SetInfraGroup(SetOSGroup(FreshPlatform("percentage"), pool))
  BY InitSound DEF Init
<1>2. rdt \in Platform
  <2>1. FreshPlatform("percentage") \in Platform
    BY FreshEffect DEF MbaMode
  <2> QED BY <1>1, <2>1, SetOSGroupEffect, SetInfraGroupEffect
<1>3. db \in Database /\ RowsKeyed /\ boot \in Snapshot
  <2>1. EmptyDatabase \in Database /\ RowIds(EmptyDatabase) = {}
    BY IdsAssumption DEF EmptyDatabase, Database, RowIds
  <2> QED BY <2>1 DEF Init, RowsKeyed, NoRows, Snapshot
<1>4. ThreadsGood
  <2>1. thread = [t \in Threads |-> Idle]
    BY DEF Init
  <2>2. \A t \in Threads : GoodLocal(t, Idle)
    BY GoodLocals
  <2> QED BY <2>1, <2>2 DEF ThreadsGood, GoodLocal
<1> QED BY <1>1, <1>2, <1>3, <1>4, BoundsAssumption DEF Init, ManagerInv, TypeOK, ThreadsGood, Sound

(* Every step keeps ManagerInv.                                            *)
LEMMA NextKeepsManager == ManagerInv /\ [Next]_vars => ManagerInv'
<1> SUFFICES ASSUME ManagerInv, [Next]_vars PROVE ManagerInv'
  OBVIOUS
<1>1. CASE UNCHANGED vars
  BY <1>1 DEF vars, ManagerInv, TypeOK, ThreadsGood, RowsKeyed, Sound, GoodLocal
<1>2. \A t \in Clients : t \in Threads \ {Validator}
  BY ThreadsAssumption DEF Threads
<1>3. Nova \in Threads \ {Validator} /\ Validator \in Threads
  BY ThreadsAssumption DEF Threads
<1>4. ASSUME NEW t \in Clients, NewWorkload(t) \/ RefuseNew(t) \/ DeleteByID(t) \/ Patch(t)
      PROVE  ManagerInv'
  <2>1. CASE NewWorkload(t)
    BY <1>2, <2>1, RequestTypes, BeginCreateKeeps DEF NewWorkload
  <2>2. CASE RefuseNew(t)
    BY <2>2, RefuseNewKeeps
  <2>3. CASE DeleteByID(t)
    BY <1>2, <2>3, RowsRead, BeginDeleteKeeps DEF DeleteByID
  <2>4. CASE Patch(t)
    BY <1>2, <2>4, PatchKeeps
  <2> QED BY <1>4, <2>1, <2>2, <2>3, <2>4
<1>5. CASE processCreateNotification
  BY <1>3, <1>5, RequestTypes, BeginCreateKeeps DEF processCreateNotification
<1>6. CASE processDeleteNotification
  BY <1>3, <1>6, RowsRead, BeginDeleteKeeps DEF processDeleteNotification
<1>7. CASE BeginScan(Validator)
  BY <1>3, <1>7, ScanKeeps
<1>8. ASSUME NEW t \in Threads, Continue(t)
      PROVE  ManagerInv'
  <2>1. CASE EnforceNew(t) \/ EnforceEnds(t) \/ EnforcePatched(t)
    BY <2>1, EnforceKeeps
  <2>2. CASE Create(t) \/ UndoNew(t) \/ DeleteOld(t) \/ updateInDB(t)
    BY <2>2, StoreKeeps
  <2>3. CASE ReleaseOld(t) \/ ReleaseForPatch(t)
    BY <2>3, ReleaseKeeps
  <2>4. CASE BeginScan(t) \/ ScanRow(t) \/ EndScan(t)
    BY <2>4, ScanKeeps
  <2>5. CASE RefusePatch(t) \/ UpdateMembers(t)
    BY <2>5, PatchKeeps
  <2> QED BY <1>8, <2>1, <2>2, <2>3, <2>4, <2>5 DEF Continue
<1>9. CASE Crash \/ ResetAPI \/ Start \/ Exit
  BY <1>9, BootKeeps DEF Start
<1> QED BY <1>1, <1>4, <1>5, <1>6, <1>7, <1>8, <1>9 DEF Next

(* The types, for any constants.                                           *)
LEMMA ManagerInvHolds == Spec => []ManagerInv
<1>1. Init => ManagerInv
  BY InitManager
<1> QED BY <1>1, NextKeepsManager, PTL DEF Spec

(* The state of the manager always has its types, whatever requests are    *)
(* in flight, and wherever the process has ended.                          *)
THEOREM TypeOKHolds == Spec => []TypeOK
<1>1. ManagerInv => TypeOK
  BY DEF ManagerInv
<1> QED BY <1>1, ManagerInvHolds, PTL

(* workload.go and pqos.go together: whatever handlers, crashes and tasks  *)
(* that end do, no class of service disappears from both lists of the      *)
(* pool, and the shared class is always in the used list.                  *)
THEOREM NoClassLost == Spec => [](NoneLost(pool) /\ SharedStaysUsed(pool))
<1>1. ManagerInv => NoneLost(pool) /\ SharedStaysUsed(pool)
  BY DEF ManagerInv, Sound
<1> QED BY <1>1, ManagerInvHolds, PTL

-----------------------------------------------------------------------------
(* The unit of bandwidths.                                                 *)

(* Handlers run only while the process is up.                              *)
HandlersIdle == phase # "up" => \A t \in Threads \ {Validator} : thread[t].pc = "idle"

(* Nobody asks for a policy and a bandwidth in one request.                *)
PolicyAlone == \A r \in Requests \cup NovaRequests : r.policy # NoPolicy => r.mba = NoMba

(* Nobody ends a policy with a PATCH.                                      *)
PolicyStays ==
  \A p \in Patches : p.policy = NoPolicy => p.max = Nil /\ p.min = Nil /\ p.mba = NoMba

(* The bandwidth of workload w is in the unit of the platform, or at most  *)
(* one that does not count.                                                *)
InMode(w) == (w.policy # NoPolicy /\ ~PolicyAlone) \/ ~OtherMode(w)

(* What is in flight is in the unit of the platform.                       *)
InFlightInMode ==
  phase = "up" => \A t \in Threads \ {Validator} :
                     thread[t].pc # "idle" => InMode(thread[t].w)

(* While Init looks at the rows, it still has before it every row that is  *)
(* in another unit.                                                        *)
BootInMode ==
  phase = "mark" =>
    /\ \A i \in Ids : boot[i] # NoRow => boot[i].id = i
    /\ \A i \in RowIds(db) : OtherMode(db.rows[i]) => boot[i] = db.rows[i]

RowsInMode == phase = "up" => \A i \in RowIds(db) : InMode(db.rows[i])

ModeInv == HandlersIdle /\ InFlightInMode /\ BootInMode /\ RowsInMode

(* A PATCH keeps to the unit, unless it ends a policy beside which a       *)
(* bandwidth has been posted.                                              *)
LEMMA PatchInMode ==
  ASSUME PolicyAlone \/ PolicyStays, rdt \in Platform,
         NEW w \in RDTWorkLoad, InMode(w), NEW p \in Patches, ~MbaRefused(p),
         NEW v, v.policy = Merged(w, p).policy, v.mba = Merged(w, p).mba
  PROVE  InMode(v)
<1>1. p \in Request
  BY RequestsAssumption
<1>2. /\ v.policy \in {w.policy, p.policy, NoPolicy}
      /\ \A unit \in MbaMode : v.mba[unit] \in {w.mba[unit], p.mba[unit]}
      /\ p.policy # NoPolicy => v.policy = p.policy /\ v.mba = w.mba
      /\ p.policy = NoPolicy /\ p.max = Nil /\ p.min = Nil /\ p.mba = NoMba =>
            v.policy = w.policy
  <2>1. ParamsOfPatch(Merged(w, p), w, p)
    BY <1>1, MergedParams
  <2> QED BY <2>1 DEF ParamsOfPatch
<1>3. CASE p.policy # NoPolicy
  BY <1>2, <1>3 DEF InMode, OtherMode
<1>4. CASE p.policy = NoPolicy
  <2>1. ~OtherMode(p)
    BY <1>4 DEF MbaRefused
  <2>2. CASE ~OtherMode(w)
    <3>1. \A unit \in MbaMode \ {rdt.mode} : v.mba[unit] = Nil
      BY <1>2, <2>1, <2>2 DEF OtherMode
    <3> QED BY <3>1 DEF InMode, OtherMode
  <2>3. CASE w.policy # NoPolicy /\ ~PolicyAlone
    BY <1>2, <1>4, <2>3 DEF PolicyStays, InMode
  <2> QED BY <2>2, <2>3 DEF InMode
<1> QED BY <1>3, <1>4

(* A step of a handler, if what it goes on with and what it stores is in   *)
(* the unit of the platform.                                               *)
LEMMA HandlerKeepsMode ==
  ASSUME ModeInv, ThreadsGood, phase = "up", phase' = phase, rdt'.mode = rdt.mode,
         NEW t \in Threads, NEW x, Goto(t, x),
         t # Validator => x.pc = "idle" \/ InMode(x.w),
         \A i \in RowIds(db)' : InMode(db'.rows[i])
  PROVE  ModeInv'
<1>1. \A u \in Threads : thread'[u] = IF u = t THEN x ELSE thread[u]
  BY DEF ThreadsGood, Goto
<1> QED BY <1>1 DEF ModeInv, HandlersIdle, InFlightInMode, BootInMode, RowsInMode, RowIds,
                 InMode, OtherMode

(* A step that changes no handler, and at most removes rows.               *)
LEMMA QuietKeepsMode ==
  ASSUME ModeInv, phase' = phase, boot' = boot, rdt'.mode = rdt.mode,
         \A t \in Threads \ {Validator} : thread'[t] = thread[t],
         RowIds(db)' \subseteq RowIds(db), \A i \in RowIds(db)' : db'.rows[i] = db.rows[i]
  PROVE  ModeInv'
BY DEF ModeInv, HandlersIdle, InFlightInMode, BootInMode, RowsInMode, InMode, OtherMode

(* The end of the process.                                                 *)
LEMMA DownKeepsMode == ASSUME Down PROVE ModeInv'
<1>1. phase' = "down" /\ \A t \in Threads : thread'[t].pc = "idle"
  BY DownKeeps
<1> QED BY <1>1 DEF ModeInv, HandlersIdle, InFlightInMode, BootInMode, RowsInMode

(* Such a workload is posted.                                              *)
Posted(w) == PolicyAlone /\ w.policy # NoPolicy => w.mba = NoMba

(* What clients post is.                                                   *)
LEMMA PostedAlone ==
  /\ \A r \in Requests, id \in PostIds \cup {NoId} :
        Posted(NewRDTWorkLoad(r, id, NoUUID, "REST"))
  /\ \A r \in NovaRequests, u \in UUIDs : Posted(NewRDTWorkLoad(r, NoId, u, "OPENSTACK"))
BY DEF Posted, PolicyAlone, NewRDTWorkLoad

(* The requests of clients and notifications.                              *)
LEMMA BeginKeepsMode ==
  ASSUME ManagerInv, ModeInv, NEW t \in Threads \ {Validator},
         \/ \E w \in RDTWorkLoad : BeginCreate(t, w) /\ Posted(w)
         \/ \E w \in RDTWorkLoad \cup {NoRow} : \E o :
               BeginDelete(t, w, o) /\ (w # NoRow => \E i \in RowIds(db) : w = db.rows[i])
         \/ Patch(t)
  PROVE  ModeInv'
<1>1. CASE \E w \in RDTWorkLoad : BeginCreate(t, w) /\ Posted(w)
  <2>1. PICK w \in RDTWorkLoad : BeginCreate(t, w) /\ Posted(w)
    BY <1>1
  <2> DEFINE f == FilledByPolicy(w)
  <2>2. phase = "up" /\ Goto(t, At("enforce", f))
    BY <2>1 DEF BeginCreate, Running
  <2>3. At("enforce", f).w = f
    BY DEF At
  <2>5. f.policy = w.policy /\ f.mba = w.mba
    BY Filled
  <2> HIDE DEF f
  <2>6. InMode(w)
    <3>1. CASE w.policy = NoPolicy
      <4>1. ReachesMba(w)
        BY <2>1, <3>1 DEF BeginCreate, Validate, validate
      <4> QED BY <4>1 DEF ReachesMba, InMode
    <3>2. CASE w.mba = NoMba
      BY <3>2 DEF InMode, OtherMode, NoMba
    <3>3. CASE w.policy # NoPolicy /\ ~PolicyAlone
      BY <3>3 DEF InMode
    <3> QED BY <2>1, <3>1, <3>2, <3>3 DEF Posted
  <2>7. InMode(f)
    BY <2>5, <2>6 DEF InMode, OtherMode
  <2>4. UNCHANGED <<rdt, phase, db>>
    BY <2>1 DEF BeginCreate
  <2> QED BY <2>2, <2>3, <2>4, <2>7, HandlerKeepsMode DEF ManagerInv, ModeInv, RowsInMode, RowIds
<1>2. CASE \E w \in RDTWorkLoad \cup {NoRow} : \E o :
              BeginDelete(t, w, o) /\ (w # NoRow => \E i \in RowIds(db) : w = db.rows[i])
  <2>1. PICK w, o : BeginDelete(t, w, o) /\ (w # NoRow => \E i \in RowIds(db) : w = db.rows[i])
    BY <1>2
  <2>2. phase = "up" /\ Goto(t, At("release", w)) /\ w # NoRow /\ UNCHANGED <<rdt, phase, db>>
    BY <2>1 DEF BeginDelete, Running
  <2>3. At("release", w).w = w
    BY DEF At
  <2> QED BY <2>1, <2>2, <2>3, HandlerKeepsMode DEF ManagerInv, ModeInv, RowsInMode, RowIds
<1>3. CASE Patch(t)
  <2>1. PICK id \in RowIds(db), p \in Patches :
          /\ phase = "up" /\ UNCHANGED <<rdt, phase, db>>
          /\ Goto(t, [pc |-> "lock", w |-> db.rows[id], patch |-> p, ws |-> NoRows])
    BY <1>3 DEF Patch, Running
  <2> DEFINE x == [pc |-> "lock", w |-> db.rows[id], patch |-> p, ws |-> NoRows]
  <2>2. x.w = db.rows[id]
    OBVIOUS
  <2> HIDE DEF x
  <2>3. Goto(t, x)
    BY <2>1 DEF x
  <2> QED BY <2>1, <2>2, <2>3, HandlerKeepsMode DEF ManagerInv, ModeInv, RowsInMode, RowIds
<1> QED BY <1>1, <1>2, <1>3

(* The workload of a handler is in the unit of the platform.               *)
LEMMA HandlerInMode ==
  ASSUME ManagerInv, ModeInv, NEW t \in Threads, NEW pc \in PCs \ {"idle", "scan"}, Running(t, pc)
  PROVE  /\ t # Validator /\ phase = "up" /\ thread[t].w \in RDTWorkLoad
         /\ InMode(thread[t].w)
         /\ \A i \in RowIds(db) : InMode(db.rows[i])
<1>1. t # Validator /\ phase = "up" /\ thread[t].w \in RDTWorkLoad
  BY HandlerRuns DEF ManagerInv
<1> QED BY <1>1 DEF Running, ModeInv, InFlightInMode, RowsInMode

(* Enforce and Release do not change a unit; a PATCH in another unit is    *)
(* refused before.                                                         *)
LEMMA EnforceKeepsMode ==
  ASSUME PolicyAlone \/ PolicyStays, ManagerInv, ModeInv, NEW t \in Threads,
         EnforceNew(t) \/ EnforcePatched(t) \/ UpdateMembers(t) \/ ReleaseOld(t)
           \/ ReleaseForPatch(t)
  PROVE  ModeInv'
<1>1. Idle.pc = "idle" /\ \A pc, u : At(pc, u).w = u
  BY DEF Idle, At
<1>2. ThreadsGood
  BY DEF ManagerInv
<1>3. UNCHANGED <<phase, db>>
  BY DEF EnforceNew, EnforcePatched, EnforceStep, UpdateMembers, ReleaseOld, ReleaseForPatch,
         ReleaseStep
<1>4. \E pc \in PCs \ {"idle", "scan"} : Running(t, pc)
  BY DEF EnforceNew, EnforcePatched, EnforceStep, UpdateMembers, ReleaseOld, ReleaseForPatch,
         ReleaseStep, PCs
<1>5. /\ t # Validator /\ phase = "up" /\ thread[t].w \in RDTWorkLoad
      /\ InMode(thread[t].w)
      /\ \A i \in RowIds(db)' : InMode(db'.rows[i])
  BY <1>3, <1>4, HandlerInMode DEF RowIds
<1>6. CASE EnforceNew(t) \/ EnforcePatched(t)
  <2>1. EnforceStep(t, "enforce", "create") \/ EnforceStep(t, "reenforce", "store")
    BY <1>6 DEF EnforceNew, EnforcePatched
  <2>2. /\ rdt'.mode = rdt.mode
        /\ \/ Goto(t, Idle)
           \/ \E u \in RDTWorkLoad : /\ u.mba = thread[t].w.mba
                                     /\ u.policy = thread[t].w.policy
                                     /\ \E pc : Goto(t, At(pc, u))
    BY <2>1, EnforceStepEffect
  <2>3. PICK x : Goto(t, x) /\ (x.pc = "idle" \/ InMode(x.w))
    BY <1>1, <1>5, <2>2 DEF InMode, OtherMode
  <2> QED BY <1>2, <1>3, <1>5, <2>2, <2>3, HandlerKeepsMode
<1>7. CASE UpdateMembers(t)
  <2>1. /\ rdt'.mode = rdt.mode
        /\ \/ Goto(t, Idle)
           \/ \E u \in RDTWorkLoad :
                 /\ u.mba = thread[t].w.mba
                 /\ u.policy = Merged(thread[t].w, thread[t].patch).policy
                 /\ Goto(t, At("store", u))
    BY <1>7, UpdateMembersEffect
  <2>3. /\ thread[t].patch \in Patches /\ thread[t].patch \in Request
        /\ ~MbaRefused(thread[t].patch) /\ ~reEnforce(thread[t].w, thread[t].patch)
    <3>1. /\ Running(t, "update") /\ ~MbaRefused(thread[t].patch)
          /\ ~reEnforce(thread[t].w, thread[t].patch)
      BY <1>7 DEF UpdateMembers
    <3> QED BY <1>2, <3>1, HandlerRuns DEF PCs
  <2>4. \A u \in RDTWorkLoad :
           /\ u.mba = thread[t].w.mba
           /\ u.policy = Merged(thread[t].w, thread[t].patch).policy
           => InMode(u)
    <3>1. Merged(thread[t].w, thread[t].patch).mba = thread[t].w.mba
      BY <1>5, <2>3, QuietPatch
    <3> QED BY <1>5, <2>3, <3>1, PatchInMode DEF ManagerInv, TypeOK
  <2>2. PICK x : Goto(t, x) /\ (x.pc = "idle" \/ InMode(x.w))
    BY <1>1, <2>1, <2>4
  <2> QED BY <1>2, <1>3, <1>5, <2>1, <2>2, HandlerKeepsMode
<1>8. CASE ReleaseOld(t)
  <2> DEFINE done == [thread[t] EXCEPT !.pc = "delete"]
  <2>1. thread[t] \in Thread
    BY <1>2 DEF ThreadsGood
  <2>2. done.w = thread[t].w
    BY <2>1 DEF Thread
  <2>3. ReleaseStep(t, "release", done)
    BY <1>8 DEF ReleaseOld
  <2> HIDE DEF done
  <2>4. rdt'.mode = rdt.mode /\ (Goto(t, done) \/ Goto(t, Idle))
    BY <2>3, ReleaseStepEffect
  <2>5. PICK x : Goto(t, x) /\ (x.pc = "idle" \/ InMode(x.w))
    BY <1>1, <1>5, <2>2, <2>4
  <2> QED BY <1>2, <1>3, <1>5, <2>4, <2>5, HandlerKeepsMode
<1>9. CASE ReleaseForPatch(t)
  <2> DEFINE p == thread[t].patch
             v == Patched(thread[t].w, p)
             done == At("reenforce", v)
  <2>1. ReleaseStep(t, "update", done) /\ ~MbaRefused(p) /\ Running(t, "update")
    BY <1>9 DEF ReleaseForPatch
  <2>2. p \in Patches /\ p \in Request
    BY <1>2, <2>1, HandlerRuns DEF PCs
  <2>3. v.mba = Merged(thread[t].w, p).mba /\ v.policy = Merged(thread[t].w, p).policy
    BY <1>5, <2>2, PatchedParams
  <2>4. InMode(v)
    <3> HIDE DEF v
    <3> QED BY <1>5, <2>1, <2>2, <2>3, PatchInMode DEF ManagerInv, TypeOK
  <2>5. done.w = v
    BY <1>1
  <2> HIDE DEF done, v
  <2>6. rdt'.mode = rdt.mode /\ (Goto(t, done) \/ Goto(t, Idle))
    BY <2>1, ReleaseStepEffect
  <2>7. PICK x : Goto(t, x) /\ (x.pc = "idle" \/ InMode(x.w))
    BY <1>1, <2>4, <2>5, <2>6
  <2> QED BY <1>2, <1>3, <1>5, <2>6, <2>7, HandlerKeepsMode
<1> QED BY <1>6, <1>7, <1>8, <1>9

(* What handlers store is in the unit of the platform.                     *)
LEMMA StoreKeepsMode ==
  ASSUME ManagerInv, ModeInv, NEW t \in Threads,
         Create(t) \/ UndoNew(t) \/ DeleteOld(t) \/ updateInDB(t) \/ RefusePatch(t)
  PROVE  ModeInv'
<1> DEFINE w == thread[t].w
<1>1. Idle.pc = "idle"
  BY DEF Idle
<1>2. Goto(t, Idle) /\ UNCHANGED <<rdt, phase>> /\ ThreadsGood /\ db \in Database
  BY DEF Create, UndoNew, DeleteOld, DeleteStep, updateInDB, RefusePatch, ManagerInv, TypeOK
<1>3. \E pc \in PCs \ {"idle", "scan"} : Running(t, pc)
  BY DEF Create, UndoNew, DeleteOld, DeleteStep, updateInDB, RefusePatch, PCs
<1>4. /\ t # Validator /\ phase = "up" /\ w \in RDTWorkLoad
      /\ InMode(w)
      /\ \A i \in RowIds(db) : InMode(db.rows[i])
  BY <1>3, HandlerInMode
<1> HIDE DEF w
<1>5. \A i \in RowIds(db') : InMode(db'.rows[i])
  <2>1. CASE Create(t)
    <3>1. NextIdExists(db, w) /\ db' = CreateWorkload(db, w)
      BY <2>1 DEF Create, w
    <3>2. PICK k : k = CreatedId(db, w)
      OBVIOUS
    <3>3. /\ k \in Ids /\ RowIds(db') = RowIds(db) \cup {k}
          /\ \A i \in Ids \ {k} : db'.rows[i] = db.rows[i]
      BY <1>2, <1>4, <3>1, <3>2, CreateEffect
    <3>4. db'.rows[k] = [w EXCEPT !.id = k]
      BY <1>2, <1>4, <3>1, <3>2, CreateStores
    <3>5. db'.rows[k].mba = w.mba /\ db'.rows[k].policy = w.policy
      BY <1>4, <3>3, <3>4, WithId
    <3>6. InMode(db'.rows[k])
      BY <1>4, <3>5 DEF InMode, OtherMode
    <3> QED BY <1>4, <3>3, <3>6 DEF RowIds
  <2>2. CASE UndoNew(t) \/ DeleteOld(t)
    <3>1. db' = DeleteWorkload(db, w)
      BY <2>2 DEF UndoNew, DeleteOld, DeleteStep, w
    <3> QED BY <1>2, <1>4, <3>1, DeleteEffect
  <2>3. CASE updateInDB(t)
    <3>1. db' = UpdateWorkload(db, w) /\ Running(t, "store")
      BY <2>3 DEF updateInDB, w
    <3>2. w.id \in Ids
      BY <1>2, <3>1, HandlerRuns DEF PCs, w
    <3>3. w.id # NoId
      BY <3>2, IdsAssumption DEF Ids
    <3>4. /\ RowIds(db') = RowIds(db) \cup {w.id} /\ db'.rows[w.id] = w
          /\ \A i \in Ids \ {w.id} : db'.rows[i] = db.rows[i]
      BY <1>2, <1>4, <3>1, <3>3, UpdateEffect
    <3> QED BY <1>4, <3>4 DEF RowIds
  <2>4. CASE RefusePatch(t)
    BY <1>4, <2>4 DEF RefusePatch
  <2> QED BY <2>1, <2>2, <2>3, <2>4
<1> QED BY <1>1, <1>2, <1>4, <1>5, HandlerKeepsMode DEF RowIds

(* dbContentValidation removes rows, at any time after LoadWorkloads.      *)
LEMMA ScanKeepsMode ==
  ASSUME ManagerInv, ModeInv, NEW t \in Threads, BeginScan(t) \/ ScanRow(t) \/ EndScan(t)
  PROVE  ModeInv'
<1>1. UNCHANGED <<rdt, phase, boot>>
  BY DEF BeginScan, ScanRow, EndScan
<1>2. RowIds(db)' \subseteq RowIds(db) /\ \A i \in RowIds(db)' : db'.rows[i] = db.rows[i]
  <2>1. CASE ScanRow(t)
    BY <2>1, ScanRowEffect DEF RowIds
  <2>2. CASE BeginScan(t) \/ EndScan(t)
    BY <2>2 DEF BeginScan, EndScan, RowIds
  <2> QED BY <2>1, <2>2
<1>3. ThreadsGood
  BY DEF ManagerInv
<1>4. PICK x : Goto(t, x)
  BY DEF BeginScan, ScanRow, EndScan
<1>5. CASE t = Validator
  <2>1. \A u \in Threads \ {Validator} : thread'[u] = thread[u]
    BY <1>3, <1>4, <1>5 DEF ThreadsGood, Goto
  <2> QED BY <1>1, <1>2, <2>1, QuietKeepsMode
<1>6. CASE t # Validator
  <2>1. phase = "up" /\ thread[t].pc # "idle"
    BY <1>6 DEF BeginScan, ScanRow, EndScan, Running
  <2>2. PICK y : Goto(t, y) /\ y.w = thread[t].w
    <3>1. thread[t] \in Thread
      BY <1>3 DEF ThreadsGood
    <3>2. \A pc, ws : /\ [thread[t] EXCEPT !.pc = pc].w = thread[t].w
                      /\ [thread[t] EXCEPT !.ws = ws].w = thread[t].w
      BY <3>1 DEF Thread
    <3>3. CASE BeginScan(t)
      <4> DEFINE y == [thread[t] EXCEPT !.pc = "scan", !.ws = RowsWithTasks]
      <4>1. Goto(t, y)
        BY <3>3 DEF BeginScan
      <4>2. y.w = thread[t].w
        BY <3>1 DEF Thread
      <4> HIDE DEF y
      <4> QED BY <4>1, <4>2
    <3>4. CASE ScanRow(t)
      BY <3>2, <3>4, ScanRowEffect
    <3>5. CASE EndScan(t)
      BY <1>6, <3>2, <3>5 DEF EndScan
    <3> QED BY <3>3, <3>4, <3>5
  <2>3. InMode(thread[t].w)
    BY <1>6, <2>1 DEF ModeInv, InFlightInMode
  <2>4. \A i \in RowIds(db)' : InMode(db'.rows[i])
    BY <1>2, <2>1 DEF ModeInv, RowsInMode
  <2> QED BY <1>1, <1>3, <2>1, <2>2, <2>3, <2>4, HandlerKeepsMode
<1> QED BY <1>5, <1>6

(* The start of the process: Init deletes the rows in another unit, or the *)
(* process ends.                                                           *)
LEMMA BootKeepsMode ==
  ASSUME ManagerInv, ModeInv,
         Crash \/ ResetAPI \/ SanityCheck \/ LoadWorkloads \/ MarkRow \/ StartServing \/ Exit
  PROVE  ModeInv'
<1>1. rdt \in Platform /\ db \in Database
  BY DEF ManagerInv, TypeOK
<1>2. CASE Crash
  BY <1>2, DownKeepsMode DEF Crash
<1>3. CASE ResetAPI
  BY <1>3 DEF ResetAPI, ModeInv, HandlersIdle, InFlightInMode, BootInMode, RowsInMode
<1>4. CASE SanityCheck
  BY <1>4 DEF SanityCheck, ModeInv, HandlersIdle, InFlightInMode, BootInMode, RowsInMode
<1>5. CASE LoadWorkloads
  <2>1. phase = "init" /\ phase' = "mark" /\ boot' = db.rows /\ UNCHANGED <<rdt, db, thread>>
    BY <1>5 DEF LoadWorkloads
  <2>2. \A i \in Ids : boot'[i] # NoRow => boot'[i].id = i
    BY <2>1 DEF ManagerInv, RowsKeyed, RowIds
  <2> QED BY <2>1, <2>2
      DEF ModeInv, HandlersIdle, InFlightInMode, BootInMode, RowsInMode, RowIds, InMode, OtherMode
<1>6. CASE MarkRow
  <2>1. phase = "mark" /\ rdt' = rdt
    BY <1>6, MarkRowEffect
  <2>2. CASE Down
    BY <2>2, DownKeepsMode
  <2>3. ASSUME NEW i \in Ids, boot[i] \in RDTWorkLoad, boot' = [boot EXCEPT ![i] = NoRow],
               UNCHANGED <<phase, thread, mbaValue>>,
               db' = IF OtherMode(boot[i]) THEN DeleteWorkload(db, boot[i]) ELSE db
        PROVE  ModeInv'
    <3>1. boot[i].id = i
      BY <2>1, <2>3, NoRowAssumption DEF ModeInv, BootInMode
    <3>2. /\ RowIds(db') \subseteq RowIds(db)
          /\ OtherMode(boot[i]) => i \notin RowIds(db')
          /\ \A j \in RowIds(db') : db'.rows[j] = db.rows[j]
      <4>1. CASE OtherMode(boot[i])
        <5>1. db' = DeleteWorkload(db, boot[i])
          BY <2>3, <4>1
        <5> QED BY <1>1, <2>3, <3>1, <5>1, DeleteEffect
      <4>2. CASE ~OtherMode(boot[i])
        <5>1. db' = db
          BY <2>3, <4>2
        <5> QED BY <4>2, <5>1
      <4> QED BY <4>1, <4>2
    <3>3. \A j \in Ids : boot'[j] = IF j = i THEN NoRow ELSE boot[j]
      BY <2>3 DEF ManagerInv, TypeOK, Snapshot
    <3>4. ASSUME NEW j \in RowIds(db'), OtherMode(db.rows[j])
          PROVE  boot'[j] = db.rows[j]
      <4>1. j \in RowIds(db) /\ j \in Ids /\ boot[j] = db.rows[j]
        BY <2>1, <3>2, <3>4 DEF ModeInv, BootInMode, RowIds
      <4>2. j # i
        BY <3>2, <3>4, <4>1
      <4> QED BY <3>3, <4>1, <4>2
    <3>5. BootInMode'
      <4>1. \A j \in Ids : boot'[j] # NoRow => boot'[j].id = j
        BY <2>1, <3>3 DEF ModeInv, BootInMode
      <4>2. \A j \in RowIds(db)' : OtherMode(db.rows[j])' => boot'[j] = db'.rows[j]
        BY <2>1, <3>2, <3>4 DEF OtherMode, RowIds
      <4> QED BY <4>1, <4>2 DEF BootInMode
    <3> QED BY <2>1, <2>3, <3>5 DEF ModeInv, HandlersIdle, InFlightInMode, RowsInMode
  <2> QED BY <1>6, <2>2, <2>3, MarkRowEffect
<1>7. CASE StartServing
  <2>1. /\ phase = "mark" /\ boot = NoRows /\ phase' = "up"
        /\ UNCHANGED <<rdt, db, thread, boot>>
    BY <1>7 DEF StartServing
  <2>2. \A i \in RowIds(db) : ~OtherMode(db.rows[i])
    BY <2>1 DEF ModeInv, BootInMode, NoRows, RowIds
  <2>3. \A t \in Threads \ {Validator} : thread[t].pc = "idle"
    BY <2>1 DEF ModeInv, HandlersIdle
  <2> QED BY <2>1, <2>2, <2>3
      DEF ModeInv, HandlersIdle, InFlightInMode, BootInMode, RowsInMode, RowIds, InMode, OtherMode
<1>8. CASE Exit
  <2>1. rdt'.mode = rdt.mode
    BY <1>1, <1>8, DeallocateEffect DEF Exit, TaskExit
  <2>2. UNCHANGED <<db, thread, phase, boot>>
    BY <1>8 DEF Exit
  <2> QED BY <2>1, <2>2, QuietKeepsMode DEF RowIds
<1> QED BY <1>2, <1>3, <1>4, <1>5, <1>6, <1>7, <1>8

(* Every step keeps ModeInv.                                               *)
LEMMA NextKeepsMode ==
  ASSUME PolicyAlone \/ PolicyStays
  PROVE  ManagerInv /\ ModeInv /\ [Next]_vars => ModeInv'
<1> SUFFICES ASSUME ManagerInv, ModeInv, [Next]_vars PROVE ModeInv'
  OBVIOUS
<1>1. CASE UNCHANGED vars
  BY <1>1, QuietKeepsMode DEF vars, RowIds
<1>2. \A t \in Clients : t \in Threads \ {Validator}
  BY ThreadsAssumption DEF Threads
<1>3. Nova \in Threads \ {Validator} /\ Validator \in Threads
  BY ThreadsAssumption DEF Threads
<1>4. ASSUME NEW t \in Clients, NewWorkload(t) \/ RefuseNew(t) \/ DeleteByID(t) \/ Patch(t)
      PROVE  ModeInv'
  <2>1. CASE NewWorkload(t)
    BY <1>2, <2>1, RequestTypes, PostedAlone, BeginKeepsMode DEF NewWorkload
  <2>2. CASE RefuseNew(t)
    BY <2>2, QuietKeepsMode DEF RefuseNew, RowIds
  <2>3. CASE DeleteByID(t)
    BY <1>2, <2>3, RowsRead, BeginKeepsMode DEF DeleteByID, GetWorkloadByID, RowIds
  <2>4. CASE Patch(t)
    BY <1>2, <2>4, BeginKeepsMode
  <2> QED BY <1>4, <2>1, <2>2, <2>3, <2>4
<1>5. CASE processCreateNotification
  BY <1>3, <1>5, RequestTypes, PostedAlone, BeginKeepsMode DEF processCreateNotification
<1>6. CASE processDeleteNotification
  <2>1. PICK u \in UUIDs : BeginDelete(Nova, GetWorkloadByUUID(db, u), "OPENSTACK")
    BY <1>6 DEF processDeleteNotification
  <2>2. db.mapping \in [UUIDs -> Ids \cup {NoId}]
    BY DatabaseFields DEF ManagerInv, TypeOK
  <2>3. GetWorkloadByUUID(db, u) # NoRow => \E i \in RowIds(db) : GetWorkloadByUUID(db, u) = db.rows[i]
    BY <2>2 DEF GetWorkloadByUUID, RowIds
  <2> QED BY <1>3, <2>1, <2>3, RowsRead, BeginKeepsMode
<1>7. CASE BeginScan(Validator)
  BY <1>3, <1>7, ScanKeepsMode
<1>8. ASSUME NEW t \in Threads, Continue(t)
      PROVE  ModeInv'
  <2>1. CASE EnforceNew(t) \/ EnforcePatched(t) \/ UpdateMembers(t) \/ ReleaseOld(t)
               \/ ReleaseForPatch(t)
    BY <2>1, EnforceKeepsMode
  <2>2. CASE EnforceEnds(t)
    BY <2>2, DownKeepsMode DEF EnforceEnds
  <2>3. CASE Create(t) \/ UndoNew(t) \/ DeleteOld(t) \/ updateInDB(t) \/ RefusePatch(t)
    BY <2>3, StoreKeepsMode
  <2>4. CASE BeginScan(t) \/ ScanRow(t) \/ EndScan(t)
    BY <2>4, ScanKeepsMode
  <2> QED BY <1>8, <2>1, <2>2, <2>3, <2>4 DEF Continue
<1>9. CASE Crash \/ ResetAPI \/ Start \/ Exit
  BY <1>9, BootKeepsMode DEF Start
<1> QED BY <1>1, <1>4, <1>5, <1>6, <1>7, <1>8, <1>9 DEF Next

(* The inductive invariant of the unit of bandwidths.                      *)
LEMMA ModeInvHolds ==
  ASSUME PolicyAlone \/ PolicyStays
  PROVE  Spec => []ModeInv
<1>1. Init => ModeInv
  <2> SUFFICES ASSUME Init PROVE ModeInv
    OBVIOUS
  <2>1. phase = "up" /\ \A t \in Threads : thread[t].pc = "idle"
    BY DEF Init, Idle
  <2>2. RowIds(db) = {}
    BY DEF Init, EmptyDatabase, RowIds
  <2> QED BY <2>1, <2>2 DEF ModeInv, HandlersIdle, InFlightInMode, BootInMode, RowsInMode
<1> QED BY <1>1, NextKeepsMode, ManagerInvHolds, PTL DEF Spec

(* UserGuide, --force-config: whatever bandwidths clients ask for, however *)
(* often the unit of the platform is changed between two starts and        *)
(* wherever the process has ended before, RMD never serves a workload      *)
(* whose bandwidth counts and is in another unit than the platform's.      *)
(* validate lets a POST through that has a policy and a bandwidth in any   *)
(* unit, and a PATCH that ends the policy makes that bandwidth count; so   *)
(* it holds where clients do at most one of the two.                       *)
THEOREM ModeConsistentHolds ==
  ASSUME PolicyAlone \/ PolicyStays
  PROVE  Spec => []ModeConsistent
<1>1. ModeInv => ModeConsistent
  BY DEF ModeInv, RowsInMode, InMode, ModeConsistent
<1> QED BY <1>1, ModeInvHolds, PTL

-----------------------------------------------------------------------------
(* Masks.                                                                  *)

(* The ways in which a step can change the phase, the pool and the masks.  *)
Quiet == phase' = phase /\ pool' = pool /\ rdt'.mask = rdt.mask

EnforceOf(t) == /\ phase = "up" /\ phase' = "up"
                /\ thread[t].pc \in {"enforce", "reenforce"} /\ thread[t].w \in RDTWorkLoad
                /\ EnforceChanges(thread[t].w)

ReleaseOf(t) == /\ phase = "up" /\ phase' = "up"
                /\ thread[t].w \in RDTWorkLoad /\ ReleaseChanges(thread[t].w)

Ending == phase' = "down" /\ rdt' = rdt

Marking == /\ phase = "mark" /\ phase' = "mark" /\ rdt' = rdt

(* Every step is one of them.                                              *)
LEMMA PlatformSteps ==
  ASSUME ManagerInv, [Next]_vars
  PROVE  \/ Quiet
         \/ \E t \in Threads : EnforceOf(t) \/ ReleaseOf(t)
         \/ Ending \/ ResetAPI \/ SanityCheck \/ LoadWorkloads \/ Marking \/ StartServing
<1>1. CASE UNCHANGED vars
  BY <1>1 DEF vars, Quiet
<1>2. ASSUME NEW t \in Clients, NewWorkload(t) \/ RefuseNew(t) \/ DeleteByID(t) \/ Patch(t)
      PROVE  Quiet
  BY <1>2 DEF NewWorkload, BeginCreate, RefuseNew, DeleteByID, BeginDelete, Patch, Quiet
<1>3. CASE processCreateNotification \/ processDeleteNotification \/ BeginScan(Validator)
  BY <1>3 DEF processCreateNotification, BeginCreate, processDeleteNotification, BeginDelete,
              BeginScan, Quiet
<1>4. ASSUME NEW t \in Threads, Continue(t)
      PROVE  Quiet \/ EnforceOf(t) \/ ReleaseOf(t) \/ Ending
  <2>1. CASE EnforceNew(t) \/ EnforcePatched(t)
    <3>1. EnforceStep(t, "enforce", "create") \/ EnforceStep(t, "reenforce", "store")
      BY <2>1 DEF EnforceNew, EnforcePatched
    <3>2. /\ phase = "up" /\ thread[t].pc \in {"enforce", "reenforce"}
          /\ thread[t].w \in RDTWorkLoad /\ EnforceChanges(thread[t].w)
      BY <3>1, EnforceStepEffect
    <3>3. phase' = phase
      BY <3>1 DEF EnforceStep
    <3> QED BY <3>2, <3>3 DEF EnforceOf
  <2>2. CASE EnforceEnds(t)
    BY <2>2 DEF EnforceEnds, Down, Ending
  <2>3. CASE ReleaseOld(t) \/ ReleaseForPatch(t)
    <3>1. PICK pc, done : pc \in {"release", "update"} /\ ReleaseStep(t, pc, done)
      BY <2>3 DEF ReleaseOld, ReleaseForPatch
    <3>2. phase = "up" /\ thread[t].w \in RDTWorkLoad /\ ReleaseChanges(thread[t].w)
      BY <3>1, ReleaseStepEffect
    <3>3. phase' = phase
      BY <3>1 DEF ReleaseStep
    <3> QED BY <3>2, <3>3 DEF ReleaseOf
  <2>4. CASE UpdateMembers(t)
    <3>1. rdt'.mask = rdt.mask
      BY <2>4, UpdateMembersEffect
    <3> QED BY <2>4, <3>1 DEF UpdateMembers, Quiet
  <2>5. CASE Create(t) \/ UndoNew(t) \/ DeleteOld(t) \/ updateInDB(t)
    BY <2>5 DEF Create, UndoNew, DeleteOld, DeleteStep, updateInDB, Quiet
  <2>6. CASE BeginScan(t) \/ ScanRow(t) \/ EndScan(t) \/ RefusePatch(t)
    BY <2>6 DEF BeginScan, ScanRow, EndScan, RefusePatch, Quiet
  <2> QED BY <1>4, <2>1, <2>2, <2>3, <2>4, <2>5, <2>6 DEF Continue
<1>5. CASE Crash
  BY <1>5 DEF Crash, Down, Ending
<1>6. CASE MarkRow
  <2>1. phase = "mark" /\ rdt' = rdt
    BY <1>6, MarkRowEffect
  <2>2. phase' = "down" \/ phase' = phase
    BY <1>6, MarkRowEffect DEF Down
  <2> QED BY <2>1, <2>2 DEF Ending, Marking
<1>7. CASE Exit
  <2>1. rdt'.mask = rdt.mask
    BY <1>7, DeallocateEffect DEF Exit, TaskExit, ManagerInv, TypeOK
  <2> QED BY <1>7, <2>1 DEF Exit, Quiet
<1> QED BY <1>1, <1>2, <1>3, <1>4, <1>5, <1>6, <1>7 DEF Next, Start

(* After SetOSGroup the OS group has no way of a visible class but its own *)
(* first ones.                                                             *)
OSRecomputed(h, p) ==
  \A x \in Visible(p) \ {0, 1}, s \in Sockets :
     \/ h.mask[x][s] = CbmMask
     \/ h.mask[x][s] \cap h.mask[0][s] \subseteq 0 .. (OSWays - 1)

(* What a committed class means for the masks.                             *)
LEMMA CommitMasks ==
  ASSUME NEW w, NEW r, NEW g \in PoolClos, Commits(w, r, g)
  PROVE  /\ \A x \in PoolClos \ {g} : r.rdt.mask[x] = rdt.mask[x]
         /\ Available(pool) \subseteq Available(r.pool) \cup {g}
         /\ OSRecomputed(r.rdt, r.pool)
         /\ \/ g \in Visible(pool) /\ r.rdt.mask[g] = rdt.mask[g]
            \/ Candidates(w, r.rdt.mask[g])
<1>1. PICK h \in Platform :
        /\ r.rdt = SetOSGroup(h, r.pool)
        /\ \A x \in Group \ {g} : h.mask[x] = rdt.mask[x]
        /\ Available(pool) \subseteq Available(r.pool) \cup {g}
        /\ \/ g \in Visible(pool) /\ h.mask[g] = rdt.mask[g]
           \/ Candidates(w, h.mask[g])
  BY DEF Commits
<1>2. /\ \A x \in PoolClos : r.rdt.mask[x] = h.mask[x]
      /\ \A x \in Visible(r.pool) \ {0, 1}, s \in Sockets :
            \/ h.mask[x][s] = CbmMask
            \/ h.mask[x][s] \cap r.rdt.mask[0][s] \subseteq 0 .. (OSWays - 1)
  BY <1>1, SetOSGroupEffect
<1>3. \A x \in Visible(r.pool) \ {0, 1} : x \in PoolClos
  BY PoolGroups DEF Visible
<1>4. \A x \in PoolClos : x \in Group
  BY PoolGroups
<1> QED BY <1>1, <1>2, <1>3, <1>4 DEF OSRecomputed

(* What a Release means for them.                                          *)
LEMMA ReleaseMasks ==
  ASSUME ManagerInv, NEW w, ReleaseChanges(w)
  PROVE  /\ Available(pool) \subseteq Available(pool')
         /\ \A x \in PoolClos : \/ rdt'.mask[x] = rdt.mask[x]
                                \/ \A s \in Sockets : rdt'.mask[x][s] = CbmMask
         /\ rdt'.mask = rdt.mask \/ OSRecomputed(rdt', pool')
<1>1. PICK h \in Platform :
        /\ h.mask = rdt.mask
        /\ \/ pool' = pool /\ rdt' = h
           \/ pool' = pool /\ rdt' = SetOSGroup(h, pool)
           \/ w.cos \in PoolClos /\ pool' = ReturnClos(pool, w.cos) /\ rdt' = h
           \/ /\ w.cos \in PoolClos /\ pool' = ReturnClos(pool, w.cos)
              /\ rdt' = SetOSGroup(ResetCOSParamsToDefaults(h, w.cos), pool')
  BY DEF ReleaseChanges
<1>2. Available(pool) \subseteq Available(pool')
  BY <1>1, ReturnSound DEF ManagerInv, ClosName
<1>3. \A p : \A x \in Visible(p) \ {0, 1} : x \in PoolClos
  BY PoolGroups DEF Visible
<1>4. ASSUME NEW q \in Platform, NEW p, rdt' = SetOSGroup(q, p)
      PROVE  OSRecomputed(rdt', p) /\ \A x \in PoolClos : rdt'.mask[x] = q.mask[x]
  <2>1. /\ \A x \in PoolClos : rdt'.mask[x] = q.mask[x]
        /\ \A x \in Visible(p) \ {0, 1}, s \in Sockets :
              \/ q.mask[x][s] = CbmMask
              \/ q.mask[x][s] \cap rdt'.mask[0][s] \subseteq 0 .. (OSWays - 1)
    BY <1>4, SetOSGroupEffect
  <2> QED BY <1>3, <2>1 DEF OSRecomputed
<1>5. CASE rdt' = h
  BY <1>1, <1>2, <1>5
<1>6. CASE pool' = pool /\ rdt' = SetOSGroup(h, pool)
  <2>1. OSRecomputed(rdt', pool) /\ \A x \in PoolClos : rdt'.mask[x] = h.mask[x]
    BY <1>4, <1>6
  <2> QED BY <1>1, <1>2, <1>6, <2>1
<1>7. CASE /\ w.cos \in PoolClos /\ pool' = ReturnClos(pool, w.cos)
           /\ rdt' = SetOSGroup(ResetCOSParamsToDefaults(h, w.cos), pool')
  <2>1. PICK q : q = ResetCOSParamsToDefaults(h, w.cos)
    OBVIOUS
  <2>2. /\ q \in Platform /\ \A s \in Sockets : q.mask[w.cos][s] = CbmMask
        /\ \A x \in Group \ {w.cos} : q.mask[x] = h.mask[x]
    BY <1>7, <2>1, ResetEffect
  <2>3. OSRecomputed(rdt', pool') /\ \A x \in PoolClos : rdt'.mask[x] = q.mask[x]
    BY <1>4, <1>7, <2>1, <2>2
  <2>4. \A x \in PoolClos : x \in Group
    BY PoolGroups
  <2> QED BY <1>1, <1>2, <2>2, <2>3, <2>4
<1> QED BY <1>1, <1>5, <1>6, <1>7

(* A mask as MaskShape wants it.                                           *)
Shapely(m, s) == \/ m = CbmMask
                 \/ /\ m # {} /\ Contiguous(m)
                    /\ \E name \in PoolName : m \subseteq GetCachePoolLayout(name, s)

(* MaskShape says that the masks of all classes to give away are shapely.  *)
LEMMA MaskShapeMeans == MaskShape <=> \A g \in PoolClos, s \in Sockets : Shapely(rdt.mask[g][s], s)
BY DEF MaskShape, Shapely

(* What Enforce computes is shapely on every cache, even when the entries  *)
(* of caches are swapped, if pools are the same ways on all caches.        *)
LEMMA CandidatesShapely ==
  ASSUME OSSockets \in {{}, Sockets}, rdt \in Platform, NEW w \in RDTWorkLoad, NEW m,
         Candidates(w, m), NEW s \in Sockets
  PROVE  Shapely(m[s], s)
<1>1. Type(w) \in PoolName
  BY DEF Candidates
<1>2. PICK o \in Orders : \A z \in Sockets : m[z] = enforceCache(w)[o[z]] /\ m[z] # {}
  BY DEF Candidates
<1>3. o[s] \in Sockets
  BY DEF Orders
<1>4. \/ m[s] = CbmMask
      \/ m[s] \subseteq GetCachePoolLayout(Type(w), o[s]) /\ Contiguous(m[s])
  BY <1>1, <1>2, <1>3, CandidateShape
<1>5. GetCachePoolLayout(Type(w), o[s]) = GetCachePoolLayout(Type(w), s)
  BY <1>1, <1>3, LayoutsAgree
<1> QED BY <1>1, <1>2, <1>4, <1>5 DEF Shapely

(* Every step keeps MaskShape.                                             *)
LEMMA NextKeepsMaskShape ==
  ASSUME OSSockets \in {{}, Sockets}, ManagerInv, MaskShape, [Next]_vars
  PROVE  MaskShape'
<1> SUFFICES ASSUME NEW g \in PoolClos, NEW s \in Sockets
             PROVE  Shapely(rdt'.mask[g][s], s)
  BY DEF MaskShape, Shapely
<1>1. Shapely(rdt.mask[g][s], s) /\ rdt \in Platform /\ g \in Group
  BY MaskShapeMeans, PoolGroups DEF ManagerInv, TypeOK
<1>2. CASE rdt'.mask[g][s] = rdt.mask[g][s] \/ rdt'.mask[g][s] = CbmMask
  BY <1>1, <1>2 DEF Shapely
<1>3. CASE Quiet \/ Ending \/ LoadWorkloads \/ Marking \/ StartServing
  BY <1>2, <1>3 DEF Quiet, Ending, LoadWorkloads, Marking, StartServing
<1>4. ASSUME NEW t \in Threads, EnforceOf(t) PROVE Shapely(rdt'.mask[g][s], s)
  <2> DEFINE w == thread[t].w
  <2>1. w \in RDTWorkLoad /\ EnforceChanges(w)
    BY <1>4 DEF EnforceOf
  <2> HIDE DEF w
  <2>2. CASE rdt'.mask = rdt.mask
    BY <1>2, <2>2
  <2>3. ASSUME NEW c \in PoolClos, NEW r, Commits(w, r, c), rdt'.mask = r.rdt.mask
        PROVE  Shapely(rdt'.mask[g][s], s)
    <3>1. \/ rdt'.mask[g] = rdt.mask[g]
          \/ Candidates(w, rdt'.mask[g])
      BY <2>3, CommitMasks
    <3> QED BY <1>1, <1>2, <2>1, <3>1, CandidatesShapely
  <2> QED BY <2>1, <2>2, <2>3 DEF EnforceChanges
<1>5. ASSUME NEW t \in Threads, ReleaseOf(t) PROVE Shapely(rdt'.mask[g][s], s)
  <2>1. rdt'.mask[g] = rdt.mask[g] \/ rdt'.mask[g][s] = CbmMask
    BY <1>5, ReleaseMasks DEF ReleaseOf
  <2> QED BY <1>2, <2>1
<1>6. CASE ResetAPI
  BY <1>1, <1>2, <1>6, FreshEffect DEF ResetAPI
<1>7. CASE SanityCheck
  <2>1. PICK e : e = SetOSGroup(rdt, [InitCLOSPool EXCEPT !.avail = <<>>])
    OBVIOUS
  <2>2. e \in Platform /\ e.mask[g] = rdt.mask[g]
    BY <1>1, <2>1, SetOSGroupEffect
  <2>3. rdt'.mask[g] = e.mask[g]
    BY <1>7, <2>1, <2>2, SetInfraGroupEffect DEF SanityCheck
  <2> QED BY <1>2, <2>2, <2>3
<1> QED BY <1>3, <1>4, <1>5, <1>6, <1>7, PlatformSteps

(* The masks with which RMD starts are the default.                        *)
LEMMA InitMasks ==
  ASSUME Init
  PROVE  \A g \in PoolClos, s \in Sockets : rdt.mask[g][s] = CbmMask
<1>1. PICK h : h = FreshPlatform("percentage")
  OBVIOUS
<1>2. h \in Platform /\ \A g \in Group, s \in Sockets : h.mask[g][s] = CbmMask
  BY <1>1, FreshEffect DEF MbaMode
<1>3. PICK e : e = SetOSGroup(h, pool)
  OBVIOUS
<1>4. e \in Platform /\ \A g \in PoolClos : e.mask[g] = h.mask[g] /\ g \in Group
  BY <1>2, <1>3, SetOSGroupEffect, PoolGroups
<1>5. rdt = SetInfraGroup(e)
  BY <1>1, <1>3, InitManager
<1>6. \A g \in PoolClos : rdt.mask[g] = e.mask[g]
  BY <1>4, <1>5, SetInfraGroupEffect
<1> QED BY <1>2, <1>4, <1>6

(* libpqos refuses masks with holes, and pools are what the configuration  *)
(* promises: on every host on which the OS has CPUs on all caches or on    *)
(* none, whatever is requested, in any interleaving and after any crash,   *)
(* the mask of a class is the default or one run of ways of one pool.      *)
THEOREM MaskShapeHolds ==
  ASSUME OSSockets \in {{}, Sockets}
  PROVE  Spec => []MaskShape
<1>1. Init => MaskShape
  BY InitMasks, MaskShapeMeans DEF Shapely
<1>2. ManagerInv /\ MaskShape /\ [Next]_vars => MaskShape'
  BY NextKeepsMaskShape
<1> QED BY <1>1, <1>2, ManagerInvHolds, PTL DEF Spec

-----------------------------------------------------------------------------
(* The OS group.                                                           *)

(* No handler is about to enforce a bandwidth for shared cache, for which  *)
(* enforceRDT would reserve a class without recomputing the OS group.      *)
NoSharedBandwidth ==
  \A t \in Threads : thread[t].pc \in {"enforce", "reenforce"} =>
                        ~(CacheOf(thread[t].w).max = 0 /\ UsesMba(thread[t].w))

(* The ways of class g are the default, or none of the OS group's.         *)
ClearOfOS(g) == \A s \in Sockets :
                   rdt.mask[g][s] = CbmMask \/ rdt.mask[g][s] \cap rdt.mask[0][s] = {}

(* While the process starts this is so of every class: which of them will  *)
(* be visible is not known before all rows are marked.                     *)
OSInv == /\ phase \in {"init", "mark"} => \A g \in PoolClos : ClearOfOS(g)
         /\ phase = "up" => \A g \in PoolClos \cap Visible(pool) : ClearOfOS(g)

(* Recomputing the OS group makes all visible classes clear of it, because *)
(* no pool has the first ways of the OS.                                   *)
LEMMA RecomputedIsClear ==
  ASSUME OSSockets = Sockets, NEW h, NEW p,
         \A g \in PoolClos, s \in Sockets : Shapely(h.mask[g][s], s), OSRecomputed(h, p)
  PROVE  \A g \in PoolClos \cap Visible(p), s \in Sockets :
            h.mask[g][s] = CbmMask \/ h.mask[g][s] \cap h.mask[0][s] = {}
<1> SUFFICES ASSUME NEW g \in PoolClos \cap Visible(p), NEW s \in Sockets, h.mask[g][s] # CbmMask
             PROVE  h.mask[g][s] \cap h.mask[0][s] = {}
  OBVIOUS
<1>1. g \notin {0, 1}
  BY PoolGroups
<1>2. h.mask[g][s] \cap h.mask[0][s] \subseteq 0 .. (OSWays - 1)
  BY <1>1 DEF OSRecomputed
<1>3. PICK name \in PoolName : h.mask[g][s] \subseteq GetCachePoolLayout(name, s)
  BY DEF Shapely
<1>4. GetCachePoolLayout(name, s) \cap 0 .. (OSWays - 1) = {}
  BY LayoutSparesOS
<1> QED BY <1>2, <1>3, <1>4

(* Every step keeps OSInv.                                                 *)
LEMMA NextKeepsOS ==
  ASSUME OSSockets = Sockets, ManagerInv, MaskShape, MaskShape', NoSharedBandwidth, OSInv,
         [Next]_vars
  PROVE  OSInv'
<1>1. \A g \in PoolClos, s \in Sockets : Shapely(rdt'.mask[g][s], s)
  BY DEF MaskShape, Shapely
<1>2. ASSUME NEW p, p = pool', OSRecomputed(rdt', p), phase' = "up"
      PROVE  OSInv'
  <2>1. \A g \in PoolClos \cap Visible(p), s \in Sockets :
           rdt'.mask[g][s] = CbmMask \/ rdt'.mask[g][s] \cap rdt'.mask[0][s] = {}
    BY <1>1, <1>2, RecomputedIsClear
  <2> QED BY <1>2, <2>1 DEF OSInv, ClearOfOS, Visible, Available
<1>3. ASSUME phase = "up", phase' = "up", rdt'.mask = rdt.mask,
             Available(pool) \subseteq Available(pool)'
      PROVE  OSInv'
  <2>1. Visible(pool)' \subseteq Visible(pool)
    BY <1>3 DEF Visible
  <2> QED BY <1>3, <2>1 DEF OSInv, ClearOfOS
<1>4. CASE Quiet
  BY <1>4 DEF Quiet, OSInv, ClearOfOS, Visible, Available
<1>5. ASSUME NEW t \in Threads, EnforceOf(t) PROVE OSInv'
  <2> DEFINE w == thread[t].w
  <2>1. /\ w \in RDTWorkLoad /\ EnforceChanges(w) /\ phase = "up" /\ phase' = "up"
        /\ ~(CacheOf(w).max = 0 /\ UsesMba(w))
    BY <1>5 DEF EnforceOf, NoSharedBandwidth
  <2> HIDE DEF w
  <2>2. CASE pool' = pool /\ rdt'.mask = rdt.mask
    BY <1>3, <2>1, <2>2 DEF Available
  <2>3. ASSUME NEW c \in PoolClos, NEW r, Commits(w, r, c), pool' = r.pool,
               rdt'.mask = r.rdt.mask
        PROVE  OSInv'
    <3>1. OSRecomputed(r.rdt, r.pool)
      BY <2>3, CommitMasks
    <3>2. OSRecomputed(rdt', r.pool)
      BY <2>3, <3>1 DEF OSRecomputed
    <3> QED BY <1>2, <2>1, <2>3, <3>2
  <2> QED BY <2>1, <2>2, <2>3 DEF EnforceChanges
<1>6. ASSUME NEW t \in Threads, ReleaseOf(t) PROVE OSInv'
  <2>1. phase = "up" /\ phase' = "up" /\ ReleaseChanges(thread[t].w)
    BY <1>6 DEF ReleaseOf
  <2>2. PICK p : p = pool'
    OBVIOUS
  <2>3. /\ Available(pool) \subseteq Available(p)
        /\ rdt'.mask = rdt.mask \/ OSRecomputed(rdt', p)
    BY <2>1, <2>2, ReleaseMasks
  <2> QED BY <1>2, <1>3, <2>1, <2>2, <2>3 DEF Available
<1>7. CASE Ending
  BY <1>7 DEF Ending, OSInv
<1>8. CASE ResetAPI
  BY <1>8 DEF ResetAPI, OSInv
<1>9. CASE SanityCheck
  <2>1. PICK p : p = [InitCLOSPool EXCEPT !.avail = <<>>]
    OBVIOUS
  <2>2. PICK e : e = SetOSGroup(rdt, p)
    OBVIOUS
  <2>3. /\ e \in Platform /\ phase' = "init" /\ \A x \in Group \ {1} : rdt'.mask[x] = e.mask[x]
    <3>1. e \in Platform
      BY <2>2, SetOSGroupEffect DEF ManagerInv, TypeOK
    <3>2. rdt' = SetInfraGroup(e) /\ phase' = "init"
      BY <1>9, <2>1, <2>2 DEF SanityCheck
    <3> QED BY <3>1, <3>2, SetInfraGroupEffect
  <2>4. Visible(p) = Group
    <3>1. p.avail = <<>>
      BY <2>1 DEF InitCLOSPool, PoolOf
    <3> QED BY <3>1 DEF Visible, Available
  <2>5. PoolClos \cap Visible(p) = PoolClos
    BY <2>4, PoolGroups
  <2>6. OSRecomputed(rdt', p)
    <3>1. /\ \A x \in PoolClos : rdt'.mask[x] = rdt.mask[x]
          /\ \A x \in Visible(p) \ {0, 1}, s \in Sockets :
                \/ rdt.mask[x][s] = CbmMask
                \/ rdt.mask[x][s] \cap rdt'.mask[0][s] \subseteq 0 .. (OSWays - 1)
      <4>1. /\ \A x \in PoolClos : e.mask[x] = rdt.mask[x]
            /\ \A x \in Visible(p) \ {0, 1}, s \in Sockets :
                  \/ rdt.mask[x][s] = CbmMask
                  \/ rdt.mask[x][s] \cap e.mask[0][s] \subseteq 0 .. (OSWays - 1)
        BY <2>2, SetOSGroupEffect DEF ManagerInv, TypeOK
      <4>2. 0 \in Group \ {1} /\ \A x \in PoolClos : x \in Group \ {1}
        BY PoolGroups, NumClosAssumption DEF Group
      <4> QED BY <2>3, <4>1, <4>2
    <3>2. \A x \in Visible(p) \ {0, 1} : x \in PoolClos
      BY PoolGroups DEF Visible
    <3> QED BY <3>1, <3>2 DEF OSRecomputed
  <2>7. \A g \in PoolClos \cap Visible(p), s \in Sockets :
           rdt'.mask[g][s] = CbmMask \/ rdt'.mask[g][s] \cap rdt'.mask[0][s] = {}
    BY <1>1, <2>6, RecomputedIsClear
  <2> QED BY <2>3, <2>5, <2>7 DEF OSInv, ClearOfOS
<1>10. CASE LoadWorkloads \/ Marking
  BY <1>10 DEF LoadWorkloads, Marking, OSInv, ClearOfOS
<1>11. CASE StartServing
  BY <1>11 DEF StartServing, OSInv, ClearOfOS
<1> QED BY <1>4, <1>5, <1>6, <1>7, <1>8, <1>9, <1>10, <1>11, PlatformSteps

(* README: the OS group "does not share/overlap with cache ways in other   *)
(* groups".  Where the OS has a CPU on every cache, and as long as nobody  *)
(* asks for a bandwidth with shared cache, no interleaving of requests,    *)
(* crashes and restarts makes a class of a workload overlap with it.       *)
THEOREM OSDisjointHolds ==
  ASSUME OSSockets = Sockets
  PROVE  Spec /\ []NoSharedBandwidth => []OSDisjoint
<1>1. OSSockets \in {{}, Sockets}
  OBVIOUS
<1>2. Init => OSInv
  BY InitMasks DEF OSInv, ClearOfOS
<1>3. ManagerInv /\ MaskShape /\ MaskShape' /\ NoSharedBandwidth /\ OSInv /\ [Next]_vars => OSInv'
  BY NextKeepsOS
<1>4. OSInv => OSDisjoint
  <2>1. \A g \in Visible(pool) \ {0, 1} : g \in PoolClos \cap Visible(pool)
    BY PoolGroups DEF Visible
  <2> QED BY <2>1 DEF OSInv, OSDisjoint, ClearOfOS
<1>5. Spec => []MaskShape
  BY <1>1, MaskShapeHolds
<1> QED BY <1>2, <1>3, <1>4, <1>5, ManagerInvHolds, PTL DEF Spec

-----------------------------------------------------------------------------
(* Dedicated ways.                                                         *)

(* Two masks that two classes may have on cache s at the same time.        *)
Apart(m, n, s) == \/ m = CbmMask \/ n = CbmMask
                  \/ m \cup n \subseteq GetCachePoolLayout("shared", s)
                  \/ m \cap n = {}

(* What Enforce computes is apart from the masks of all visible classes.   *)
(* (With several caches the masks may go to other caches than those for    *)
(* which they were computed; with shrinking they are taken from others.)   *)
LEMMA CandidatesApart ==
  ASSUME \A s, t \in Sockets : s = t, ~Shrink, rdt \in Platform, MaskShape,
         NEW w \in RDTWorkLoad, NEW m, Candidates(w, m),
         NEW g \in Visible(pool) \ {0, 1}, NEW s \in Sockets
  PROVE  Apart(m[s], rdt.mask[g][s], s) /\ Apart(rdt.mask[g][s], m[s], s)
<1> DEFINE n    == rdt.mask[g][s]
           l    == GetCachePoolLayout(Type(w), s)
           free == GetAvailableCacheSchemata(rdt, pool, l, s)
<1>1. Type(w) \in PoolName /\ "shared" \in PoolName /\ g \in PoolClos
  BY PoolGroups DEF Candidates, Visible, PoolName
<1>2. PICK o \in Orders : \A z \in Sockets : m[z] = enforceCache(w)[o[z]]
  BY DEF Candidates
<1>3. o[s] \in Sockets
  BY DEF Orders
<1>4. o[s] = s
  BY <1>3
<1>5. m[s] = enforceCache(w)[s]
  BY <1>2, <1>4
<1>6. /\ Type(w) = "shared" => m[s] = l
      /\ Type(w) # "shared" => m[s] = CbmMask \/ m[s] \subseteq free
  BY <1>1, <1>5, CandidateShape
<1>7. l \in SUBSET Ways
  BY <1>1, LayoutShape
<1>8. n = CbmMask \/ n \cap free = {}
  <2> HIDE DEF l
  <2> QED BY <1>7, FreeWays
<1>9. n = CbmMask \/ \E name \in PoolName : n \subseteq GetCachePoolLayout(name, s)
  BY <1>1 DEF MaskShape
<1>10. CASE Type(w) = "shared"
  <2>1. m[s] = GetCachePoolLayout("shared", s)
    BY <1>6, <1>10
  <2>2. CASE n = CbmMask \/ n \subseteq GetCachePoolLayout("shared", s)
    BY <2>1, <2>2 DEF Apart
  <2>3. ASSUME NEW name \in PoolName \ {"shared"}, n \subseteq GetCachePoolLayout(name, s)
        PROVE  n \cap m[s] = {}
    <3>1. GetCachePoolLayout(name, s) \cap GetCachePoolLayout("shared", s) = {}
      BY <1>1, LayoutsDisjoint
    <3> QED BY <2>1, <2>3, <3>1
  <2> QED BY <1>9, <2>2, <2>3 DEF Apart
<1>11. CASE Type(w) # "shared"
  <2> HIDE DEF free
  <2> QED BY <1>6, <1>8, <1>11 DEF Apart
<1> QED BY <1>10, <1>11

(* WaysExclusive while the process is up.                                  *)
LEMMA WaysExclusiveMeans ==
  ASSUME phase = "up"
  PROVE  WaysExclusive <=>
           \A g, h \in Visible(pool) \ {0, 1}, s \in Sockets :
              g = h \/ Apart(rdt.mask[g][s], rdt.mask[h][s], s)
BY DEF WaysExclusive, Apart

(* Every step of a process that serves keeps WaysExclusive.                *)
LEMMA ServingKeepsExclusive ==
  ASSUME \A s, t \in Sockets : s = t, ~Shrink, ManagerInv, MaskShape, NoSharedBandwidth,
         WaysExclusive, phase = "up", phase' = "up", [Next]_vars
  PROVE  WaysExclusive'
<1> DEFINE Old == Visible(pool) \ {0, 1}
           New == Visible(pool)' \ {0, 1}
<1> SUFFICES ASSUME NEW g \in New, NEW h \in New, NEW s \in Sockets, g # h
             PROVE  Apart(rdt'.mask[g][s], rdt'.mask[h][s], s)
  BY DEF WaysExclusive, Apart
<1>1. g \in PoolClos /\ h \in PoolClos /\ rdt \in Platform
  BY PoolGroups DEF Visible, ManagerInv, TypeOK
<1>2. \A x, y \in Old : x = y \/ Apart(rdt.mask[x][s], rdt.mask[y][s], s)
  BY WaysExclusiveMeans
<1>3. CASE Quiet
  BY <1>2, <1>3 DEF Quiet, Visible, Available
<1>4. ASSUME NEW t \in Threads, EnforceOf(t)
      PROVE  Apart(rdt'.mask[g][s], rdt'.mask[h][s], s)
  <2> DEFINE w == thread[t].w
  <2>1. w \in RDTWorkLoad /\ EnforceChanges(w) /\ ~(CacheOf(w).max = 0 /\ UsesMba(w))
    BY <1>4 DEF EnforceOf, NoSharedBandwidth
  <2> HIDE DEF w
  <2>2. CASE pool' = pool /\ rdt'.mask = rdt.mask
    BY <1>2, <2>2 DEF Visible, Available
  <2>3. ASSUME NEW c \in PoolClos, NEW r, Commits(w, r, c), pool' = r.pool,
               rdt'.mask = r.rdt.mask
        PROVE  Apart(rdt'.mask[g][s], rdt'.mask[h][s], s)
    <3>1. /\ \A x \in PoolClos \ {c} : rdt'.mask[x] = rdt.mask[x]
          /\ Available(pool) \subseteq Available(r.pool) \cup {c}
          /\ \/ c \in Visible(pool) /\ rdt'.mask[c] = rdt.mask[c]
             \/ Candidates(w, rdt'.mask[c])
      BY <2>3, CommitMasks
    <3>2. g \in Old \cup {c} /\ h \in Old \cup {c}
      BY <2>3, <3>1 DEF Visible, Available
    <3>3. CASE Candidates(w, rdt'.mask[c])
      <4>1. \A x \in Old : /\ Apart(rdt'.mask[c][s], rdt.mask[x][s], s)
                           /\ Apart(rdt.mask[x][s], rdt'.mask[c][s], s)
        BY <1>1, <2>1, <3>3, CandidatesApart
      <4> QED BY <1>1, <1>2, <3>1, <3>2, <4>1
    <3>4. CASE c \in Visible(pool) /\ rdt'.mask[c] = rdt.mask[c]
      <4>1. c \in Old
        BY <3>4, PoolGroups
      <4> QED BY <1>1, <1>2, <3>1, <3>2, <3>4, <4>1
    <3> QED BY <3>1, <3>3, <3>4
  <2> QED BY <2>1, <2>2, <2>3 DEF EnforceChanges
<1>5. ASSUME NEW t \in Threads, ReleaseOf(t)
      PROVE  Apart(rdt'.mask[g][s], rdt'.mask[h][s], s)
  <2>1. PICK p : p = pool'
    OBVIOUS
  <2>2. /\ Available(pool) \subseteq Available(p)
        /\ \A x \in PoolClos : rdt'.mask[x] = rdt.mask[x] \/ rdt'.mask[x][s] = CbmMask
    BY <1>5, <2>1, ReleaseMasks DEF ReleaseOf
  <2>3. g \in Old /\ h \in Old
    BY <2>1, <2>2 DEF Visible, Available
  <2> QED BY <1>1, <1>2, <2>2, <2>3 DEF Apart
<1>6. CASE Ending \/ ResetAPI \/ SanityCheck \/ LoadWorkloads \/ Marking \/ StartServing
  BY <1>6 DEF Ending, ResetAPI, SanityCheck, LoadWorkloads, Marking, StartServing
<1> QED BY <1>3, <1>4, <1>5, <1>6, PlatformSteps

(* README: cache ways of guaranteed and best-effort workloads "are         *)
(* dedicated to their associated workloads".  On a host with one cache and *)
(* without shrinking, until the process ends for the first time and as     *)
(* long as nobody asks for a bandwidth with shared cache, no two reserved  *)
(* classes ever overlap outside the shared pool: not even when requests    *)
(* for the same workload overlap, when tasks end between any two steps, or *)
(* when a class is twice in the available list.                            *)
THEOREM WaysExclusiveHolds ==
  ASSUME \A s, t \in Sockets : s = t, ~Shrink
  PROVE  Spec /\ [](phase = "up" /\ NoSharedBandwidth) => []WaysExclusive
<1>1. OSSockets \in {{}, Sockets}
  BY SocketsAssumption
<1>2. Init => WaysExclusive
  <2> SUFFICES ASSUME Init PROVE WaysExclusive
    OBVIOUS
  <2>1. \A g \in Visible(pool) \ {0, 1} : g \in PoolClos
    BY PoolGroups DEF Visible
  <2> QED BY <2>1, InitMasks DEF WaysExclusive
<1>3. /\ ManagerInv /\ MaskShape /\ WaysExclusive /\ [Next]_vars
      /\ (phase = "up" /\ NoSharedBandwidth) /\ (phase = "up" /\ NoSharedBandwidth)'
      => WaysExclusive'
  BY ServingKeepsExclusive
<1>4. Spec => []MaskShape
  BY <1>1, MaskShapeHolds
<1> QED BY <1>2, <1>3, <1>4, ManagerInvHolds, PTL DEF Spec

-----------------------------------------------------------------------------
(* What the validator removes.                                             *)

(* Id i stands for a workload with these tasks: in a row, in the hand of a *)
(* handler, or in the list that a scan has read.                           *)
StandsFor(i, tasks) ==
  \/ i \in RowIds(db) /\ db.rows[i].tasks = tasks
  \/ \E t \in Threads : /\ thread[t].w # NoRow
                        /\ thread[t].w.id = i /\ thread[t].w.tasks = tasks
  \/ \E t \in Threads : thread[t].ws[i] # NoRow /\ thread[t].ws[i].tasks = tasks

(* Copies of a workload that have gone out of date differ in other things  *)
(* than the tasks, and no id has been used that is still to be generated.  *)
IdsOnce ==
  \A i \in Ids, a \in SUBSET Tasks : StandsFor(i, a) =>
    i <= db.seq /\ \A b \in SUBSET Tasks : StandsFor(i, b) => a = b

(* A workload gets its id when it is stored.                               *)
NewHaveNoId ==
  \A t \in Threads \ {Validator} :
    thread[t].pc \in {"enforce", "undo", "create"} => thread[t].w.id = NoId

PatchesSpareTasks ==
  \A t \in Threads \ {Validator} :
    thread[t].pc \in {"lock", "scan", "update"} => thread[t].patch.tasks = {}

SnapshotsKeyed ==
  \A t \in Threads : \A i \in Ids : thread[t].ws[i] # NoRow => thread[t].ws[i].id = i

DownIsIdle == phase = "down" => \A t \in Threads : thread[t].pc = "idle"

SpareInv == IdsOnce /\ NewHaveNoId /\ PatchesSpareTasks /\ SnapshotsKeyed /\ DownIsIdle

(* A step that changes no thread and at most removes rows.                 *)
LEMMA RemovingKeepsSpare ==
  ASSUME SpareInv, thread' = thread, RowIds(db)' \subseteq RowIds(db), db'.seq = db.seq,
         \A i \in RowIds(db)' : db'.rows[i] = db.rows[i], phase' = "down" => phase = "down"
  PROVE  SpareInv'
<1>1. \A i, a : StandsFor(i, a)' => StandsFor(i, a)
  BY DEF StandsFor
<1>2. IdsOnce'
  BY <1>1 DEF SpareInv, IdsOnce
<1> QED BY <1>2 DEF SpareInv, NewHaveNoId, PatchesSpareTasks, SnapshotsKeyed, DownIsIdle

(* The end of the process.                                                 *)
LEMMA DownKeepsSpare ==
  ASSUME SpareInv, Down, db' = db
  PROVE  SpareInv'
<1>1. \A t \in Threads : thread'[t] = Idle
  BY DEF Down
<1>2. /\ Idle.pc = "idle" /\ Idle.w = NoRow
      /\ \A i \in Ids : Idle.ws[i] = NoRow
  BY DEF Idle, NoRows
<1>3. \A i \in Ids : \A a : StandsFor(i, a)' => StandsFor(i, a)
  BY <1>1, <1>2 DEF StandsFor
<1>4. IdsOnce'
  BY <1>3 DEF SpareInv, IdsOnce
<1> QED BY <1>1, <1>2, <1>4 DEF SpareInv, NewHaveNoId, PatchesSpareTasks, SnapshotsKeyed, DownIsIdle

(* A step of thread t to the locals x, if every copy that it makes or      *)
(* stores is a copy of something known.                                    *)
LEMMA CopyingKeepsSpare ==
  ASSUME ThreadsGood, SpareInv, NEW t \in Threads, NEW x, Goto(t, x),
         \/ x.w = NoRow
         \/ x.w.id \in Ids => StandsFor(x.w.id, x.w.tasks),
         \A i \in Ids : x.ws[i] # NoRow => x.ws[i].id = i /\ StandsFor(i, x.ws[i].tasks),
         t # Validator /\ x.pc \in {"enforce", "undo", "create"} => x.w.id = NoId,
         t # Validator /\ x.pc \in {"lock", "scan", "update"} => x.patch.tasks = {},
         \A i \in RowIds(db)' : StandsFor(i, db'.rows[i].tasks),
         db'.seq = db.seq, phase' # "down"
  PROVE  SpareInv'
<1>1. \A u \in Threads : thread'[u] = IF u = t THEN x ELSE thread[u]
  BY DEF ThreadsGood, Goto
<1>2. \A i \in Ids : \A a : StandsFor(i, a)' => StandsFor(i, a)
  <2> SUFFICES ASSUME NEW i \in Ids, NEW a, StandsFor(i, a)' PROVE StandsFor(i, a)
    OBVIOUS
  <2>1. CASE i \in RowIds(db)' /\ db'.rows[i].tasks = a
    BY <2>1
  <2>2. ASSUME NEW u \in Threads, thread'[u].w # NoRow, thread'[u].w.id = i,
               thread'[u].w.tasks = a
        PROVE  StandsFor(i, a)
    <3>1. CASE u = t
      BY <1>1, <2>2, <3>1
    <3>2. CASE u # t
      BY <1>1, <2>2, <3>2 DEF StandsFor
    <3> QED BY <3>1, <3>2
  <2>3. ASSUME NEW u \in Threads, thread'[u].ws[i] # NoRow, thread'[u].ws[i].tasks = a
        PROVE  StandsFor(i, a)
    <3>1. CASE u = t
      BY <1>1, <2>3, <3>1
    <3>2. CASE u # t
      BY <1>1, <2>3, <3>2 DEF StandsFor
    <3> QED BY <3>1, <3>2
  <2> QED BY <2>1, <2>2, <2>3 DEF StandsFor
<1>3. IdsOnce'
  BY <1>2 DEF SpareInv, IdsOnce
<1>4. NewHaveNoId' /\ PatchesSpareTasks'
  BY <1>1 DEF SpareInv, NewHaveNoId, PatchesSpareTasks
<1>5. SnapshotsKeyed' /\ DownIsIdle'
  BY <1>1 DEF SpareInv, SnapshotsKeyed, DownIsIdle
<1> QED BY <1>3, <1>4, <1>5 DEF SpareInv

(* The same for a step that leaves the rows alone, or removes some.        *)
LEMMA RowsStand ==
  ASSUME RowIds(db)' \subseteq RowIds(db), \A i \in RowIds(db)' : db'.rows[i] = db.rows[i]
  PROVE  \A i \in RowIds(db)' : StandsFor(i, db'.rows[i].tasks)
BY DEF StandsFor

(* The two shapes of locals that most steps end with have read no rows.    *)
LEMMA FreshLocals ==
  /\ Idle.pc = "idle" /\ Idle.w = NoRow /\ \A i \in Ids : Idle.ws[i] = NoRow
  /\ \A pc, w : /\ At(pc, w).pc = pc /\ At(pc, w).w = w
                /\ \A i \in Ids : At(pc, w).ws[i] = NoRow
BY DEF Idle, At, NoRows

(* A handler ends.                                                         *)
LEMMA EndingKeepsSpare ==
  ASSUME ThreadsGood, SpareInv, NEW t \in Threads, Goto(t, Idle), phase' # "down",
         \A i \in RowIds(db)' : StandsFor(i, db'.rows[i].tasks), db'.seq = db.seq
  PROVE  SpareInv'
BY FreshLocals, CopyingKeepsSpare

(* A handler goes on with a workload that is known under its id, or is new.*)
LEMMA GoingKeepsSpare ==
  ASSUME ThreadsGood, SpareInv, NEW t \in Threads, NEW w,
         NEW pc \in {"enforce", "undo", "create", "release", "delete", "reenforce", "store"},
         Goto(t, At(pc, w)), db' = db, phase' # "down",
         w.id \in Ids => StandsFor(w.id, w.tasks),
         pc \in {"enforce", "undo", "create"} => w.id = NoId
  PROVE  SpareInv'
<1>1. \A i \in RowIds(db)' : StandsFor(i, db'.rows[i].tasks)
  BY RowsStand
<1> QED BY <1>1, FreshLocals, CopyingKeepsSpare

(* What a handler has in its hands is known under its id.                  *)
LEMMA HandsStand ==
  ASSUME NEW t \in Threads, thread[t].w \in RDTWorkLoad
  PROVE  StandsFor(thread[t].w.id, thread[t].w.tasks)
BY NoRowAssumption DEF StandsFor

(* The requests of clients and notifications.                              *)
LEMMA BeginKeepsSpare ==
  ASSUME ManagerInv, SpareInv, \A p \in Patches : p.tasks = {}, NEW t \in Threads \ {Validator},
         \/ \E w \in RDTWorkLoad : BeginCreate(t, w) /\ w.id = NoId
         \/ \E i \in RowIds(db) : \E o : BeginDelete(t, db.rows[i], o)
         \/ Patch(t)
  PROVE  SpareInv'
<1>1. \A i \in RowIds(db) : /\ db.rows[i].id = i /\ i \in Ids
                            /\ StandsFor(i, db.rows[i].tasks)
  BY DEF ManagerInv, RowsKeyed, StandsFor, RowIds
<1>2. ThreadsGood /\ NoId \notin Ids
  BY IdsAssumption DEF ManagerInv, Ids
<1>3. ASSUME NEW w \in RDTWorkLoad, BeginCreate(t, w), w.id = NoId
      PROVE  SpareInv'
  <2>1. Goto(t, At("enforce", FilledByPolicy(w))) /\ db' = db /\ phase' # "down"
    BY <1>3 DEF BeginCreate, Running
  <2>2. FilledByPolicy(w).id = NoId
    BY <1>3, Filled DEF SameButParams
  <2> QED BY <1>2, <2>1, <2>2, GoingKeepsSpare
<1>4. ASSUME NEW i \in RowIds(db), NEW o, BeginDelete(t, db.rows[i], o)
      PROVE  SpareInv'
  <2>1. Goto(t, At("release", db.rows[i])) /\ db' = db /\ phase' # "down"
    BY <1>4 DEF BeginDelete, Running
  <2> QED BY <1>1, <1>2, <2>1, GoingKeepsSpare
<1>5. CASE Patch(t)
  <2>1. PICK i \in RowIds(db), p \in Patches :
          /\ Goto(t, [pc |-> "lock", w |-> db.rows[i], patch |-> p, ws |-> NoRows])
          /\ db' = db /\ phase' # "down"
    BY <1>5 DEF Patch, Running
  <2> DEFINE x == [pc |-> "lock", w |-> db.rows[i], patch |-> p, ws |-> NoRows]
  <2>2. /\ x.pc = "lock" /\ x.w = db.rows[i] /\ x.patch = p
        /\ \A j \in Ids : x.ws[j] = NoRow
    BY DEF NoRows
  <2>3. Goto(t, x)
    BY <2>1
  <2> HIDE DEF x
  <2>4. \A j \in RowIds(db)' : StandsFor(j, db'.rows[j].tasks)
    BY <2>1, RowsStand
  <2> QED BY <1>1, <1>2, <2>1, <2>2, <2>3, <2>4, CopyingKeepsSpare
<1> QED BY <1>3, <1>4, <1>5

(* Enforce and Release leave the id and the tasks alone.                   *)
LEMMA EnforceKeepsSpare ==
  ASSUME ManagerInv, SpareInv, NEW t \in Threads,
         EnforceNew(t) \/ EnforceEnds(t) \/ EnforcePatched(t)
  PROVE  SpareInv'
<1>1. CASE EnforceEnds(t)
  BY <1>1, DownKeepsSpare DEF EnforceEnds
<1>2. ASSUME NEW pc, NEW next, EnforceStep(t, pc, next),
             (pc = "enforce" /\ next = "create") \/ (pc = "reenforce" /\ next = "store")
      PROVE  SpareInv'
  <2>1. /\ t # Validator /\ thread[t].w \in RDTWorkLoad /\ thread[t].pc = pc
        /\ phase = "up"
    BY <1>2, EnforceStepEffect
  <2>2. phase' # "down" /\ db' = db
    BY <1>2, <2>1 DEF EnforceStep
  <2>3. StandsFor(thread[t].w.id, thread[t].w.tasks)
    BY <2>1, HandsStand
  <2>4. pc = "enforce" => thread[t].w.id = NoId
    BY <2>1 DEF SpareInv, NewHaveNoId
  <2>5. CASE Goto(t, Idle)
    BY <2>2, <2>5, RowsStand, EndingKeepsSpare DEF ManagerInv
  <2>6. ASSUME NEW u, u.id = thread[t].w.id, u.tasks = thread[t].w.tasks,
               Goto(t, At(next, u)) \/ (next = "create" /\ Goto(t, At("undo", u)))
        PROVE  SpareInv'
    BY <1>2, <2>2, <2>3, <2>4, <2>6, GoingKeepsSpare DEF ManagerInv
  <2> QED BY <1>2, <2>5, <2>6, EnforceStepEffect
<1> QED BY <1>1, <1>2 DEF EnforceNew, EnforcePatched

(* The Release of a DELETE or a PATCH.                                     *)
LEMMA ReleaseKeepsSpare ==
  ASSUME ManagerInv, SpareInv, NEW t \in Threads, ReleaseOld(t) \/ ReleaseForPatch(t)
  PROVE  SpareInv'
<1>1. \E pc, done : pc \in {"release", "update"} /\ ReleaseStep(t, pc, done)
  BY DEF ReleaseOld, ReleaseForPatch
<1>2. /\ t # Validator /\ thread[t].w \in RDTWorkLoad /\ phase = "up"
  BY <1>1, ReleaseStepEffect
<1>3. phase' # "down" /\ db' = db
  BY <1>1, <1>2 DEF ReleaseStep
<1>4. StandsFor(thread[t].w.id, thread[t].w.tasks)
  BY <1>2, HandsStand
<1>5. \A j \in RowIds(db)' : StandsFor(j, db'.rows[j].tasks)
  BY <1>3, RowsStand
<1>6. CASE Goto(t, Idle)
  BY <1>3, <1>5, <1>6, EndingKeepsSpare DEF ManagerInv
<1>7. CASE ReleaseOld(t)
  <2> DEFINE x == [thread[t] EXCEPT !.pc = "delete"]
  <2>1. Goto(t, x) \/ Goto(t, Idle)
    BY <1>7, ReleaseStepEffect DEF ReleaseOld
  <2>2. thread[t] \in Thread
    BY DEF ManagerInv, ThreadsGood
  <2>3. x.pc = "delete" /\ x.w = thread[t].w /\ x.ws = thread[t].ws
    BY <2>2 DEF Thread
  <2> HIDE DEF x
  <2>4. \A i \in Ids : x.ws[i] # NoRow => x.ws[i].id = i /\ StandsFor(i, x.ws[i].tasks)
    BY <2>3 DEF SpareInv, SnapshotsKeyed, StandsFor
  <2> QED BY <1>3, <1>4, <1>5, <1>6, <2>1, <2>3, <2>4, CopyingKeepsSpare DEF ManagerInv
<1>8. CASE ReleaseForPatch(t)
  <2> DEFINE u == Patched(thread[t].w, thread[t].patch)
  <2>1. ReleaseStep(t, "update", At("reenforce", u))
    BY <1>8 DEF ReleaseForPatch
  <2>2. thread[t].pc = "update" /\ (Goto(t, At("reenforce", u)) \/ Goto(t, Idle))
    BY <2>1, ReleaseStepEffect
  <2>3. thread[t].patch \in Request /\ thread[t].patch.tasks = {}
    BY <1>2, <2>2, RequestsAssumption
       DEF ManagerInv, ThreadsGood, GoodLocal, SpareInv, PatchesSpareTasks
  <2>4. u.id = thread[t].w.id /\ u.tasks = thread[t].w.tasks
    BY <1>2, <2>3, PatchedParams DEF SameButParams
  <2> HIDE DEF u
  <2> QED BY <1>3, <1>4, <1>6, <2>2, <2>4, GoingKeepsSpare DEF ManagerInv
<1> QED BY <1>7, <1>8

(* Create gives the next id, which stands for nothing yet.                 *)
LEMMA CreateKeepsSpare ==
  ASSUME ManagerInv, SpareInv, NEW t \in Threads, Create(t)
  PROVE  SpareInv'
<1> DEFINE w == thread[t].w
           k == db.seq + 1
<1>1. t # Validator /\ w \in RDTWorkLoad /\ thread[t].pc = "create" /\ phase = "up"
  <2>1. "create" \in PCs \ {"idle", "scan"} /\ Running(t, "create")
    BY DEF PCs, Create
  <2> QED BY <2>1, HandlerRuns DEF ManagerInv, Running
<1>2. w.id = NoId
  BY <1>1 DEF SpareInv, NewHaveNoId
<1>3. db \in Database /\ db.seq \in Nat /\ NoId \notin Ids
  BY DatabaseFields, IdsAssumption DEF ManagerInv, TypeOK, Ids
<1>4. NextIdExists(db, w) /\ db' = CreateWorkload(db, w) /\ Goto(t, Idle) /\ phase' = phase
  BY DEF Create
<1> HIDE DEF w
<1>5. CreatedId(db, w) = k
  BY <1>2 DEF CreatedId
<1>6. /\ RowIds(db)' = RowIds(db) \cup {k} /\ db'.rows[k].tasks = w.tasks
      /\ \A i \in Ids \ {k} : db'.rows[i] = db.rows[i]
      /\ db'.seq = k /\ k \in Ids
  BY <1>1, <1>2, <1>3, <1>4, <1>5, CreateEffect
<1>7. \A u \in Threads : thread'[u] = IF u = t THEN Idle ELSE thread[u]
  BY <1>4 DEF ManagerInv, ThreadsGood, Goto
<1>8. \A i \in Ids : \A a : StandsFor(i, a)' => StandsFor(i, a) \/ (i = k /\ a = w.tasks)
  BY <1>6, <1>7, FreshLocals DEF StandsFor, RowIds
<1>9. IdsOnce'
  <2>1. \A i \in Ids, a \in SUBSET Tasks : StandsFor(i, a) => i < k
    BY <1>3 DEF SpareInv, IdsOnce, Ids
  <2> HIDE DEF k
  <2>2. \A i \in Ids, a \in SUBSET Tasks : StandsFor(i, a)' =>
           i <= k /\ \A b \in SUBSET Tasks : StandsFor(i, b)' => a = b
    <3> SUFFICES ASSUME NEW i \in Ids, NEW a \in SUBSET Tasks, StandsFor(i, a)'
                 PROVE  i <= k /\ \A b \in SUBSET Tasks : StandsFor(i, b)' => a = b
      OBVIOUS
    <3>1. i \in Nat /\ k \in Nat
      BY <1>6 DEF Ids
    <3>2. CASE i = k
      BY <1>8, <2>1, <3>1, <3>2
    <3>3. CASE i # k
      BY <1>8, <2>1, <3>1, <3>3 DEF SpareInv, IdsOnce
    <3> QED BY <3>2, <3>3
  <2> QED BY <1>6, <2>2 DEF IdsOnce
<1>10. NewHaveNoId' /\ PatchesSpareTasks'
  BY <1>7, FreshLocals DEF SpareInv, NewHaveNoId, PatchesSpareTasks
<1>11. SnapshotsKeyed' /\ DownIsIdle'
  BY <1>1, <1>4, <1>7, FreshLocals DEF SpareInv, SnapshotsKeyed, DownIsIdle
<1> QED BY <1>9, <1>10, <1>11 DEF SpareInv

(* The other transactions of handlers.                                     *)
LEMMA StoreKeepsSpare ==
  ASSUME ManagerInv, SpareInv, NEW t \in Threads, UndoNew(t) \/ DeleteOld(t) \/ updateInDB(t)
  PROVE  SpareInv'
<1> DEFINE w == thread[t].w
<1>1. w \in RDTWorkLoad /\ phase = "up" /\ db \in Database
  <2>1. \E pc \in PCs \ {"idle", "scan"} : Running(t, pc)
    BY DEF UndoNew, DeleteOld, DeleteStep, updateInDB, PCs
  <2> QED BY <2>1, HandlerRuns DEF ManagerInv, TypeOK
<1>2. Goto(t, Idle) /\ phase' # "down"
  BY <1>1 DEF UndoNew, DeleteOld, DeleteStep, updateInDB
<1>3. CASE UndoNew(t) \/ DeleteOld(t)
  <2>1. db' = DeleteWorkload(db, w)
    BY <1>3 DEF UndoNew, DeleteOld, DeleteStep
  <2> HIDE DEF w
  <2>2. /\ RowIds(db') \subseteq RowIds(db) /\ db'.seq = db.seq
        /\ \A i \in RowIds(db') : db'.rows[i] = db.rows[i]
    BY <1>1, <2>1, DeleteEffect
  <2>3. \A i \in RowIds(db)' : StandsFor(i, db'.rows[i].tasks)
    BY <2>2, RowsStand
  <2> QED BY <1>2, <2>2, <2>3, EndingKeepsSpare DEF ManagerInv
<1>4. CASE updateInDB(t)
  <2>1. db' = UpdateWorkload(db, w)
    BY <1>4 DEF updateInDB
  <2>2. w.id \in Ids
    <3>1. "store" \in PCs \ {"idle", "scan"} /\ Running(t, "store")
      BY <1>4 DEF PCs, updateInDB
    <3> QED BY <3>1, HandlerRuns DEF ManagerInv
  <2>3. w.id # NoId
    BY <2>2, IdsAssumption DEF Ids
  <2>4. StandsFor(w.id, w.tasks)
    BY <1>1, HandsStand
  <2> HIDE DEF w
  <2>5. /\ RowIds(db') = RowIds(db) \cup {w.id} /\ db'.rows[w.id] = w /\ db'.seq = db.seq
        /\ \A i \in Ids \ {w.id} : db'.rows[i] = db.rows[i]
    BY <1>1, <2>1, <2>3, UpdateEffect
  <2>6. \A i \in RowIds(db)' : StandsFor(i, db'.rows[i].tasks)
    BY <2>4, <2>5 DEF StandsFor, RowIds
  <2> QED BY <1>2, <2>5, <2>6, EndingKeepsSpare DEF ManagerInv
<1> QED BY <1>3, <1>4

(* dbContentValidation.                                                    *)
LEMMA ScanKeepsSpare ==
  ASSUME ManagerInv, SpareInv, NEW t \in Threads, BeginScan(t) \/ ScanRow(t) \/ EndScan(t)
  PROVE  SpareInv'
<1>1. thread[t] \in Thread /\ db \in Database /\ ThreadsGood
  BY DEF ManagerInv, ThreadsGood, TypeOK
<1>2. phase' # "down"
  BY DEF BeginScan, ScanRow, EndScan, Running
<1>3. \/ thread[t].w = NoRow
      \/ StandsFor(thread[t].w.id, thread[t].w.tasks)
  BY DEF StandsFor
<1>4. \A i \in Ids : thread[t].ws[i] # NoRow =>
        thread[t].ws[i].id = i /\ StandsFor(i, thread[t].ws[i].tasks)
  BY DEF SpareInv, SnapshotsKeyed, StandsFor
<1>5. t # Validator /\ thread[t].pc \in {"lock", "scan"} => thread[t].patch.tasks = {}
  BY DEF SpareInv, PatchesSpareTasks
<1>6. CASE BeginScan(t)
  <2> DEFINE x == [thread[t] EXCEPT !.pc = "scan", !.ws = RowsWithTasks]
  <2>1. /\ x.pc = "scan" /\ x.w = thread[t].w /\ x.patch = thread[t].patch
        /\ x.ws = RowsWithTasks
    BY <1>1 DEF Thread
  <2>2. Goto(t, x) /\ db' = db /\ (t # Validator => thread[t].pc = "lock")
    BY <1>6 DEF BeginScan, Running
  <2> HIDE DEF x
  <2>3. \A i \in Ids : x.ws[i] # NoRow => x.ws[i].id = i /\ StandsFor(i, x.ws[i].tasks)
    BY <2>1 DEF RowsWithTasks, ManagerInv, RowsKeyed, StandsFor
  <2>4. \A i \in RowIds(db)' : StandsFor(i, db'.rows[i].tasks)
    BY <2>2, RowsStand
  <2> QED BY <1>1, <1>2, <1>3, <1>5, <2>1, <2>2, <2>3, <2>4, CopyingKeepsSpare
<1>7. CASE ScanRow(t)
  <2>1. PICK i \in Ids :
          /\ thread[t].ws[i] # NoRow
          /\ db' = db \/ db' = DeleteWorkload(db, thread[t].ws[i])
          /\ Goto(t, [thread[t] EXCEPT !.ws = [@ EXCEPT ![i] = NoRow]])
    BY <1>7 DEF ScanRow, First
  <2> DEFINE x == [thread[t] EXCEPT !.ws = [@ EXCEPT ![i] = NoRow]]
  <2>2. /\ x.pc = thread[t].pc /\ x.w = thread[t].w /\ x.patch = thread[t].patch
        /\ x.ws = [thread[t].ws EXCEPT ![i] = NoRow]
    BY <1>1 DEF Thread
  <2>3. Goto(t, x) /\ thread[t].pc = "scan"
    BY <1>7, <2>1 DEF ScanRow, Running
  <2> HIDE DEF x
  <2>4. thread[t].ws \in Snapshot /\ thread[t].ws[i] \in RDTWorkLoad
    BY <1>1, <2>1 DEF Thread, Snapshot
  <2>5. \A j \in Ids : x.ws[j] # NoRow => x.ws[j].id = j /\ StandsFor(j, x.ws[j].tasks)
    BY <1>4, <2>2, <2>4 DEF Snapshot
  <2>6. /\ RowIds(db') \subseteq RowIds(db) /\ db'.seq = db.seq
        /\ \A j \in RowIds(db') : db'.rows[j] = db.rows[j]
    BY <1>1, <2>1, <2>4, DeleteEffect
  <2>7. \A j \in RowIds(db)' : StandsFor(j, db'.rows[j].tasks)
    BY <2>6, RowsStand
  <2> QED BY <1>1, <1>2, <1>3, <1>5, <2>2, <2>3, <2>5, <2>6, <2>7, CopyingKeepsSpare
<1>8. CASE EndScan(t)
  <2>1. thread[t].pc = "scan" /\ db' = db
    BY <1>8 DEF EndScan, Running
  <2>2. \A i \in RowIds(db)' : StandsFor(i, db'.rows[i].tasks)
    BY <2>1, RowsStand
  <2>3. CASE t = Validator
    BY <1>1, <1>2, <1>8, <2>1, <2>2, <2>3, EndingKeepsSpare DEF EndScan
  <2>4. CASE t # Validator
    <3> DEFINE x == [thread[t] EXCEPT !.pc = "update"]
    <3>1. /\ x.pc = "update" /\ x.w = thread[t].w /\ x.patch = thread[t].patch
          /\ x.ws = thread[t].ws
      BY <1>1 DEF Thread
    <3>2. Goto(t, x)
      BY <1>8, <2>4 DEF EndScan
    <3> HIDE DEF x
    <3> QED BY <1>1, <1>2, <1>3, <1>4, <1>5, <2>1, <2>2, <3>1, <3>2, CopyingKeepsSpare
  <2> QED BY <2>3, <2>4
<1> QED BY <1>6, <1>7, <1>8

(* The ends of a PATCH.                                                    *)
LEMMA PatchKeepsSpare ==
  ASSUME ManagerInv, SpareInv, NEW t \in Threads, RefusePatch(t) \/ UpdateMembers(t)
  PROVE  SpareInv'
<1>1. /\ t # Validator /\ thread[t].pc = "update" /\ phase = "up"
      /\ thread[t].w \in RDTWorkLoad /\ ThreadsGood
  <2>1. "update" \in PCs \ {"idle", "scan"} /\ Running(t, "update")
    BY DEF PCs, RefusePatch, UpdateMembers
  <2> QED BY <2>1, HandlerRuns DEF ManagerInv, Running
<1>2. phase' # "down" /\ db' = db
  BY <1>1 DEF RefusePatch, UpdateMembers
<1>3. \A i \in RowIds(db)' : StandsFor(i, db'.rows[i].tasks)
  BY <1>2, RowsStand
<1>4. CASE Goto(t, Idle)
  BY <1>1, <1>2, <1>3, <1>4, EndingKeepsSpare
<1>5. CASE UpdateMembers(t)
  <2>1. ASSUME NEW u, u.id = thread[t].w.id, u.tasks = thread[t].w.tasks,
               Goto(t, At("store", u))
        PROVE  SpareInv'
    <3>1. StandsFor(u.id, u.tasks)
      BY <1>1, <2>1, HandsStand
    <3> QED BY <1>1, <1>2, <2>1, <3>1, GoingKeepsSpare
  <2>2. thread[t].patch.tasks = {}
    BY <1>1 DEF SpareInv, PatchesSpareTasks
  <2> QED BY <1>4, <1>5, <2>1, <2>2, UpdateMembersEffect
<1>6. CASE RefusePatch(t)
  BY <1>4, <1>6 DEF RefusePatch
<1> QED BY <1>5, <1>6

(* The end of the process, its start, and tasks that end.                  *)
LEMMA BootKeepsSpare ==
  ASSUME ManagerInv, SpareInv,
         Crash \/ ResetAPI \/ SanityCheck \/ LoadWorkloads \/ MarkRow \/ StartServing \/ Exit
  PROVE  SpareInv'
<1>1. db \in Database
  BY DEF ManagerInv, TypeOK
<1>2. CASE Crash
  BY <1>2, DownKeepsSpare DEF Crash
<1>3. CASE ResetAPI \/ LoadWorkloads \/ StartServing \/ Exit
  <2>1. thread' = thread /\ db' = db /\ (phase' = "down" => phase = "down")
    BY <1>3 DEF ResetAPI, LoadWorkloads, StartServing, Exit
  <2> QED BY <2>1, RemovingKeepsSpare
<1>4. CASE SanityCheck
  <2>1. thread' = thread /\ phase' = "init" /\ db' = DBCheck(db)
    BY <1>4 DEF SanityCheck
  <2>2. /\ RowIds(db)' \subseteq RowIds(db) /\ db'.seq = db.seq
        /\ \A i \in RowIds(db)' : db'.rows[i] = db.rows[i]
    BY <1>1, <2>1, DBCheckEffect
  <2> QED BY <2>1, <2>2, RemovingKeepsSpare
<1>5. CASE MarkRow
  <2>1. CASE Down /\ db' = db
    BY <2>1, DownKeepsSpare
  <2>2. ASSUME NEW i \in Ids, boot[i] \in RDTWorkLoad, UNCHANGED <<phase, thread>>,
               db' = IF OtherMode(boot[i]) THEN DeleteWorkload(db, boot[i]) ELSE db
        PROVE  SpareInv'
    <3>1. /\ RowIds(db)' \subseteq RowIds(db) /\ db'.seq = db.seq
          /\ \A j \in RowIds(db)' : db'.rows[j] = db.rows[j]
      BY <1>1, <2>2, DeleteEffect
    <3> QED BY <2>2, <3>1, RemovingKeepsSpare
  <2> QED BY <1>5, <2>1, <2>2, MarkRowEffect
<1> QED BY <1>2, <1>3, <1>4, <1>5

(* Nobody has an id at first.                                              *)
LEMMA InitSpare == Init => SpareInv
<1> SUFFICES ASSUME Init PROVE SpareInv
  OBVIOUS
<1>1. thread = [t \in Threads |-> Idle] /\ db = EmptyDatabase /\ phase = "up"
  BY DEF Init
<1>2. \A t \in Threads : thread[t] = Idle
  BY <1>1
<1>3. RowIds(db) = {}
  BY <1>1 DEF EmptyDatabase, RowIds
<1>4. \A i \in Ids : \A a : ~StandsFor(i, a)
  BY <1>2, <1>3, FreshLocals DEF StandsFor
<1> QED BY <1>1, <1>2, <1>4, FreshLocals
        DEF SpareInv, IdsOnce, NewHaveNoId, PatchesSpareTasks, SnapshotsKeyed, DownIsIdle

(* The rows that DELETE and the delete notification read.                  *)
LEMMA DeletedRow ==
  ASSUME ManagerInv
  PROVE  /\ \A i \in Ids : GetWorkloadByID(db, i) # NoRow =>
              \E j \in RowIds(db) : GetWorkloadByID(db, i) = db.rows[j]
         /\ \A u \in UUIDs : GetWorkloadByUUID(db, u) # NoRow =>
              \E j \in RowIds(db) : GetWorkloadByUUID(db, u) = db.rows[j]
<1>1. db.mapping \in [UUIDs -> Ids \cup {NoId}]
  BY DatabaseFields DEF ManagerInv, TypeOK
<1> QED BY <1>1 DEF GetWorkloadByID, GetWorkloadByUUID, RowIds

(* Every step keeps SpareInv, if clients post no ids and PATCHes change no *)
(* tasks.                                                                  *)
LEMMA NextKeepsSpare ==
  ASSUME PostIds = {}, \A p \in Patches : p.tasks = {}
  PROVE  ManagerInv /\ SpareInv /\ [Next]_vars => SpareInv'
<1> SUFFICES ASSUME ManagerInv, SpareInv, [Next]_vars PROVE SpareInv'
  OBVIOUS
<1>1. CASE UNCHANGED vars
  BY <1>1, RemovingKeepsSpare DEF vars
<1>2. \A t \in Clients : t \in Threads \ {Validator}
  BY ThreadsAssumption DEF Threads
<1>3. Nova \in Threads \ {Validator} /\ Validator \in Threads
  BY ThreadsAssumption DEF Threads
<1>4. \A r, u, o : NewRDTWorkLoad(r, NoId, u, o).id = NoId
  BY DEF NewRDTWorkLoad
<1>5. ASSUME NEW t \in Clients, NewWorkload(t) \/ RefuseNew(t) \/ DeleteByID(t) \/ Patch(t)
      PROVE  SpareInv'
  <2>1. CASE NewWorkload(t)
    <3>1. PICK r \in Requests : BeginCreate(t, NewRDTWorkLoad(r, NoId, NoUUID, "REST"))
      BY <2>1 DEF NewWorkload
    <3>2. NewRDTWorkLoad(r, NoId, NoUUID, "REST") \in RDTWorkLoad
      BY RequestTypes
    <3> QED BY <1>2, <1>4, <3>1, <3>2, BeginKeepsSpare
  <2>2. CASE RefuseNew(t)
    BY <2>2, RemovingKeepsSpare DEF RefuseNew
  <2>3. CASE DeleteByID(t)
    <3>1. PICK i \in Ids : BeginDelete(t, GetWorkloadByID(db, i), "REST")
      BY <2>3 DEF DeleteByID
    <3>2. GetWorkloadByID(db, i) # NoRow
      BY <3>1 DEF BeginDelete
    <3> QED BY <1>2, <3>1, <3>2, DeletedRow, BeginKeepsSpare
  <2>4. CASE Patch(t)
    BY <1>2, <2>4, BeginKeepsSpare
  <2> QED BY <1>5, <2>1, <2>2, <2>3, <2>4
<1>6. CASE processCreateNotification
  <2>1. PICK r \in NovaRequests, u \in UUIDs :
          BeginCreate(Nova, NewRDTWorkLoad(r, NoId, u, "OPENSTACK"))
    BY <1>6 DEF processCreateNotification
  <2>2. NewRDTWorkLoad(r, NoId, u, "OPENSTACK") \in RDTWorkLoad
    BY RequestTypes
  <2> QED BY <1>3, <1>4, <2>1, <2>2, BeginKeepsSpare
<1>7. CASE processDeleteNotification
  <2>1. PICK u \in UUIDs : BeginDelete(Nova, GetWorkloadByUUID(db, u), "OPENSTACK")
    BY <1>7 DEF processDeleteNotification
  <2>2. GetWorkloadByUUID(db, u) # NoRow
    BY <2>1 DEF BeginDelete
  <2> QED BY <1>3, <2>1, <2>2, DeletedRow, BeginKeepsSpare
<1>8. CASE BeginScan(Validator)
  BY <1>3, <1>8, ScanKeepsSpare
<1>9. ASSUME NEW t \in Threads, Continue(t)
      PROVE  SpareInv'
  BY <1>9, EnforceKeepsSpare, CreateKeepsSpare, StoreKeepsSpare, ReleaseKeepsSpare,
     ScanKeepsSpare, PatchKeepsSpare DEF Continue
<1>10. CASE Crash \/ ResetAPI \/ Start \/ Exit
  BY <1>10, BootKeepsSpare DEF Start
<1> QED BY <1>1, <1>5, <1>6, <1>7, <1>8, <1>9, <1>10 DEF Next

(* The steps that remove rows: the transaction of a handler at "delete" or *)
(* "undo", a scan, and the two checks of the start.                        *)
LEMMA RemovingSteps ==
  ASSUME ManagerInv, Next, NEW i \in RowIds(db), i \notin RowIds(db)'
  PROVE  \/ \E t \in Threads : thread[t].pc \in {"delete", "undo"} /\ thread[t].w.id = i
         \/ \E t \in Threads : ScanRow(t)
         \/ SanityCheck \/ MarkRow
<1>1. db \in Database /\ db' # db
  BY DEF ManagerInv, TypeOK
<1>2. ASSUME NEW t \in Clients PROVE ~(NewWorkload(t) \/ RefuseNew(t) \/ DeleteByID(t) \/ Patch(t))
  BY <1>1 DEF NewWorkload, BeginCreate, RefuseNew, DeleteByID, BeginDelete, Patch
<1>3. ~processCreateNotification /\ ~processDeleteNotification /\ ~BeginScan(Validator)
  BY <1>1 DEF processCreateNotification, BeginCreate, processDeleteNotification, BeginDelete,
              BeginScan
<1>4. ASSUME NEW t \in Threads, Continue(t)
      PROVE  (thread[t].pc \in {"delete", "undo"} /\ thread[t].w.id = i) \/ ScanRow(t)
  <2>1. ~EnforceNew(t) /\ ~EnforceEnds(t) /\ ~EnforcePatched(t)
    BY <1>1 DEF EnforceNew, EnforceEnds, EnforcePatched, EnforceStep
  <2>2. ~ReleaseOld(t) /\ ~ReleaseForPatch(t) /\ ~BeginScan(t) /\ ~EndScan(t)
        /\ ~RefusePatch(t) /\ ~UpdateMembers(t)
    BY <1>1 DEF ReleaseOld, ReleaseForPatch, ReleaseStep, BeginScan, EndScan, RefusePatch,
                UpdateMembers
  <2>3. CASE Create(t) \/ UndoNew(t) \/ DeleteOld(t) \/ updateInDB(t)
    <3> DEFINE w == thread[t].w
    <3>1. w \in RDTWorkLoad /\ (updateInDB(t) => w.id \in Ids)
      <4>1. \E pc \in PCs \ {"idle", "scan"} : Running(t, pc) /\ (updateInDB(t) => pc = "store")
        BY <2>3 DEF Create, UndoNew, DeleteOld, DeleteStep, updateInDB, PCs, Running
      <4> QED BY <4>1, HandlerRuns DEF ManagerInv
    <3>2. ~Create(t)
      <4>1. Create(t) => NextIdExists(db, w) /\ db' = CreateWorkload(db, w)
        BY DEF Create
      <4> QED BY <1>1, <3>1, <4>1, CreateEffect
    <3>3. ~updateInDB(t)
      <4>1. updateInDB(t) => db' = UpdateWorkload(db, w)
        BY DEF updateInDB
      <4>2. NoId \notin Ids
        BY IdsAssumption DEF Ids
      <4> HIDE DEF w
      <4> QED BY <1>1, <3>1, <4>1, <4>2, UpdateEffect
    <3>4. CASE UndoNew(t) \/ DeleteOld(t)
      <4>1. db' = DeleteWorkload(db, w) /\ thread[t].pc \in {"delete", "undo"}
        BY <3>4 DEF UndoNew, DeleteOld, DeleteStep, Running
      <4> QED BY <1>1, <3>1, <4>1, DeleteEffect
    <3> QED BY <2>3, <3>2, <3>3, <3>4
  <2> QED BY <1>4, <2>1, <2>2, <2>3 DEF Continue
<1>5. ~Crash /\ ~ResetAPI /\ ~LoadWorkloads /\ ~StartServing /\ ~Exit
  BY <1>1 DEF Crash, ResetAPI, LoadWorkloads, StartServing, Exit
<1> QED BY <1>2, <1>3, <1>4, <1>5 DEF Next, Start

(* dbContentValidation (workload.go): a scan never removes a workload of   *)
(* which a task still runs, although it judges rows that it has read       *)
(* before and deletes by id, and although DELETEs, PATCHes and POSTs are   *)
(* stored meanwhile: provided that ids come from the database's sequence   *)
(* only, PATCHes do not replace tasks, and no row is removed by            *)
(* --force-config.                                                         *)
THEOREM ValidatorSparesLiveHolds ==
  ASSUME PostIds = {}, \A p \in Patches : p.tasks = {}, ~ForceConfig
  PROVE  Spec => ValidatorSparesLive
<1> DEFINE Spares ==
      \A i \in Ids :
        /\ \E t \in Threads : thread[t].pc = "scan"
        /\ db.rows[i] # NoRow /\ db'.rows[i] = NoRow
        /\ db.rows[i].tasks \cap alive # {}
        => \E t \in Threads : thread[t].pc \in {"delete", "undo"} /\ thread[t].w.id = i
<1>1. ManagerInv /\ SpareInv /\ [Next]_vars => [Spares]_vars
  <2> SUFFICES ASSUME ManagerInv, SpareInv, Next,
                      NEW i \in Ids, NEW t \in Threads, thread[t].pc = "scan",
                      db.rows[i] # NoRow, db'.rows[i] = NoRow,
                      db.rows[i].tasks \cap alive # {}
               PROVE  \E u \in Threads :
                        thread[u].pc \in {"delete", "undo"} /\ thread[u].w.id = i
    OBVIOUS
  <2>1. i \in RowIds(db) /\ i \notin RowIds(db)'
    BY DEF RowIds
  <2>2. ~SanityCheck
    BY DEF SanityCheck, SpareInv, DownIsIdle
  <2>3. ~MarkRow
    <3>1. MarkRow => db' = db
      BY DEF MarkRow
    <3> QED BY <2>1, <3>1
  <2>4. ASSUME NEW u \in Threads, ScanRow(u)
        PROVE  FALSE
    <3>1. PICK j \in Ids :
            /\ thread[u].ws[j] # NoRow
            /\ db' = IF shouldRemoveWorkload(thread[u].ws[j])
                     THEN DeleteWorkload(db, thread[u].ws[j]) ELSE db
      BY <2>4 DEF ScanRow, First
    <3> DEFINE w == thread[u].ws[j]
    <3>2. db \in Database /\ w \in RDTWorkLoad
      BY <3>1 DEF ManagerInv, TypeOK, Thread, Snapshot
    <3>3. w.id = j /\ StandsFor(j, w.tasks)
      BY <3>1 DEF SpareInv, SnapshotsKeyed, StandsFor
    <3> HIDE DEF w
    <3>4. shouldRemoveWorkload(w) /\ i = j
      BY <2>1, <3>1, <3>2, <3>3, DeleteEffect DEF w
    <3>5. StandsFor(i, db.rows[i].tasks)
      BY <2>1 DEF StandsFor
    <3>6. w.tasks \in SUBSET Tasks /\ db.rows[i].tasks \in SUBSET Tasks
      BY <2>1, <3>2, DatabaseFields DEF RDTWorkLoad
    <3>7. db.rows[i].tasks = w.tasks
      BY <3>3, <3>4, <3>5, <3>6 DEF SpareInv, IdsOnce
    <3> QED BY <3>4, <3>7 DEF shouldRemoveWorkload
  <2> QED BY <2>1, <2>2, <2>3, <2>4, RemovingSteps
<1>2. ManagerInv /\ SpareInv /\ [Next]_vars => SpareInv'
  BY NextKeepsSpare
<1> QED BY <1>1, <1>2, InitSpare, ManagerInvHolds, PTL DEF Spec, ValidatorSparesLive
=============================================================================
