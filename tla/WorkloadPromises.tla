-------------------------- MODULE WorkloadPromises --------------------------
(***************************************************************************)
(* What RMD promises to the owner of a workload, proved for any number of  *)
(* clients and workloads and any host, on one condition: nobody asks for   *)
(* shared cache.  (The class of the shared group stays in the list of used *)
(* classes when it is returned, so with it a class may be in both lists.)  *)
(*                                                                         *)
(* The argument is built in layers, each inductive on top of the ones      *)
(* before.  CleanInv: every class is in exactly one of the two lists.      *)
(* ClaimInv: a class is claimed by at most one stored workload or request  *)
(* in flight, and is in the used list as long as it is.  ApartInv: no two  *)
(* of them have a task or core in common.  From there on a step of the     *)
(* manager is one of three kinds, whatever action it is: CalmStep leaves   *)
(* the classes alone, TakeStep gives one to a request, FreeStep returns    *)
(* one.  What a claimed class has is then shown kind by kind: the members  *)
(* (MemberInv), the ways (FitInv, FreeIsDefault), and the bandwidth        *)
(* (ThrottleInv; LimitInv and BandwidthInv) of the workload that claims    *)
(* it; and a class that is available has the defaults.                     *)
(***************************************************************************)
EXTENDS WorkloadManagerProofs

Handlers == Threads \ {Validator}

(* Every request, every PATCH and every policy asks for a way or more, or  *)
(* for no cache.                                                           *)
PoliciesAsk == \A name \in DOMAIN Policies : Policies[name].max # 0

NoSharedRequests ==
  PoliciesAsk /\ \A r \in Requests \cup Patches \cup NovaRequests : r.max # 0

-----------------------------------------------------------------------------
(* One step.                                                               *)

(* Where a handler goes from Enforce with workload w.                      *)
GoesOn(t, w, next) == \/ Goto(t, Idle)
                      \/ Goto(t, At(next, w))
                      \/ next = "create" /\ Goto(t, At("undo", w))

(* A step in which Enforce takes class g for the workload of handler t.    *)
Taking(t, next, g) ==
  \E c, r : /\ c \in Choices(thread[t].w, alive', mbaValue')
            /\ Takes(thread[t].w, c, r, g)
            /\ pool' = r.pool /\ rdt' = WithoutTasks(r.rdt, alive \ alive')
            /\ GoesOn(t, r.w, next)

(* Enforce by a handler whose workload is not a shared one.                *)
LEMMA EnforceStepTakes ==
  ASSUME ManagerInv, NEW t \in Threads, NEW pc \in {"enforce", "reenforce"}, NEW next,
         EnforceStep(t, pc, next), CacheOf(thread[t].w).max # 0
  PROVE  /\ t # Validator /\ phase = "up" /\ thread[t].w \in RDTWorkLoad /\ thread[t].pc = pc
         /\ UNCHANGED <<db, phase, boot>>
         /\ alive' \subseteq alive /\ mbaValue' \in {mbaValue} \cup Racing(t)
         /\ \/ /\ pool' = pool /\ rdt' = WithoutTasks(rdt, alive \ alive')
               /\ GoesOn(t, thread[t].w, next)
            \/ \E g \in PoolClos : Taking(t, next, g)
<1> DEFINE w == thread[t].w
<1>1. t # Validator /\ phase = "up" /\ w \in RDTWorkLoad /\ thread[t].pc = pc
  <2>1. pc \in PCs \ {"idle", "scan"} /\ Running(t, pc)
    BY DEF PCs, EnforceStep
  <2> QED BY <2>1, HandlerRuns DEF ManagerInv, Running
<1>2. PICK dying, v, c :
        /\ dying \in SUBSET Dying(w) /\ v \in {mbaValue} \cup Racing(t)
        /\ c \in Choices(w, alive \ dying, v)
        /\ pool' = Enforce(w, c).pool
        /\ rdt' = WithoutTasks(Enforce(w, c).rdt, dying)
        /\ alive' = alive \ dying
        /\ mbaValue' = v
        /\ Goto(t, AfterEnforce(t, Enforce(w, c).status, Enforce(w, c).w, next))
  BY DEF EnforceStep
<1> DEFINE r == Enforce(w, c)
<1>3. dying = alive \ alive' /\ alive' \subseteq alive
  BY <1>2 DEF Dying
<1>4. Sound(pool) /\ rdt \in Platform
  BY DEF ManagerInv, TypeOK
<1>5. GoodChoice(w, c)
  BY <1>2, ChoicesGood
<1>6. CacheOf(w).max # 0
  OBVIOUS
<1> HIDE DEF w
<1>7. \/ r.w = w /\ r.pool = pool /\ r.rdt = rdt
      \/ \E g \in PoolClos : Takes(w, c, r, g)
  BY <1>1, <1>4, <1>5, <1>6, EnforceTakes
<1>8. GoesOn(t, r.w, next)
  BY <1>2 DEF AfterEnforce, GoesOn
<1> HIDE DEF r
<1>9. c \in Choices(w, alive', mbaValue')
  BY <1>2
<1>10. pool' = r.pool /\ rdt' = WithoutTasks(r.rdt, alive \ alive')
  BY <1>2, <1>3 DEF r
<1>11. \/ /\ pool' = pool /\ rdt' = WithoutTasks(rdt, alive \ alive')
          /\ GoesOn(t, w, next)
       \/ \E g \in PoolClos : Taking(t, next, g)
  BY <1>7, <1>8, <1>9, <1>10 DEF Taking, w
<1>12. UNCHANGED <<db, phase, boot>>
  BY DEF EnforceStep
<1> QED BY <1>1, <1>2, <1>3, <1>11, <1>12 DEF w

(* A step in which Release gives the class of handler t back.              *)
Freeing(t) == \E r : Frees(thread[t].w, r) /\ pool' = r.pool /\ rdt' = r.rdt

(* Release by a handler, when there is no shared class.                    *)
LEMMA ReleaseStepFrees ==
  ASSUME ManagerInv, pool.shared = NoClos, NEW t \in Threads,
         NEW pc \in {"release", "update"}, NEW done, ReleaseStep(t, pc, done)
  PROVE  /\ t # Validator /\ phase = "up" /\ thread[t].w \in RDTWorkLoad /\ thread[t].pc = pc
         /\ UNCHANGED <<alive, db, phase, boot>>
         /\ \/ pool' = pool /\ rdt' = rdt /\ (Goto(t, done) \/ Goto(t, Idle))
            \/ /\ Goto(t, done) /\ pool' = pool
               /\ rdt' \in Platform /\ rdt'.mask = rdt.mask /\ rdt'.mb = rdt.mb
               /\ \A m \in Members : \/ rdt'.group[m] = rdt.group[m]
                                     \/ m \in thread[t].w.tasks /\ rdt'.group[m] = 0
            \/ Goto(t, done) /\ thread[t].w.cos \in PoolClos /\ Freeing(t)
<1> DEFINE w == thread[t].w
<1>1. t # Validator /\ phase = "up" /\ w \in RDTWorkLoad /\ thread[t].pc = pc
  <2>1. pc \in PCs \ {"idle", "scan"} /\ Running(t, pc)
    BY DEF PCs, ReleaseStep
  <2> QED BY <2>1, HandlerRuns DEF ManagerInv, Running
<1>2. PICK got, plugin : /\ pool' = Release(w, got, plugin).pool
                         /\ rdt' = Release(w, got, plugin).rdt
                         /\ Goto(t, IF Release(w, got, plugin).ok THEN done ELSE Idle)
  BY DEF ReleaseStep
<1> DEFINE r == Release(w, got, plugin)
<1>3. Sound(pool) /\ rdt \in Platform
  BY DEF ManagerInv, TypeOK
<1> HIDE DEF w
<1>4. \/ r.pool = pool /\ r.rdt = rdt
      \/ /\ r.ok /\ r.pool = pool /\ r.rdt \in Platform
         /\ r.rdt.mask = rdt.mask /\ r.rdt.mb = rdt.mb
         /\ \A m \in Members : \/ r.rdt.group[m] = rdt.group[m]
                               \/ m \in w.tasks /\ r.rdt.group[m] = 0
      \/ r.ok /\ w.cos \in PoolClos /\ Frees(w, r)
  BY <1>1, <1>3, ReleaseFrees
<1>5. pool' = r.pool /\ rdt' = r.rdt /\ Goto(t, IF r.ok THEN done ELSE Idle)
  BY <1>2
<1> HIDE DEF r
<1>6. \/ pool' = pool /\ rdt' = rdt /\ (Goto(t, done) \/ Goto(t, Idle))
      \/ /\ Goto(t, done) /\ pool' = pool
         /\ rdt' \in Platform /\ rdt'.mask = rdt.mask /\ rdt'.mb = rdt.mb
         /\ \A m \in Members : \/ rdt'.group[m] = rdt.group[m]
                               \/ m \in w.tasks /\ rdt'.group[m] = 0
      \/ Goto(t, done) /\ w.cos \in PoolClos /\ Freeing(t)
  <2>1. CASE r.pool = pool /\ r.rdt = rdt
    BY <1>5, <2>1
  <2>2. CASE /\ r.ok /\ r.pool = pool /\ r.rdt \in Platform
             /\ r.rdt.mask = rdt.mask /\ r.rdt.mb = rdt.mb
             /\ \A m \in Members : \/ r.rdt.group[m] = rdt.group[m]
                                   \/ m \in w.tasks /\ r.rdt.group[m] = 0
    BY <1>5, <2>2
  <2>3. CASE r.ok /\ w.cos \in PoolClos /\ Frees(w, r)
    BY <1>5, <2>3 DEF Freeing, w
  <2> QED BY <1>4, <2>1, <2>2, <2>3
<1>7. UNCHANGED <<alive, db, phase, boot>>
  BY DEF ReleaseStep
<1> QED BY <1>1, <1>6, <1>7 DEF w

-----------------------------------------------------------------------------
(* Nobody asks for shared cache.                                           *)

(* What a handler carries is not a request for shared cache.               *)
Asks(x) == x.pc # "idle" =>
             /\ x.w.max # 0
             /\ x.pc \in {"lock", "scan", "update"} => x.patch.max # 0

AskInv == /\ PoliciesAsk
          /\ \A i \in RowIds(db) : db.rows[i].max # 0
          /\ \A t \in Handlers : Asks(thread[t])

(* Enforce writes the class into the workload, and nothing else.           *)
LEMMA WithClosOnly ==
  ASSUME NEW w \in RDTWorkLoad, NEW g \in PoolClos, NEW v, v = [w EXCEPT !.cos = g]
  PROVE  /\ v \in RDTWorkLoad /\ v.cos = g /\ v.id = w.id
         /\ v.tasks = w.tasks /\ v.cores = w.cores
         /\ v.policy = w.policy /\ v.max = w.max /\ v.min = w.min /\ v.mba = w.mba
<1>1. v \in RDTWorkLoad
  BY DEF RDTWorkLoad, ClosName
<1> QED BY <1>1 DEF RDTWorkLoad

(* With no policy for shared cache, the cache values that count are not    *)
(* for it either, nor are those that a policy or a PATCH gives a workload. *)
LEMMA NotForShared ==
  ASSUME PoliciesAsk, NEW w \in RDTWorkLoad, w.max # 0
  PROVE  CacheOf(w).max # 0 /\ FilledByPolicy(w).max # 0
<1>1. CacheOf(w).max # 0
  BY DEF CacheOf, PoliciesAsk
<1>2. CASE w.policy \notin DOMAIN Policies
  BY <1>1, <1>2, Filled
<1>3. CASE w.policy \in DOMAIN Policies
  <2>1. FilledByPolicy(w).max \in {w.max, Policies[w.policy].max}
    BY <1>3, Filled
  <2> QED BY <1>1, <1>3, <2>1 DEF PoliciesAsk
<1> QED BY <1>2, <1>3

(* The cache that a patched workload asks for.                             *)
LEMMA PatchedMax ==
  ASSUME PoliciesAsk, NEW w \in RDTWorkLoad, w.max # 0,
         NEW p \in Request, p.max # 0,
         NEW v \in {Merged(w, p), Patched(w, p), WithMembers(Merged(w, p), p)}
  PROVE  v.max # 0
<1>1. ParamsOfPatch(v, w, p)
  BY PatchedParams, MergedParams
<1>2. v.max \in {w.max, p.max} \cup {Policies[name].max : name \in DOMAIN Policies}
  BY <1>1 DEF ParamsOfPatch
<1> QED BY <1>2 DEF PoliciesAsk

(* The two shapes of locals that most steps end with.                      *)
LEMMA LocalFields ==
  /\ Idle.pc = "idle" /\ Idle.w = NoRow
  /\ \A pc, w : At(pc, w).pc = pc /\ At(pc, w).w = w
BY DEF Idle, At

(* Goto, read at one thread.                                               *)
LEMMA GotoReads ==
  ASSUME ThreadsGood, NEW t \in Threads, NEW x, Goto(t, x)
  PROVE  thread'[t] = x /\ \A u \in Threads \ {t} : thread'[u] = thread[u]
BY DEF ThreadsGood, Goto

(* A step of one thread, if what it goes on with and what it stores is not *)
(* a request for shared cache.                                             *)
LEMMA OneKeepsAsk ==
  ASSUME ThreadsGood, AskInv, NEW t \in Threads, NEW x, Goto(t, x), t # Validator => Asks(x),
         \A i \in RowIds(db)' : db'.rows[i].max # 0
  PROVE  AskInv'
<1>1. \A u \in Threads : thread'[u] = IF u = t THEN x ELSE thread[u]
  BY GotoReads
<1> QED BY <1>1 DEF AskInv, Asks, Handlers

(* A step that changes no thread, and at most removes rows.                *)
LEMMA NoneKeepsAsk ==
  ASSUME AskInv, thread' = thread, RowIds(db)' \subseteq RowIds(db),
         \A i \in RowIds(db)' : db'.rows[i] = db.rows[i]
  PROVE  AskInv'
BY DEF AskInv, Asks

(* The end of the process.                                                 *)
LEMMA DownKeepsAsk ==
  ASSUME AskInv, Down, db' = db
  PROVE  AskInv'
<1>1. \A t \in Threads : thread'[t].pc = "idle"
  BY DownKeeps
<1> QED BY <1>1 DEF AskInv, Asks, RowIds, Handlers

(* The requests of clients and notifications.                              *)
LEMMA BeginKeepsAsk ==
  ASSUME NoSharedRequests, ManagerInv, AskInv, NEW t \in Handlers,
         \/ \E w \in RDTWorkLoad : BeginCreate(t, w) /\ w.max # 0
         \/ \E i \in RowIds(db) : \E o : BeginDelete(t, db.rows[i], o)
         \/ Patch(t)
  PROVE  AskInv'
<1>1. ThreadsGood /\ t \in Threads /\ \A i \in RowIds(db) : db.rows[i].max # 0
  BY DEF ManagerInv, AskInv, Handlers
<1>2. db' = db
  BY DEF BeginCreate, BeginDelete, Patch
<1>3. CASE \E w \in RDTWorkLoad : BeginCreate(t, w) /\ w.max # 0
  <2>1. PICK w \in RDTWorkLoad : Goto(t, At("enforce", FilledByPolicy(w))) /\ w.max # 0
    BY <1>3 DEF BeginCreate
  <2>2. Asks(At("enforce", FilledByPolicy(w)))
    BY <2>1, LocalFields, NotForShared DEF Asks, NoSharedRequests
  <2> QED BY <1>1, <1>2, <2>1, <2>2, OneKeepsAsk DEF RowIds
<1>4. CASE \E i \in RowIds(db) : \E o : BeginDelete(t, db.rows[i], o)
  <2>1. PICK i \in RowIds(db) : Goto(t, At("release", db.rows[i]))
    BY <1>4 DEF BeginDelete
  <2>2. Asks(At("release", db.rows[i]))
    BY <1>1, LocalFields DEF Asks
  <2> QED BY <1>1, <1>2, <2>1, <2>2, OneKeepsAsk DEF RowIds
<1>5. CASE Patch(t)
  <2>1. PICK id \in RowIds(db), p \in Patches :
          Goto(t, [pc |-> "lock", w |-> db.rows[id], patch |-> p, ws |-> NoRows])
    BY <1>5 DEF Patch
  <2> DEFINE x == [pc |-> "lock", w |-> db.rows[id], patch |-> p, ws |-> NoRows]
  <2>2. x.w = db.rows[id] /\ x.patch = p
    OBVIOUS
  <2>3. Goto(t, x)
    BY <2>1
  <2> HIDE DEF x
  <2>4. Asks(x)
    BY <1>1, <2>2 DEF Asks, NoSharedRequests
  <2> QED BY <1>1, <1>2, <2>3, <2>4, OneKeepsAsk DEF RowIds
<1> QED BY <1>3, <1>4, <1>5

(* The workload of a handler that runs is not a shared one.                *)
LEMMA HandlerAsks ==
  ASSUME ManagerInv, AskInv, NEW t \in Threads, NEW pc \in PCs \ {"idle", "scan"}, Running(t, pc)
  PROVE  /\ t \in Handlers /\ thread[t].w \in RDTWorkLoad /\ thread[t].w.max # 0
         /\ CacheOf(thread[t].w).max # 0
<1>1. t # Validator /\ thread[t].w \in RDTWorkLoad
  BY HandlerRuns DEF ManagerInv
<1>2. PoliciesAsk /\ t \in Handlers /\ thread[t].w.max # 0
  BY <1>1 DEF Running, AskInv, Asks, Handlers
<1> QED BY <1>1, <1>2, NotForShared

(* Enforce and Release, of a PATCH too.                                    *)
LEMMA EnforceKeepsAsk ==
  ASSUME ManagerInv, AskInv, NEW t \in Threads,
         EnforceNew(t) \/ EnforcePatched(t) \/ UpdateMembers(t) \/ ReleaseOld(t)
           \/ ReleaseForPatch(t)
  PROVE  AskInv'
<1> DEFINE w == thread[t].w
           p == thread[t].patch
<1>1. ThreadsGood /\ db' = db
  BY DEF ManagerInv, EnforceNew, EnforcePatched, EnforceStep, UpdateMembers, ReleaseOld,
         ReleaseForPatch, ReleaseStep
<1>2. \E pc \in PCs \ {"idle", "scan"} : Running(t, pc)
  BY DEF EnforceNew, EnforcePatched, EnforceStep, UpdateMembers, ReleaseOld, ReleaseForPatch,
         ReleaseStep, PCs
<1>3. /\ t \in Handlers /\ w \in RDTWorkLoad /\ w.max # 0 /\ CacheOf(w).max # 0
      /\ PoliciesAsk
  BY <1>2, HandlerAsks DEF AskInv
<1>4. \A i \in RowIds(db)' : db'.rows[i].max # 0
  BY <1>1 DEF AskInv, RowIds
<1>5. Asks(Idle)
  BY LocalFields DEF Asks
<1>6. \A v : v.max # 0 => \A pc \in {"create", "undo", "store", "reenforce"} : Asks(At(pc, v))
  BY LocalFields DEF Asks
<1>7. CASE EnforceNew(t) \/ EnforcePatched(t)
  <2>1. PICK pc \in {"enforce", "reenforce"}, next \in {"create", "store"} :
          EnforceStep(t, pc, next)
    BY <1>7 DEF EnforceNew, EnforcePatched
  <2>2. CASE GoesOn(t, w, next)
    <3>1. PICK x : Goto(t, x) /\ Asks(x)
      BY <1>3, <1>5, <1>6, <2>2 DEF GoesOn
    <3> QED BY <1>1, <1>4, <3>1, OneKeepsAsk
  <2>3. ASSUME NEW g \in PoolClos, Taking(t, next, g)
        PROVE  AskInv'
    <3>1. PICK v : v = [w EXCEPT !.cos = g] /\ GoesOn(t, v, next)
      BY <2>3 DEF Taking, Takes, TakesAs
    <3> HIDE DEF w
    <3>2. v.max # 0
      BY <1>3, <3>1, WithClosOnly
    <3>3. PICK x : Goto(t, x) /\ Asks(x)
      BY <1>5, <1>6, <3>1, <3>2 DEF GoesOn
    <3> QED BY <1>1, <1>4, <3>3, OneKeepsAsk
  <2> QED BY <1>3, <2>1, <2>2, <2>3, EnforceStepTakes
<1>8. CASE UpdateMembers(t)
  <2>1. /\ Running(t, "update")
        /\ \/ Goto(t, Idle)
           \/ \E v \in {Merged(w, p), WithMembers(Merged(w, p), p)} : Goto(t, At("store", v))
    BY <1>8 DEF UpdateMembers
  <2>2. p \in Request
    BY <1>1, <2>1, HandlerRuns DEF PCs
  <2>4. p.max # 0
    BY <1>3, <2>1 DEF Running, AskInv, Asks
  <2> HIDE DEF w, p
  <2>5. \A v \in {Merged(w, p), WithMembers(Merged(w, p), p)} : v.max # 0
    BY <1>3, <2>2, <2>4, PatchedMax
  <2>3. PICK x : Goto(t, x) /\ Asks(x)
    BY <1>5, <1>6, <2>1, <2>5
  <2> QED BY <1>1, <1>4, <2>3, OneKeepsAsk
<1>9. CASE ReleaseOld(t)
  <2> DEFINE done == [thread[t] EXCEPT !.pc = "delete"]
  <2>1. thread[t] \in Thread
    BY <1>1 DEF ThreadsGood
  <2>2. done.w = w /\ done.pc = "delete"
    BY <2>1 DEF Thread
  <2>3. ReleaseStep(t, "release", done)
    BY <1>9 DEF ReleaseOld
  <2> HIDE DEF done, w
  <2>4. Goto(t, done) \/ Goto(t, Idle)
    BY <2>3, ReleaseStepEffect
  <2>5. Asks(done)
    BY <1>3, <2>2 DEF Asks
  <2> QED BY <1>1, <1>4, <1>5, <2>4, <2>5, OneKeepsAsk
<1>10. CASE ReleaseForPatch(t)
  <2> DEFINE v == Patched(w, p)
             done == At("reenforce", v)
  <2>1. ReleaseStep(t, "update", done) /\ Running(t, "update")
    BY <1>10 DEF ReleaseForPatch
  <2>2. p \in Request
    BY <1>1, <2>1, HandlerRuns DEF PCs
  <2>3. p.max # 0
    BY <1>3, <2>1 DEF Running, AskInv, Asks
  <2>4. v.max # 0
    <3> HIDE DEF w, p
    <3> QED BY <1>3, <2>2, <2>3, PatchedMax
  <2>5. Asks(done)
    BY <1>6, <2>4
  <2> HIDE DEF done, v
  <2>6. Goto(t, done) \/ Goto(t, Idle)
    BY <2>1, ReleaseStepEffect
  <2> QED BY <1>1, <1>4, <1>5, <2>5, <2>6, OneKeepsAsk
<1> QED BY <1>7, <1>8, <1>9, <1>10

(* What handlers store.                                                    *)
LEMMA StoreKeepsAsk ==
  ASSUME ManagerInv, AskInv, NEW t \in Threads,
         Create(t) \/ UndoNew(t) \/ DeleteOld(t) \/ updateInDB(t) \/ RefusePatch(t)
  PROVE  AskInv'
<1> DEFINE w == thread[t].w
<1>1. Goto(t, Idle) /\ ThreadsGood /\ db \in Database
  BY DEF Create, UndoNew, DeleteOld, DeleteStep, updateInDB, RefusePatch, ManagerInv, TypeOK
<1>2. \E pc \in PCs \ {"idle", "scan"} : Running(t, pc)
  BY DEF Create, UndoNew, DeleteOld, DeleteStep, updateInDB, RefusePatch, PCs
<1>3. t \in Handlers /\ w \in RDTWorkLoad /\ w.max # 0 /\ \A i \in RowIds(db) : db.rows[i].max # 0
  BY <1>2, HandlerAsks DEF AskInv
<1> HIDE DEF w
<1>4. \A i \in RowIds(db') : db'.rows[i].max # 0
  <2>1. CASE Create(t)
    <3>1. NextIdExists(db, w) /\ db' = CreateWorkload(db, w)
      BY <2>1 DEF Create, w
    <3>2. PICK k : k = CreatedId(db, w)
      OBVIOUS
    <3>3. /\ k \in Ids /\ RowIds(db') = RowIds(db) \cup {k}
          /\ \A i \in Ids \ {k} : db'.rows[i] = db.rows[i]
      BY <1>1, <1>3, <3>1, <3>2, CreateEffect
    <3>4. db'.rows[k] = [w EXCEPT !.id = k]
      BY <1>1, <1>3, <3>1, <3>2, CreateStores
    <3>5. db'.rows[k].max = w.max
      BY <1>3, <3>3, <3>4, WithId
    <3> QED BY <1>3, <3>3, <3>5 DEF RowIds
  <2>2. CASE UndoNew(t) \/ DeleteOld(t)
    <3>1. db' = DeleteWorkload(db, w)
      BY <2>2 DEF UndoNew, DeleteOld, DeleteStep, w
    <3> QED BY <1>1, <1>3, <3>1, DeleteEffect
  <2>3. CASE updateInDB(t)
    <3>1. db' = UpdateWorkload(db, w) /\ Running(t, "store")
      BY <2>3 DEF updateInDB, w
    <3>2. w.id \in Ids
      BY <1>1, <3>1, HandlerRuns DEF PCs, w
    <3>3. w.id # NoId
      BY <3>2, IdsAssumption DEF Ids
    <3>4. /\ RowIds(db') = RowIds(db) \cup {w.id} /\ db'.rows[w.id] = w
          /\ \A i \in Ids \ {w.id} : db'.rows[i] = db.rows[i]
      BY <1>1, <1>3, <3>1, <3>3, UpdateEffect
    <3> QED BY <1>3, <3>4 DEF RowIds
  <2>4. CASE RefusePatch(t)
    BY <1>3, <2>4 DEF RefusePatch
  <2> QED BY <2>1, <2>2, <2>3, <2>4
<1>5. Asks(Idle)
  BY LocalFields DEF Asks
<1> QED BY <1>1, <1>4, <1>5, OneKeepsAsk DEF RowIds

(* dbContentValidation removes rows, and a PATCH goes on with what it has. *)
LEMMA ScanKeepsAsk ==
  ASSUME ManagerInv, AskInv, NEW t \in Threads, BeginScan(t) \/ ScanRow(t) \/ EndScan(t)
  PROVE  AskInv'
<1>1. \A i \in RowIds(db)' : db'.rows[i].max # 0
  <2>1. CASE ScanRow(t)
    BY <2>1, ScanRowEffect DEF RowIds, AskInv
  <2>2. CASE BeginScan(t) \/ EndScan(t)
    BY <2>2 DEF BeginScan, EndScan, RowIds, AskInv
  <2> QED BY <2>1, <2>2
<1>2. ThreadsGood /\ thread[t] \in Thread
  BY DEF ManagerInv, ThreadsGood
<1>3. PICK x : Goto(t, x) /\ (t # Validator => Asks(x))
  <2>1. \A ws : LET y == [thread[t] EXCEPT !.pc = "scan", !.ws = ws]
                IN  y.w = thread[t].w /\ y.patch = thread[t].patch /\ y.pc = "scan"
    BY <1>2 DEF Thread
  <2>2. \A ws : LET y == [thread[t] EXCEPT !.ws = ws]
                IN  y.w = thread[t].w /\ y.patch = thread[t].patch /\ y.pc = thread[t].pc
    BY <1>2 DEF Thread
  <2>3. LET y == [thread[t] EXCEPT !.pc = "update"]
        IN  y.w = thread[t].w /\ y.patch = thread[t].patch /\ y.pc = "update"
    BY <1>2 DEF Thread
  <2>4. CASE t = Validator
    BY <2>4 DEF BeginScan, ScanRow, EndScan
  <2>5. CASE t # Validator /\ BeginScan(t)
    <3> DEFINE y == [thread[t] EXCEPT !.pc = "scan", !.ws = RowsWithTasks]
    <3>1. Goto(t, y) /\ thread[t].pc = "lock"
      BY <2>5 DEF BeginScan, Running
    <3>2. y.w = thread[t].w /\ y.patch = thread[t].patch /\ y.pc = "scan"
      BY <2>1
    <3> HIDE DEF y
    <3>3. Asks(y)
      BY <2>5, <3>1, <3>2 DEF AskInv, Asks, Handlers
    <3> QED BY <3>1, <3>3
  <2>6. CASE t # Validator /\ ScanRow(t)
    <3>1. PICK ws \in Snapshot : Goto(t, [thread[t] EXCEPT !.ws = ws])
      BY <2>6, ScanRowEffect
    <3> DEFINE y == [thread[t] EXCEPT !.ws = ws]
    <3>2. y.w = thread[t].w /\ y.patch = thread[t].patch /\ y.pc = thread[t].pc
      BY <2>2
    <3>3. Goto(t, y)
      BY <3>1
    <3> HIDE DEF y
    <3>4. Asks(y)
      BY <2>6, <3>2 DEF AskInv, Asks, Handlers
    <3> QED BY <3>3, <3>4
  <2>7. CASE t # Validator /\ EndScan(t)
    <3> DEFINE y == [thread[t] EXCEPT !.pc = "update"]
    <3>1. Goto(t, y) /\ thread[t].pc = "scan"
      BY <2>7 DEF EndScan, Running
    <3>2. y.w = thread[t].w /\ y.patch = thread[t].patch /\ y.pc = "update"
      BY <2>3
    <3> HIDE DEF y
    <3>3. Asks(y)
      BY <2>7, <3>1, <3>2 DEF AskInv, Asks, Handlers
    <3> QED BY <3>1, <3>3
  <2> QED BY <2>4, <2>5, <2>6, <2>7
<1> QED BY <1>1, <1>2, <1>3, OneKeepsAsk

(* Crashes and the start of the process.                                   *)
LEMMA BootKeepsAsk ==
  ASSUME ManagerInv, AskInv,
         Crash \/ ResetAPI \/ SanityCheck \/ LoadWorkloads \/ MarkRow \/ StartServing \/ Exit
  PROVE  AskInv'
<1>1. db \in Database
  BY DEF ManagerInv, TypeOK
<1>2. CASE Crash
  BY <1>2, DownKeepsAsk DEF Crash
<1>3. CASE ResetAPI \/ LoadWorkloads \/ StartServing \/ Exit
  BY <1>3, NoneKeepsAsk DEF ResetAPI, LoadWorkloads, StartServing, Exit, RowIds
<1>4. CASE SanityCheck
  BY <1>1, <1>4, DBCheckEffect, NoneKeepsAsk DEF SanityCheck, RowIds
<1>5. CASE MarkRow
  <2>1. CASE Down /\ db' = db
    BY <2>1, DownKeepsAsk
  <2>2. ASSUME NEW i \in Ids, boot[i] \in RDTWorkLoad, UNCHANGED <<phase, thread, mbaValue>>,
               db' = IF OtherMode(boot[i]) THEN DeleteWorkload(db, boot[i]) ELSE db
        PROVE  AskInv'
    <3>1. /\ RowIds(db') \subseteq RowIds(db)
          /\ \A j \in RowIds(db') : db'.rows[j] = db.rows[j]
      <4>1. CASE db' = DeleteWorkload(db, boot[i])
        BY <1>1, <2>2, <4>1, DeleteEffect
      <4>2. CASE db' = db
        BY <4>2
      <4> QED BY <2>2, <4>1, <4>2
    <3> QED BY <2>2, <3>1, NoneKeepsAsk DEF RowIds
  <2> QED BY <1>5, <2>1, <2>2, MarkRowEffect
<1> QED BY <1>2, <1>3, <1>4, <1>5

(* The rows that a DELETE reads, and the workloads that requests become.   *)
LEMMA AskedFor ==
  ASSUME NoSharedRequests
  PROVE  /\ \A r \in Requests, id \in PostIds \cup {NoId} :
               NewRDTWorkLoad(r, id, NoUUID, "REST").max # 0
         /\ \A r \in NovaRequests, u \in UUIDs :
               NewRDTWorkLoad(r, NoId, u, "OPENSTACK").max # 0
BY DEF NoSharedRequests, NewRDTWorkLoad

(* Every step keeps AskInv.                                                *)
LEMMA NextKeepsAsk ==
  ASSUME NoSharedRequests
  PROVE  ManagerInv /\ AskInv /\ [Next]_vars => AskInv'
<1> SUFFICES ASSUME ManagerInv, AskInv, [Next]_vars PROVE AskInv'
  OBVIOUS
<1>1. CASE UNCHANGED vars
  BY <1>1, NoneKeepsAsk DEF vars, RowIds
<1>2. \A t \in Clients : t \in Handlers
  BY ThreadsAssumption DEF Threads, Handlers
<1>3. Nova \in Handlers /\ Validator \in Threads
  BY ThreadsAssumption DEF Threads, Handlers
<1>4. ASSUME NEW t \in Clients, NewWorkload(t) \/ RefuseNew(t) \/ DeleteByID(t) \/ Patch(t)
      PROVE  AskInv'
  <2>1. CASE NewWorkload(t)
    BY <1>2, <2>1, RequestTypes, AskedFor, BeginKeepsAsk DEF NewWorkload
  <2>2. CASE RefuseNew(t)
    BY <2>2, NoneKeepsAsk DEF RefuseNew, RowIds
  <2>3. CASE DeleteByID(t)
    <3>1. PICK id \in Ids : BeginDelete(t, GetWorkloadByID(db, id), "REST")
      BY <2>3 DEF DeleteByID
    <3>2. GetWorkloadByID(db, id) # NoRow
      BY <3>1 DEF BeginDelete
    <3> QED BY <1>2, <3>1, <3>2, DeletedRow, BeginKeepsAsk
  <2>4. CASE Patch(t)
    BY <1>2, <2>4, BeginKeepsAsk
  <2> QED BY <1>4, <2>1, <2>2, <2>3, <2>4
<1>5. CASE processCreateNotification
  BY <1>3, <1>5, RequestTypes, AskedFor, BeginKeepsAsk DEF processCreateNotification
<1>6. CASE processDeleteNotification
  <2>1. PICK u \in UUIDs : BeginDelete(Nova, GetWorkloadByUUID(db, u), "OPENSTACK")
    BY <1>6 DEF processDeleteNotification
  <2>2. GetWorkloadByUUID(db, u) # NoRow
    BY <2>1 DEF BeginDelete
  <2> QED BY <1>3, <2>1, <2>2, DeletedRow, BeginKeepsAsk
<1>7. CASE BeginScan(Validator)
  BY <1>3, <1>7, ScanKeepsAsk
<1>8. ASSUME NEW t \in Threads, Continue(t)
      PROVE  AskInv'
  <2>1. CASE EnforceNew(t) \/ EnforcePatched(t) \/ UpdateMembers(t) \/ ReleaseOld(t)
               \/ ReleaseForPatch(t)
    BY <2>1, EnforceKeepsAsk
  <2>2. CASE EnforceEnds(t)
    BY <2>2, DownKeepsAsk DEF EnforceEnds
  <2>3. CASE Create(t) \/ UndoNew(t) \/ DeleteOld(t) \/ updateInDB(t) \/ RefusePatch(t)
    BY <2>3, StoreKeepsAsk
  <2>4. CASE BeginScan(t) \/ ScanRow(t) \/ EndScan(t)
    BY <2>4, ScanKeepsAsk
  <2> QED BY <1>8, <2>1, <2>2, <2>3, <2>4 DEF Continue
<1>9. CASE Crash \/ ResetAPI \/ Start \/ Exit
  BY <1>9, BootKeepsAsk DEF Start
<1> QED BY <1>1, <1>4, <1>5, <1>6, <1>7, <1>8, <1>9 DEF Next

(* AskInv is an invariant.                                                 *)
LEMMA AskInvHolds ==
  ASSUME NoSharedRequests
  PROVE  Spec => []AskInv
<1>1. Init => AskInv
  <2> SUFFICES ASSUME Init PROVE AskInv
    OBVIOUS
  <2>1. \A t \in Threads : thread[t].pc = "idle"
    BY DEF Init, Idle
  <2>2. RowIds(db) = {}
    BY DEF Init, EmptyDatabase, RowIds
  <2> QED BY <2>1, <2>2 DEF AskInv, Asks, Handlers, NoSharedRequests
<1>2. ManagerInv /\ AskInv /\ [Next]_vars => AskInv'
  BY NextKeepsAsk
<1> QED BY <1>1, <1>2, ManagerInvHolds, PTL DEF Spec

-----------------------------------------------------------------------------
(* The pool without a shared class.                                        *)

CleanInv == AskInv /\ Clean(pool)

(* The ways in which a step can change the pool.                           *)
LEMMA PoolSteps ==
  ASSUME ManagerInv, CleanInv, [Next]_vars
  PROVE  \/ pool' = pool
         \/ pool' = InitCLOSPool
         \/ UseAvailableCLOS(pool).ok /\ pool' = UseAvailableCLOS(pool).pool
         \/ \E c \in PoolClos : pool' = ReturnClos(pool, c)
         \/ \E c \in PoolClos : pool' = MarkCLOSasUsed(pool, c).pool
<1>1. CASE UNCHANGED vars
  BY <1>1 DEF vars
<1>2. ASSUME NEW t \in Clients, NewWorkload(t) \/ RefuseNew(t) \/ DeleteByID(t) \/ Patch(t)
      PROVE  pool' = pool
  BY <1>2 DEF NewWorkload, BeginCreate, RefuseNew, DeleteByID, BeginDelete, Patch
<1>3. CASE processCreateNotification \/ processDeleteNotification \/ BeginScan(Validator)
  BY <1>3 DEF processCreateNotification, BeginCreate, processDeleteNotification, BeginDelete,
              BeginScan
<1>4. ASSUME NEW t \in Threads, Continue(t)
      PROVE  \/ pool' = pool
             \/ pool' = InitCLOSPool
             \/ UseAvailableCLOS(pool).ok /\ pool' = UseAvailableCLOS(pool).pool
             \/ \E c \in PoolClos : pool' = ReturnClos(pool, c)
  <2>1. CASE EnforceNew(t) \/ EnforcePatched(t)
    <3>1. PICK pc \in {"enforce", "reenforce"}, next \in {"create", "store"} :
            EnforceStep(t, pc, next)
      BY <2>1 DEF EnforceNew, EnforcePatched
    <3>2. CacheOf(thread[t].w).max # 0
      BY <3>1, HandlerAsks DEF CleanInv, EnforceStep, PCs
    <3>3. pool' = pool \/ \E g \in PoolClos : Taking(t, next, g)
      BY <3>1, <3>2, EnforceStepTakes
    <3>4. ASSUME NEW g \in PoolClos, Taking(t, next, g)
          PROVE  UseAvailableCLOS(pool).ok /\ pool' = UseAvailableCLOS(pool).pool
      <4>1. PICK c, r : Takes(thread[t].w, c, r, g) /\ pool' = r.pool
        BY <3>4 DEF Taking
      <4> QED BY <4>1 DEF Takes, TakesAs
    <3> QED BY <3>3, <3>4
  <2>2. CASE EnforceEnds(t)
    BY <2>2 DEF EnforceEnds, Down
  <2>3. CASE ReleaseOld(t) \/ ReleaseForPatch(t)
    <3>1. PICK pc, done : pc \in {"release", "update"} /\ ReleaseStep(t, pc, done)
      BY <2>3 DEF ReleaseOld, ReleaseForPatch
    <3>2. pool' = pool \/ (thread[t].w.cos \in PoolClos /\ Freeing(t))
      BY <3>1, ReleaseStepFrees DEF CleanInv, Clean
    <3> QED BY <3>2 DEF Freeing, Frees
  <2>4. CASE UpdateMembers(t)
    BY <2>4 DEF UpdateMembers
  <2>5. CASE Create(t) \/ UndoNew(t) \/ DeleteOld(t) \/ updateInDB(t)
    BY <2>5 DEF Create, UndoNew, DeleteOld, DeleteStep, updateInDB
  <2>6. CASE BeginScan(t) \/ ScanRow(t) \/ EndScan(t) \/ RefusePatch(t)
    BY <2>6 DEF BeginScan, ScanRow, EndScan, RefusePatch
  <2> QED BY <1>4, <2>1, <2>2, <2>3, <2>4, <2>5, <2>6 DEF Continue
<1>5. CASE Crash \/ LoadWorkloads
  BY <1>5 DEF Crash, Down, LoadWorkloads
<1>6. CASE MarkRow
  BY <1>6, MarkRowEffect DEF Down
<1>7. CASE Exit \/ ResetAPI \/ SanityCheck \/ StartServing
  BY <1>7 DEF Exit, ResetAPI, SanityCheck, StartServing
<1> QED BY <1>1, <1>2, <1>3, <1>4, <1>5, <1>6, <1>7 DEF Next, Start

(* Every step keeps the pool clean.                                        *)
LEMMA NextKeepsClean ==
  ASSUME ManagerInv, CleanInv, [Next]_vars
  PROVE  Clean(pool')
<1>1. Sound(pool) /\ Clean(pool)
  BY DEF ManagerInv, CleanInv
<1>2. CASE pool' = InitCLOSPool
  BY <1>2, InitClean
<1>3. CASE UseAvailableCLOS(pool).ok /\ pool' = UseAvailableCLOS(pool).pool
  BY <1>1, <1>3, UseClean
<1>4. ASSUME NEW c \in PoolClos, pool' = ReturnClos(pool, c)
      PROVE  Clean(pool')
  BY <1>1, <1>4, ReturnClean
<1>5. ASSUME NEW c \in PoolClos, pool' = MarkCLOSasUsed(pool, c).pool
      PROVE  Clean(pool')
  <2>1. CASE MarkCLOSasUsed(pool, c).ok
    BY <1>1, <1>5, <2>1, MarkClean
  <2>2. CASE ~MarkCLOSasUsed(pool, c).ok
    BY <1>1, <1>5, <2>2 DEF MarkCLOSasUsed
  <2> QED BY <2>1, <2>2
<1> QED BY <1>1, <1>2, <1>3, <1>4, <1>5, PoolSteps

(* CleanInv is an invariant.                                               *)
LEMMA CleanInvHolds ==
  ASSUME NoSharedRequests
  PROVE  Spec => []CleanInv
<1>1. Init => Clean(pool)
  BY InitClean DEF Init
<1>2. ManagerInv /\ AskInv /\ Clean(pool) /\ [Next]_vars => Clean(pool')
  BY NextKeepsClean DEF CleanInv
<1>3. Spec => []AskInv
  BY AskInvHolds
<1>4. CleanInv <=> AskInv /\ Clean(pool)
  BY DEF CleanInv
<1>5. Clean(pool)' <=> Clean(pool')
  BY DEF Clean, Once, Available, Used
<1> QED BY <1>1, <1>2, <1>3, <1>4, <1>5, ManagerInvHolds, PTL DEF Spec

(* pqos.go keeps two lists of classes.  As long as nobody asks for shared  *)
(* cache a class is in exactly one of them, whatever clients do at the     *)
(* same time and wherever the process ends: UseAvailableCLOS never hands   *)
(* out a class that is in use.                                             *)
THEOREM InOneList ==
  ASSUME NoSharedRequests
  PROVE  Spec => []( /\ Available(pool) \cup Used(pool) = PoolClos
                     /\ Available(pool) \cap Used(pool) = {} )
<1>1. ManagerInv /\ CleanInv => /\ Available(pool) \cup Used(pool) = PoolClos
                                /\ Available(pool) \cap Used(pool) = {}
  BY DEF ManagerInv, CleanInv, Clean, Sound, NoneLost
<1>2. Spec => []CleanInv
  BY CleanInvHolds
<1> QED BY <1>1, <1>2, ManagerInvHolds, PTL

-----------------------------------------------------------------------------
(* Who claims a class.                                                     *)

(* No PATCH is in flight, and a new workload has no class yet.             *)
PlainInv ==
  \A t \in Handlers :
     /\ thread[t].pc \in {"idle", "enforce", "undo", "create", "release", "delete"}
     /\ thread[t].pc = "enforce" => thread[t].w.cos = NoClos

(* While Init looks at the rows, none is new: they may only have gone.     *)
BootCopies ==
  phase = "mark" => \A i \in Ids : boot[i] # NoRow => db.rows[i] \in {NoRow, boot[i]}

(* A stored workload claims its class from the moment it is stored, or     *)
(* marked by Init, until Release has run for it.                           *)
Leaving(i) == \E t \in Handlers : thread[t].pc = "delete" /\ thread[t].w.id = i

Marked(i) == phase = "up" \/ (phase = "mark" /\ boot[i] = NoRow)

Claims(i) == i \in RowIds(db) /\ db.rows[i].cos # NoClos /\ ~Leaving(i) /\ Marked(i)

(* A handler carries a class from Enforce to the moment it is stored, and  *)
(* from the moment a row is read for a DELETE until Release.               *)
Carries(t) == thread[t].pc \in {"create", "release"} /\ thread[t].w.cos # NoClos

(* A claimed class is in use, and claimed once: by a stored workload, by a *)
(* request that will store it, or by a stored workload and the DELETE of   *)
(* it.                                                                     *)
RowsHold == \A i \in Ids : Claims(i) => db.rows[i].cos \in Used(pool)

HandlersHold == \A t \in Handlers : Carries(t) => thread[t].w.cos \in Used(pool)

RowsApart == \A i, j \in Ids : Claims(i) /\ Claims(j) /\ db.rows[i].cos = db.rows[j].cos => i = j

HandlersApart ==
  \A t, u \in Handlers : Carries(t) /\ Carries(u) /\ thread[t].w.cos = thread[u].w.cos => t = u

HandlersOfRows ==
  \A t \in Handlers, i \in Ids : Carries(t) /\ Claims(i) /\ thread[t].w.cos = db.rows[i].cos =>
     thread[t].pc = "release" /\ thread[t].w.id = i

Claimed == RowsHold /\ HandlersHold /\ RowsApart /\ HandlersApart /\ HandlersOfRows

ClaimInv == PlainInv /\ BootCopies /\ Claimed

(* A step after which nobody claims what he did not claim before.          *)
LEMMA NoNewClaims ==
  ASSUME Claimed,
         \A i \in Ids : Claims(i)' => /\ Claims(i) /\ db'.rows[i].cos = db.rows[i].cos
                                      /\ db'.rows[i].cos \in Used(pool'),
         \A t \in Handlers : Carries(t)' => /\ Carries(t) /\ thread'[t].pc = thread[t].pc
                                            /\ thread'[t].w = thread[t].w
                                            /\ thread'[t].w.cos \in Used(pool')
  PROVE  Claimed'
<1>1. RowsHold'
  BY DEF RowsHold, Used
<1>2. HandlersHold'
  BY DEF HandlersHold, Used
<1>3. RowsApart'
  BY DEF Claimed, RowsApart
<1>4. HandlersApart'
  BY DEF Claimed, HandlersApart
<1>5. HandlersOfRows'
  BY DEF Claimed, HandlersOfRows
<1> QED BY <1>1, <1>2, <1>3, <1>4, <1>5 DEF Claimed

(* A step that leaves handlers, pool and process alone, and at most        *)
(* removes rows.                                                           *)
LEMMA QuietKeepsClaim ==
  ASSUME ClaimInv, \A t \in Handlers : thread'[t] = thread[t], pool' = pool,
         phase' = phase, boot' = boot, db \in Database, db' \in Database,
         RowIds(db)' \subseteq RowIds(db), \A i \in RowIds(db)' : db'.rows[i] = db.rows[i]
  PROVE  ClaimInv'
<1>1. PlainInv'
  BY DEF ClaimInv, PlainInv
<1>2. BootCopies'
  BY DEF ClaimInv, BootCopies, RowIds
<1>3. \A i \in Ids : Claims(i)' => Claims(i) /\ db'.rows[i].cos = db.rows[i].cos
  BY DEF Claims, Leaving, Marked
<1>4. \A t \in Handlers : Carries(t)' => Carries(t)
  BY DEF Carries
<1>5. Claimed'
  BY <1>3, <1>4, NoNewClaims DEF ClaimInv, Claimed, RowsHold, HandlersHold
<1> QED BY <1>1, <1>2, <1>5 DEF ClaimInv

(* Goto by a handler, read at the others.                                  *)
LEMMA HandlerGoes ==
  ASSUME ManagerInv, NEW t \in Handlers, NEW x, Goto(t, x)
  PROVE  thread'[t] = x /\ \A u \in Handlers \ {t} : thread'[u] = thread[u]
BY GotoReads DEF ManagerInv, Handlers

(* A workload whose creation begins is carried with what its policy gives  *)
(* it, and is otherwise as it was posted.                                  *)
LEMMA BeginFills ==
  ASSUME NEW t, NEW w \in RDTWorkLoad, BeginCreate(t, w)
  PROVE  \E v : /\ SameButParams(v, w) /\ v.policy = w.policy /\ v.mba = w.mba
                /\ v = FilledByPolicy(w)
                /\ MembersNamed(v) = MembersNamed(w)
                /\ Goto(t, At("enforce", v))
<1>1. Goto(t, At("enforce", FilledByPolicy(w)))
  BY DEF BeginCreate
<1>2. PICK v : v = FilledByPolicy(w)
  OBVIOUS
<1>3. SameButParams(v, w) /\ v.policy = w.policy /\ v.mba = w.mba
  BY <1>2, Filled
<1>4. MembersNamed(v) = MembersNamed(w)
  BY <1>3 DEF SameButParams, MembersNamed
<1> QED BY <1>1, <1>2, <1>3, <1>4

(* A new request claims nothing.                                           *)
LEMMA BeginCreateKeepsClaim ==
  ASSUME ManagerInv, ClaimInv, NEW t \in Handlers, NEW w \in RDTWorkLoad, w.cos = NoClos,
         BeginCreate(t, w)
  PROVE  ClaimInv'
<1>1. /\ thread[t].pc = "idle" /\ phase = "up"
      /\ UNCHANGED <<pool, db, phase, boot>>
  BY DEF BeginCreate, Running, Handlers
<1>2. /\ thread'[t].pc = "enforce" /\ thread'[t].w.cos = NoClos
      /\ \A u \in Handlers \ {t} : thread'[u] = thread[u]
  <2>1. PICK v : SameButParams(v, w) /\ Goto(t, At("enforce", v))
    BY BeginFills
  <2> QED BY <2>1, HandlerGoes, LocalFields DEF SameButParams
<1>3. PlainInv'
  BY <1>2 DEF ClaimInv, PlainInv
<1>4. BootCopies'
  BY <1>1 DEF BootCopies
<1>5. \A i \in Ids : Claims(i)' => Claims(i)
  BY <1>1, <1>2 DEF Claims, Leaving, Marked, RowIds
<1>6. \A u \in Handlers : Carries(u)' => u # t /\ Carries(u)
  BY <1>2 DEF Carries
<1>7. Claimed'
  BY <1>1, <1>2, <1>5, <1>6, NoNewClaims DEF ClaimInv, Claimed, RowsHold, HandlersHold
<1> QED BY <1>3, <1>4, <1>7 DEF ClaimInv

(* A DELETE claims the class of the row it has read, which nobody else     *)
(* is about to delete.                                                     *)
LEMMA BeginDeleteKeepsClaim ==
  ASSUME OneAtATime, ManagerInv, ClaimInv, NEW t \in Handlers, NEW k \in RowIds(db), NEW o,
         BeginDelete(t, db.rows[k], o)
  PROVE  ClaimInv'
<1> DEFINE w == db.rows[k]
<1>1. /\ thread[t].pc = "idle" /\ phase = "up" /\ Goto(t, At("release", w))
      /\ UNCHANGED <<pool, db, phase, boot>> /\ ~Clash(w, MembersNamed(w))
  BY DEF BeginDelete, Running, Handlers
<1>2. /\ thread'[t].pc = "release" /\ thread'[t].w = w
      /\ \A u \in Handlers \ {t} : thread'[u] = thread[u]
  BY <1>1, HandlerGoes, LocalFields
<1>3. k \in Ids /\ w.id = k /\ w.id # NoId
  BY IdsAssumption DEF ManagerInv, RowsKeyed, RowIds, Ids
<1>4. ASSUME NEW u \in Handlers, thread[u].pc # "idle"
      PROVE  thread[u].w.id # k
  <2>1. u \in Threads /\ thread[u].w # NoRow
    BY <1>4, NoRowAssumption DEF Handlers, ManagerInv, ThreadsGood, GoodLocal
  <2> QED BY <1>1, <1>3, <2>1 DEF Clash
<1>5. ~Leaving(k)
  BY <1>4 DEF Leaving
<1>6. w.cos # NoClos => Claims(k)
  BY <1>1, <1>5 DEF Claims, Marked
<1>7. \A i \in Ids : Claims(i)' => Claims(i)
  BY <1>1, <1>2 DEF Claims, Leaving, Marked, RowIds
<1>8. \A u \in Handlers \ {t} : Carries(u)' => Carries(u)
  BY <1>2 DEF Carries
<1> HIDE DEF w
<1>9. PlainInv'
  BY <1>2 DEF ClaimInv, PlainInv
<1>10. BootCopies'
  BY <1>1 DEF BootCopies
<1>11. RowsHold' /\ RowsApart'
  BY <1>1, <1>7 DEF ClaimInv, Claimed, RowsHold, RowsApart
<1>12. Carries(t)' => w.cos # NoClos
  BY <1>2 DEF Carries
<1>13. HandlersHold'
  BY <1>1, <1>2, <1>3, <1>6, <1>8, <1>12 DEF ClaimInv, Claimed, RowsHold, HandlersHold, w
<1>14. ASSUME NEW u \in Handlers \ {t}, Carries(u), thread[u].w.cos = w.cos, w.cos # NoClos
       PROVE  FALSE
  <2>1. thread[u].w.id = k
    BY <1>3, <1>6, <1>14 DEF ClaimInv, Claimed, HandlersOfRows, w
  <2> QED BY <1>4, <1>14, <2>1 DEF Carries
<1>15. HandlersApart'
  BY <1>2, <1>8, <1>12, <1>14 DEF ClaimInv, Claimed, HandlersApart
<1>16. HandlersOfRows'
  <2> SUFFICES ASSUME NEW u \in Handlers, NEW i \in Ids, Carries(u)', Claims(i)',
                      thread'[u].w.cos = db.rows[i].cos
               PROVE  thread'[u].pc = "release" /\ thread'[u].w.id = i
    BY <1>1 DEF HandlersOfRows
  <2>1. CASE u # t
    BY <1>2, <1>7, <1>8, <2>1 DEF ClaimInv, Claimed, HandlersOfRows
  <2>2. CASE u = t
    <3>1. Claims(i) /\ Claims(k) /\ db.rows[i].cos = db.rows[k].cos
      BY <1>2, <1>6, <1>7, <1>12, <2>2 DEF w
    <3>2. i = k
      BY <1>3, <3>1 DEF ClaimInv, Claimed, RowsApart
    <3> QED BY <1>2, <1>3, <2>2, <3>2
  <2> QED BY <2>1, <2>2
<1> QED BY <1>9, <1>10, <1>11, <1>13, <1>15, <1>16 DEF ClaimInv, Claimed

(* Enforce of a new workload: the class it takes is one that nobody has.   *)
LEMMA EnforceNewKeepsClaim ==
  ASSUME ManagerInv, CleanInv, ClaimInv, NEW t \in Threads, EnforceNew(t)
  PROVE  ClaimInv'
<1> DEFINE w == thread[t].w
<1>1. EnforceStep(t, "enforce", "create") /\ Running(t, "enforce")
  BY DEF EnforceNew, EnforceStep
<1>2. t \in Handlers /\ w \in RDTWorkLoad /\ CacheOf(w).max # 0
  BY <1>1, HandlerAsks DEF CleanInv, PCs
<1>3. /\ thread[t].pc = "enforce" /\ UNCHANGED <<db, phase, boot>>
      /\ \/ pool' = pool /\ GoesOn(t, w, "create")
         \/ \E g \in PoolClos : Taking(t, "create", g)
  BY <1>1, <1>2, EnforceStepTakes
<1>4. w.cos = NoClos
  BY <1>2, <1>3 DEF ClaimInv, PlainInv
<1>5. \E v : GoesOn(t, v, "create")
  BY <1>3 DEF Taking
<1>6. \A v : GoesOn(t, v, "create") =>
        /\ thread'[t].pc \in {"idle", "undo", "create"}
        /\ thread'[t].pc = "create" => thread'[t].w = v
        /\ \A u \in Handlers \ {t} : thread'[u] = thread[u]
  BY <1>2, HandlerGoes, LocalFields DEF GoesOn
<1>7. PlainInv'
  BY <1>5, <1>6 DEF ClaimInv, PlainInv
<1>8. BootCopies'
  BY <1>3 DEF ClaimInv, BootCopies
<1>9. \A i \in Ids : Claims(i)' => Claims(i)
  BY <1>3, <1>5, <1>6 DEF Claims, Leaving, Marked, RowIds
<1>10. \A u \in Handlers \ {t} : Carries(u)' => Carries(u)
  BY <1>5, <1>6 DEF Carries
<1>11. CASE pool' = pool /\ GoesOn(t, w, "create")
  <2>1. ~Carries(t)'
    BY <1>4, <1>6, <1>11 DEF Carries
  <2>2. Claimed'
    BY <1>3, <1>6, <1>9, <1>10, <1>11, <2>1, NoNewClaims
       DEF ClaimInv, Claimed, RowsHold, HandlersHold
  <2> QED BY <1>7, <1>8, <2>2 DEF ClaimInv
<1>12. ASSUME NEW g \in PoolClos, Taking(t, "create", g)
       PROVE  ClaimInv'
  <2>1. PICK v : /\ v = [w EXCEPT !.cos = g] /\ GoesOn(t, v, "create")
                 /\ UseAvailableCLOS(pool).ok /\ g = UseAvailableCLOS(pool).clos
                 /\ pool' = UseAvailableCLOS(pool).pool
    BY <1>12 DEF Taking, Takes, TakesAs
  <2> HIDE DEF w
  <2>2. v.cos = g
    BY <1>2, <2>1, WithClosOnly
  <2>3. g \notin Used(pool) /\ Used(pool') = Used(pool) \cup {g}
    BY <2>1, UseClean DEF ManagerInv, CleanInv
  <2>4. Carries(t)' => thread'[t].w.cos = g /\ thread'[t].pc = "create"
    BY <1>6, <2>1, <2>2 DEF Carries
  <2>5. \A u \in Handlers \ {t} : thread'[u] = thread[u]
    BY <1>6, <2>1
  <2> HIDE DEF UseAvailableCLOS
  <2>6. RowsHold'
    BY <1>3, <1>9, <2>3 DEF ClaimInv, Claimed, RowsHold, Used
  <2>7. HandlersHold'
    BY <1>10, <2>3, <2>4, <2>5 DEF ClaimInv, Claimed, HandlersHold, Used
  <2>8. RowsApart'
    BY <1>3, <1>9 DEF ClaimInv, Claimed, RowsApart
  <2>9. \A u \in Handlers \ {t} : Carries(u)' => thread'[u].w.cos # g
    BY <1>10, <2>3, <2>5 DEF ClaimInv, Claimed, HandlersHold
  <2>10. HandlersApart'
    BY <1>10, <2>4, <2>5, <2>9 DEF ClaimInv, Claimed, HandlersApart
  <2>11. \A i \in Ids : Claims(i)' => db.rows[i].cos # g
    BY <1>9, <2>3 DEF ClaimInv, Claimed, RowsHold
  <2>12. HandlersOfRows'
    BY <1>3, <1>9, <1>10, <2>4, <2>5, <2>11 DEF ClaimInv, Claimed, HandlersOfRows
  <2> QED BY <1>7, <1>8, <2>6, <2>7, <2>8, <2>10, <2>12 DEF ClaimInv, Claimed
<1> QED BY <1>3, <1>11, <1>12

(* Create: the claim of the request becomes the claim of the row.          *)
LEMMA CreateKeepsClaim ==
  ASSUME ManagerInv, ClaimInv, NEW t \in Threads, Create(t)
  PROVE  ClaimInv'
<1> DEFINE w == thread[t].w
<1>1. /\ Running(t, "create") /\ Goto(t, Idle) /\ UNCHANGED <<pool, phase, boot>>
      /\ NextIdExists(db, w) /\ db' = CreateWorkload(db, w)
  BY DEF Create
<1>2. t \in Handlers /\ w \in RDTWorkLoad /\ phase = "up" /\ thread[t].pc = "create"
  BY <1>1, HandlerRuns DEF ManagerInv, Handlers, PCs, Running
<1>3. db \in Database
  BY DEF ManagerInv, TypeOK
<1> HIDE DEF w
<1>4. PICK k \in Ids :
      /\ RowIds(db') = RowIds(db) \cup {k}
      /\ \A i \in Ids \ {k} : db'.rows[i] = db.rows[i]
      /\ db'.rows[k] = [w EXCEPT !.id = k]
  BY <1>1, <1>2, <1>3, CreateEffect, CreateStores
<1>6. db'.rows[k].cos = w.cos
  BY <1>2, <1>4, WithId
<1>7. thread'[t].pc = "idle" /\ \A u \in Handlers \ {t} : thread'[u] = thread[u]
  BY <1>1, <1>2, HandlerGoes, LocalFields
<1>8. PlainInv'
  BY <1>7 DEF ClaimInv, PlainInv
<1>9. BootCopies'
  BY <1>1, <1>2 DEF BootCopies
<1>10. \A i \in Ids \ {k} : Claims(i)' => Claims(i)
  BY <1>1, <1>2, <1>4, <1>7 DEF Claims, Leaving, Marked, RowIds
<1>11. Claims(k)' => Carries(t)
  BY <1>2, <1>6 DEF Claims, Carries, w
<1>12. \A u \in Handlers : Carries(u)' => u # t /\ Carries(u)
  BY <1>7 DEF Carries
<1>13. RowsHold'
  BY <1>1, <1>2, <1>4, <1>6, <1>10, <1>11 DEF ClaimInv, Claimed, RowsHold, HandlersHold, w
<1>14. HandlersHold'
  BY <1>1, <1>7, <1>12 DEF ClaimInv, Claimed, HandlersHold
<1>15. \A i \in Ids \ {k} : Claims(i)' /\ Claims(k)' => db'.rows[i].cos # db'.rows[k].cos
  BY <1>2, <1>4, <1>6, <1>10, <1>11 DEF ClaimInv, Claimed, HandlersOfRows, w
<1>16. RowsApart'
  BY <1>4, <1>10, <1>15 DEF ClaimInv, Claimed, RowsApart
<1>17. HandlersApart'
  BY <1>7, <1>12 DEF ClaimInv, Claimed, HandlersApart
<1>18. \A u \in Handlers : Carries(u)' /\ Claims(k)' => thread'[u].w.cos # db'.rows[k].cos
  <2> SUFFICES ASSUME NEW u \in Handlers, Carries(u)', Claims(k)'
               PROVE  thread'[u].w.cos # db'.rows[k].cos
    OBVIOUS
  <2>1. Carries(t) /\ Carries(u) /\ u # t /\ thread'[u] = thread[u]
    BY <1>7, <1>11, <1>12
  <2>2. thread[t].w.cos # thread[u].w.cos
    BY <1>2, <2>1 DEF ClaimInv, Claimed, HandlersApart
  <2> QED BY <1>6, <2>1, <2>2 DEF w
<1>19. HandlersOfRows'
  <2> SUFFICES ASSUME NEW u \in Handlers, NEW i \in Ids, Carries(u)', Claims(i)',
                      thread'[u].w.cos = db'.rows[i].cos
               PROVE  thread'[u].pc = "release" /\ thread'[u].w.id = i
    BY DEF HandlersOfRows
  <2>1. i # k /\ Claims(i) /\ Carries(u) /\ thread'[u] = thread[u] /\ db'.rows[i] = db.rows[i]
    BY <1>4, <1>7, <1>10, <1>12, <1>18
  <2> QED BY <2>1 DEF ClaimInv, Claimed, HandlersOfRows
<1> QED BY <1>8, <1>9, <1>13, <1>14, <1>16, <1>17, <1>19 DEF ClaimInv, Claimed

(* The end of a DELETE, and of a POST that Enforce has refused.            *)
LEMMA DeleteKeepsClaim ==
  ASSUME ManagerInv, ClaimInv, NEW t \in Threads, NEW pc \in {"undo", "delete"},
         DeleteStep(t, pc)
  PROVE  ClaimInv'
<1> DEFINE w == thread[t].w
<1>1. /\ Running(t, pc) /\ Goto(t, Idle) /\ UNCHANGED <<pool, phase, boot>>
      /\ db' = DeleteWorkload(db, w)
  BY DEF DeleteStep
<1>2. t \in Handlers /\ w \in RDTWorkLoad /\ phase = "up" /\ thread[t].pc = pc
  BY <1>1, HandlerRuns DEF ManagerInv, Handlers, PCs, Running
<1>3. db \in Database
  BY DEF ManagerInv, TypeOK
<1>4. RowIds(db') = RowIds(db) \ {w.id} /\ \A i \in RowIds(db') : db'.rows[i] = db.rows[i]
  BY <1>1, <1>2, <1>3, DeleteEffect
<1>5. thread'[t].pc = "idle" /\ \A u \in Handlers \ {t} : thread'[u] = thread[u]
  BY <1>1, <1>2, HandlerGoes, LocalFields
<1>6. PlainInv'
  BY <1>5 DEF ClaimInv, PlainInv
<1>7. BootCopies'
  BY <1>1, <1>2 DEF BootCopies
<1>8. \A i \in Ids : Claims(i)' => Claims(i) /\ db'.rows[i].cos = db.rows[i].cos
  <2> SUFFICES ASSUME NEW i \in Ids, Claims(i)'
               PROVE  Claims(i) /\ db'.rows[i].cos = db.rows[i].cos
    OBVIOUS
  <2>1. i \in RowIds(db) /\ i # w.id /\ db'.rows[i] = db.rows[i]
    BY <1>4 DEF Claims
  <2>2. ~Leaving(i)
    BY <1>5, <2>1 DEF Claims, Leaving, w
  <2> QED BY <1>1, <2>1, <2>2 DEF Claims, Marked
<1>9. \A u \in Handlers : Carries(u)' => u # t /\ Carries(u)
  BY <1>5 DEF Carries
<1>10. Claimed'
  BY <1>1, <1>5, <1>8, <1>9, NoNewClaims DEF ClaimInv, Claimed, RowsHold, HandlersHold
<1> QED BY <1>6, <1>7, <1>10 DEF ClaimInv

(* Release: with the class the claims of the DELETE and of its row end.    *)
LEMMA ReleaseOldKeepsClaim ==
  ASSUME ManagerInv, CleanInv, ClaimInv, NEW t \in Threads, ReleaseOld(t)
  PROVE  ClaimInv'
<1> DEFINE w == thread[t].w
           done == [thread[t] EXCEPT !.pc = "delete"]
<1>1. ReleaseStep(t, "release", done) /\ pool.shared = NoClos
  BY DEF ReleaseOld, CleanInv, Clean
<1>2. thread[t] \in Thread
  BY DEF ManagerInv, ThreadsGood
<1>3. done.pc = "delete" /\ done.w = w
  BY <1>2 DEF Thread
<1> HIDE DEF done
<1>4. /\ t \in Handlers /\ phase = "up" /\ w \in RDTWorkLoad /\ thread[t].pc = "release"
      /\ UNCHANGED <<db, phase, boot>>
      /\ Goto(t, done) \/ Goto(t, Idle)
      /\ pool' = pool \/ (Goto(t, done) /\ w.cos \in PoolClos /\ Freeing(t))
  BY <1>1, ReleaseStepFrees DEF Handlers
<1>5. /\ thread'[t].pc \in {"delete", "idle"}
      /\ Goto(t, done) => thread'[t].pc = "delete" /\ thread'[t].w = w
      /\ \A u \in Handlers \ {t} : thread'[u] = thread[u]
  BY <1>3, <1>4, HandlerGoes, LocalFields
<1>6. PlainInv'
  BY <1>5 DEF ClaimInv, PlainInv
<1>7. BootCopies'
  BY <1>4 DEF ClaimInv, BootCopies
<1>8. \A i \in Ids : Claims(i)' => Claims(i)
  BY <1>4, <1>5 DEF Claims, Leaving, Marked, RowIds
<1>9. \A u \in Handlers : Carries(u)' => u # t /\ Carries(u)
  BY <1>5 DEF Carries
<1>10. CASE pool' = pool
  <2>1. Claimed'
    BY <1>4, <1>5, <1>8, <1>9, <1>10, NoNewClaims DEF ClaimInv, Claimed, RowsHold, HandlersHold
  <2> QED BY <1>6, <1>7, <2>1 DEF ClaimInv
<1>11. CASE Goto(t, done) /\ w.cos \in PoolClos /\ Freeing(t)
  <2>1. pool' = ReturnClos(pool, w.cos)
    BY <1>11 DEF Freeing, Frees
  <2>2. Used(pool) \ {w.cos} \subseteq Used(pool')
    BY <1>11, <2>1, ReturnClean DEF ManagerInv, CleanInv
  <2>3. Carries(t)
    BY <1>4, <1>11, PoolGroups DEF Carries
  <2>4. ASSUME NEW i \in Ids, Claims(i)'
        PROVE  db.rows[i].cos # w.cos
    <3>1. thread[t].w.id # i
      BY <1>4, <1>5, <1>11, <2>4 DEF Claims, Leaving
    <3> QED BY <1>4, <1>8, <2>3, <2>4, <3>1 DEF ClaimInv, Claimed, HandlersOfRows
  <2>5. \A u \in Handlers : Carries(u)' => thread[u].w.cos # w.cos
    BY <1>4, <1>9, <2>3 DEF ClaimInv, Claimed, HandlersApart
  <2>6. \A i \in Ids : Claims(i)' => db'.rows[i].cos \in Used(pool')
    BY <1>4, <1>8, <2>2, <2>4 DEF ClaimInv, Claimed, RowsHold
  <2>7. \A u \in Handlers : Carries(u)' => thread'[u].w.cos \in Used(pool')
    BY <1>5, <1>9, <2>2, <2>5 DEF ClaimInv, Claimed, HandlersHold
  <2>8. Claimed'
    BY <1>4, <1>5, <1>8, <1>9, <2>6, <2>7, NoNewClaims DEF ClaimInv
  <2> QED BY <1>6, <1>7, <2>8 DEF ClaimInv
<1> QED BY <1>4, <1>10, <1>11

(* While the process is down or has not read its rows nothing is claimed.  *)
LEMMA NotServingClaims ==
  ASSUME phase' \in {"down", "init"}, \A t \in Handlers : thread'[t].pc = "idle"
  PROVE  ClaimInv'
<1>1. PlainInv' /\ BootCopies'
  BY DEF PlainInv, BootCopies
<1>2. (\A i \in Ids : ~Claims(i)') /\ (\A t \in Handlers : ~Carries(t)')
  BY DEF Claims, Marked, Carries
<1>3. Claimed'
  BY <1>2 DEF Claimed, RowsHold, HandlersHold, RowsApart, HandlersApart, HandlersOfRows
<1> QED BY <1>1, <1>3 DEF ClaimInv

(* Init marks the class of a row: it is one that is available, so nobody   *)
(* claims it yet.                                                          *)
LEMMA MarkRowKeepsClaim ==
  ASSUME ManagerInv, ModeInv, CleanInv, ClaimInv, MarkRow
  PROVE  ClaimInv'
<1>1. phase = "mark" /\ (\A t \in Handlers : thread[t].pc = "idle") /\ db \in Database
      /\ boot \in Snapshot
  BY DEF MarkRow, ModeInv, HandlersIdle, Handlers, ManagerInv, TypeOK
<1>2. CASE Down
  BY <1>2, DownKeeps, NotServingClaims DEF Handlers
<1>3. ASSUME NEW i \in Ids, First(boot, i), boot' = [boot EXCEPT ![i] = NoRow],
             UNCHANGED <<phase, thread>>,
             \/ OtherMode(boot[i]) /\ pool' = pool /\ db' = DeleteWorkload(db, boot[i])
             \/ db' = db /\ boot[i].cos = NoClos /\ pool' = pool
             \/ /\ db' = db /\ boot[i].cos # NoClos /\ MarkCLOSasUsed(pool, boot[i].cos).ok
                /\ pool' = MarkCLOSasUsed(pool, boot[i].cos).pool
      PROVE  ClaimInv'
  <2>1. boot[i] \in RDTWorkLoad /\ boot[i] # NoRow /\ boot[i].id = i
    BY <1>1, <1>3 DEF First, Snapshot, ModeInv, BootInMode
  <2>2. /\ db' \in Database /\ RowIds(db)' \subseteq RowIds(db)
        /\ \A j \in RowIds(db)' : db'.rows[j] = db.rows[j]
        /\ OtherMode(boot[i]) /\ db' = DeleteWorkload(db, boot[i]) => i \notin RowIds(db)'
    BY <1>1, <1>3, <2>1, DeleteEffect DEF RowIds
  <2>3. \A j \in Ids : boot'[j] = IF j = i THEN NoRow ELSE boot[j]
    BY <1>1, <1>3 DEF Snapshot
  <2>4. PlainInv'
    BY <1>3 DEF ClaimInv, PlainInv
  <2>5. BootCopies'
    BY <1>1, <1>3, <2>2, <2>3 DEF ClaimInv, BootCopies, RowIds
  <2>6. \A j \in Ids \ {i} : Claims(j)' => Claims(j) /\ db'.rows[j] = db.rows[j]
    BY <1>1, <1>3, <2>2, <2>3 DEF Claims, Leaving, Marked
  <2>7. \A t \in Handlers : ~Carries(t)'
    BY <1>1, <1>3 DEF Carries
  <2>8. Claims(i)' => db.rows[i] = boot[i] /\ db'.rows[i] = db.rows[i] /\ boot[i].cos # NoClos
    BY <1>1, <1>3, <2>1, <2>2 DEF Claims, ClaimInv, BootCopies, RowIds
  <2>9. CASE pool' = pool /\ ~Claims(i)'
    <3>1. Claimed'
      BY <2>6, <2>7, <2>9, NoNewClaims DEF ClaimInv, Claimed, RowsHold
    <3> QED BY <2>4, <2>5, <3>1 DEF ClaimInv
  <2>10. CASE /\ boot[i].cos # NoClos /\ MarkCLOSasUsed(pool, boot[i].cos).ok
              /\ pool' = MarkCLOSasUsed(pool, boot[i].cos).pool
    <3> DEFINE c == boot[i].cos
    <3>1. c \in PoolClos
      BY <2>1, <2>10 DEF RDTWorkLoad, ClosName
    <3> HIDE DEF c
    <3>2. c \notin Used(pool) /\ Used(pool') = Used(pool) \cup {c}
      BY <2>10, <3>1, MarkClean DEF ManagerInv, CleanInv, c
    <3> HIDE DEF MarkCLOSasUsed
    <3>3. \A j \in Ids \ {i} : Claims(j)' => db.rows[j].cos \in Used(pool) /\ db.rows[j].cos # c
      BY <2>6, <3>2 DEF ClaimInv, Claimed, RowsHold
    <3>4. Claims(i)' => db'.rows[i].cos = c
      BY <2>8 DEF c
    <3>5. RowsHold'
      BY <2>6, <3>2, <3>3, <3>4 DEF RowsHold
    <3>6. RowsApart'
      BY <2>6, <3>3, <3>4 DEF ClaimInv, Claimed, RowsApart
    <3>7. HandlersHold' /\ HandlersApart' /\ HandlersOfRows'
      BY <2>7 DEF HandlersHold, HandlersApart, HandlersOfRows
    <3> QED BY <2>4, <2>5, <3>5, <3>6, <3>7 DEF ClaimInv, Claimed
  <2>11. OtherMode(boot[i]) /\ db' = DeleteWorkload(db, boot[i]) => ~Claims(i)'
    BY <2>2 DEF Claims
  <2> QED BY <1>3, <2>8, <2>9, <2>10, <2>11
<1>4. \/ Down
      \/ \E i \in Ids :
            /\ First(boot, i) /\ boot' = [boot EXCEPT ![i] = NoRow]
            /\ UNCHANGED <<phase, thread>>
            /\ \/ OtherMode(boot[i]) /\ pool' = pool /\ db' = DeleteWorkload(db, boot[i])
               \/ db' = db /\ boot[i].cos = NoClos /\ pool' = pool
               \/ /\ db' = db /\ boot[i].cos # NoClos /\ MarkCLOSasUsed(pool, boot[i].cos).ok
                  /\ pool' = MarkCLOSasUsed(pool, boot[i].cos).pool
  BY DEF MarkRow
<1> QED BY <1>2, <1>3, <1>4

(* The end of the process and its start.                                   *)
LEMMA BootKeepsClaim ==
  ASSUME ManagerInv, ModeInv, CleanInv, ClaimInv,
         Crash \/ ResetAPI \/ SanityCheck \/ LoadWorkloads \/ MarkRow \/ StartServing \/ Exit
  PROVE  ClaimInv'
<1>1. CASE Crash
  BY <1>1, DownKeeps, NotServingClaims DEF Crash, Handlers
<1>2. CASE ResetAPI \/ SanityCheck
  <2>1. phase' \in {"down", "init"} /\ thread' = thread /\ phase = "down"
    BY <1>2 DEF ResetAPI, SanityCheck
  <2> QED BY <2>1, NotServingClaims DEF ModeInv, HandlersIdle, Handlers
<1>3. CASE LoadWorkloads
  <2>1. /\ phase = "init" /\ phase' = "mark" /\ boot' = db.rows /\ db' = db
        /\ thread' = thread
    BY <1>3 DEF LoadWorkloads
  <2>2. \A t \in Handlers : thread'[t].pc = "idle"
    BY <2>1 DEF ModeInv, HandlersIdle, Handlers
  <2>3. PlainInv' /\ BootCopies'
    BY <2>1, <2>2 DEF PlainInv, BootCopies
  <2>4. (\A i \in Ids : ~Claims(i)') /\ (\A t \in Handlers : ~Carries(t)')
    BY <2>1, <2>2 DEF Claims, Marked, Carries, RowIds
  <2>5. Claimed'
    BY <2>4 DEF Claimed, RowsHold, HandlersHold, RowsApart, HandlersApart, HandlersOfRows
  <2> QED BY <2>3, <2>5 DEF ClaimInv
<1>4. CASE MarkRow
  BY <1>4, MarkRowKeepsClaim
<1>5. CASE StartServing
  <2>1. /\ phase = "mark" /\ phase' = "up" /\ boot = NoRows
        /\ UNCHANGED <<pool, db, thread, boot>>
    BY <1>5 DEF StartServing
  <2>2. PlainInv' /\ BootCopies'
    BY <2>1 DEF ClaimInv, PlainInv, BootCopies
  <2>3. \A i \in Ids : Claims(i)' => Claims(i)
    BY <2>1 DEF Claims, Marked, Leaving, RowIds, NoRows
  <2>4. \A t \in Handlers : Carries(t)' => Carries(t)
    BY <2>1 DEF Carries
  <2>5. Claimed'
    BY <2>1, <2>3, <2>4, NoNewClaims DEF ClaimInv, Claimed, RowsHold, HandlersHold
  <2> QED BY <2>2, <2>5 DEF ClaimInv
<1>6. CASE Exit
  <2>1. UNCHANGED <<pool, db, thread, phase, boot>> /\ db \in Database
    BY <1>6 DEF Exit, ManagerInv, TypeOK
  <2> QED BY <2>1, QuietKeepsClaim DEF RowIds
<1> QED BY <1>1, <1>2, <1>3, <1>4, <1>5, <1>6

(* The validator removes rows and touches no class.                        *)
LEMMA ScanKeepsClaim ==
  ASSUME ManagerInv, ClaimInv, NEW t \in Threads, BeginScan(t) \/ ScanRow(t) \/ EndScan(t)
  PROVE  ClaimInv'
<1>1. t = Validator
  BY DEF BeginScan, ScanRow, EndScan, Running, ClaimInv, PlainInv, Handlers
<1>2. \E x : Goto(t, x)
  BY DEF BeginScan, ScanRow, EndScan
<1>3. \A u \in Handlers : thread'[u] = thread[u]
  BY <1>1, <1>2, GotoReads DEF Handlers, ManagerInv
<1>4. /\ db \in Database /\ db' \in Database /\ RowIds(db)' \subseteq RowIds(db)
      /\ \A i \in RowIds(db)' : db'.rows[i] = db.rows[i]
  <2>1. CASE ScanRow(t)
    BY <2>1, ScanRowEffect DEF ManagerInv, TypeOK, RowIds
  <2>2. CASE BeginScan(t) \/ EndScan(t)
    BY <2>2 DEF ManagerInv, TypeOK, RowIds, BeginScan, EndScan
  <2> QED BY <2>1, <2>2
<1>5. UNCHANGED <<pool, phase, boot>>
  BY DEF BeginScan, ScanRow, EndScan
<1> QED BY <1>3, <1>4, <1>5, QuietKeepsClaim

(* Every step keeps ClaimInv.                                              *)
LEMMA NextKeepsClaim ==
  ASSUME OneAtATime, Patches = {}, ManagerInv, ModeInv, CleanInv, ClaimInv, [Next]_vars
  PROVE  ClaimInv'
<1>1. db \in Database /\ Clients \subseteq Handlers /\ Nova \in Handlers /\ Validator \in Threads
  BY ThreadsAssumption DEF ManagerInv, TypeOK, Threads, Handlers
<1>2. CASE UNCHANGED vars
  <2>1. UNCHANGED <<pool, db, thread, phase, boot>>
    BY <1>2 DEF vars
  <2> QED BY <1>1, <2>1, QuietKeepsClaim DEF RowIds
<1>3. \A r, id, u, o : NewRDTWorkLoad(r, id, u, o).cos = NoClos
  BY DEF NewRDTWorkLoad
<1>4. ASSUME NEW t \in Clients, NewWorkload(t) \/ RefuseNew(t) \/ DeleteByID(t) \/ Patch(t)
      PROVE  ClaimInv'
  <2>1. CASE NewWorkload(t)
    BY <1>1, <1>3, <2>1, RequestTypes, BeginCreateKeepsClaim DEF NewWorkload
  <2>2. CASE RefuseNew(t)
    <3>1. UNCHANGED <<pool, db, thread, phase, boot>>
      BY <2>2 DEF RefuseNew
    <3> QED BY <1>1, <3>1, QuietKeepsClaim DEF RowIds
  <2>3. CASE DeleteByID(t)
    <3>1. PICK id \in Ids : BeginDelete(t, GetWorkloadByID(db, id), "REST")
      BY <2>3 DEF DeleteByID
    <3>2. GetWorkloadByID(db, id) # NoRow
      BY <3>1 DEF BeginDelete
    <3> QED BY <1>1, <3>1, <3>2, DeletedRow, BeginDeleteKeepsClaim
  <2>4. CASE Patch(t)
    BY <2>4 DEF Patch
  <2> QED BY <1>4, <2>1, <2>2, <2>3, <2>4
<1>5. CASE processCreateNotification
  BY <1>1, <1>3, <1>5, RequestTypes, BeginCreateKeepsClaim DEF processCreateNotification
<1>6. CASE processDeleteNotification
  <2>1. PICK u \in UUIDs : BeginDelete(Nova, GetWorkloadByUUID(db, u), "OPENSTACK")
    BY <1>6 DEF processDeleteNotification
  <2>2. GetWorkloadByUUID(db, u) # NoRow
    BY <2>1 DEF BeginDelete
  <2> QED BY <1>1, <2>1, <2>2, DeletedRow, BeginDeleteKeepsClaim
<1>7. CASE BeginScan(Validator)
  BY <1>1, <1>7, ScanKeepsClaim
<1>8. ASSUME NEW t \in Threads, Continue(t)
      PROVE  ClaimInv'
  <2>1. CASE EnforceNew(t)
    BY <2>1, EnforceNewKeepsClaim
  <2>2. CASE Create(t)
    BY <2>2, CreateKeepsClaim
  <2>3. CASE UndoNew(t) \/ DeleteOld(t)
    BY <2>3, DeleteKeepsClaim DEF UndoNew, DeleteOld
  <2>4. CASE ReleaseOld(t)
    BY <2>4, ReleaseOldKeepsClaim
  <2>5. CASE BeginScan(t) \/ ScanRow(t) \/ EndScan(t)
    BY <2>5, ScanKeepsClaim
  <2>6. CASE \/ EnforceEnds(t) \/ RefusePatch(t) \/ ReleaseForPatch(t) \/ EnforcePatched(t)
             \/ UpdateMembers(t) \/ updateInDB(t)
    <3>1. PICK pc \in {"update", "reenforce", "store"} : Running(t, pc)
      BY <2>6 DEF EnforceEnds, RefusePatch, ReleaseForPatch, EnforcePatched, EnforceStep,
                  UpdateMembers, updateInDB
    <3>2. t \in Handlers
      BY <3>1, HandlerRuns DEF ManagerInv, Handlers, PCs
    <3> QED BY <3>1, <3>2 DEF Running, ClaimInv, PlainInv
  <2> QED BY <1>8, <2>1, <2>2, <2>3, <2>4, <2>5, <2>6 DEF Continue
<1>9. CASE Crash \/ ResetAPI \/ Start \/ Exit
  BY <1>9, BootKeepsClaim DEF Start
<1> QED BY <1>2, <1>4, <1>5, <1>6, <1>7, <1>8, <1>9 DEF Next

(* ClaimInv is an invariant when no two requests about the same workload   *)
(* or the same members are in flight, and nobody PATCHes.                  *)
LEMMA ClaimInvHolds ==
  ASSUME NoSharedRequests, OneAtATime, Patches = {}
  PROVE  Spec => []ClaimInv
<1>1. Init => ClaimInv
  <2> SUFFICES ASSUME Init PROVE ClaimInv
    OBVIOUS
  <2>1. (\A t \in Threads : thread[t].pc = "idle") /\ RowIds(db) = {} /\ phase = "up"
    BY DEF Init, Idle, EmptyDatabase, RowIds
  <2>2. (\A i \in Ids : ~Claims(i)) /\ (\A t \in Handlers : ~Carries(t))
    BY <2>1 DEF Claims, Carries, Handlers
  <2>3. Claimed
    BY <2>2 DEF Claimed, RowsHold, HandlersHold, RowsApart, HandlersApart, HandlersOfRows
  <2>4. PlainInv /\ BootCopies
    BY <2>1 DEF PlainInv, BootCopies, Handlers
  <2> QED BY <2>3, <2>4 DEF ClaimInv
<1>2. ManagerInv /\ ModeInv /\ CleanInv /\ ClaimInv /\ [Next]_vars => ClaimInv'
  BY NextKeepsClaim
<1>3. Spec => []CleanInv
  BY CleanInvHolds
<1>4. Spec => []ModeInv
  BY ModeInvHolds DEF PolicyStays
<1> QED BY <1>1, <1>2, <1>3, <1>4, ManagerInvHolds, PTL DEF Spec

(* While a stored workload runs, its class is in usedCLOSes and not in     *)
(* availableCLOSes, and this across crashes, restarts and the deletions of *)
(* the validator.  Without OneAtATime it is false (two DELETEs of one      *)
(* workload return its class twice, the second time after somebody else    *)
(* has taken it).                                                          *)
THEOREM RowClosHeldHolds ==
  ASSUME NoSharedRequests, OneAtATime, Patches = {}
  PROVE  Spec => []RowClosHeld
<1>1. ManagerInv /\ CleanInv /\ ClaimInv => RowClosHeld
  <2> SUFFICES ASSUME ManagerInv, CleanInv, ClaimInv, NEW i \in SettledWithClos
               PROVE  db.rows[i].cos \in Used(pool) \ Available(pool)
    BY DEF RowClosHeld
  <2>1. i \in RowIds(db) /\ phase = "up" /\ ~HalfWay(i) /\ db.rows[i].cos # NoClos
    BY DEF SettledWithClos, Settled
  <2>2. Claims(i)
    BY <2>1 DEF Claims, Leaving, HalfWay, Marked, Handlers
  <2> QED BY <2>1, <2>2 DEF ClaimInv, Claimed, RowsHold, CleanInv, Clean, RowIds
<1>2. Spec => []CleanInv
  BY CleanInvHolds
<1>3. Spec => []ClaimInv
  BY ClaimInvHolds
<1> QED BY <1>1, <1>2, <1>3, ManagerInvHolds, PTL

-----------------------------------------------------------------------------
(* The steps of a daemon that serves requests.                             *)

(* The platform changes by the end of tasks only.                          *)
TasksEnd ==
  /\ alive' \subseteq alive /\ rdt'.mask = rdt.mask /\ rdt'.mb = rdt.mb
  /\ \A m \in Members : rdt'.group[m] = IF m \in alive \ alive' THEN 0 ELSE rdt.group[m]

(* A step of no handler: stuttering, a refused POST, the validator, tasks  *)
(* that end.                                                               *)
Background ==
  /\ \A t \in Handlers : thread'[t] = thread[t]
  /\ pool' = pool /\ TasksEnd
  /\ RowIds(db)' \subseteq RowIds(db) /\ \A i \in RowIds(db)' : db'.rows[i] = db.rows[i]

(* What t creates, if it is not a client, is what Nova asks for.           *)
AskedBy(t, w) ==
  t \in Clients \/ \E r \in NovaRequests : w.mba = r.mba /\ w.policy = r.policy

(* The actions of handlers, when there is no PATCH.                        *)
HandlerStep(t) ==
  \/ \E w \in RDTWorkLoad : w.cos = NoClos /\ BeginCreate(t, w) /\ AskedBy(t, w)
  \/ \E k \in RowIds(db) : \E o : BeginDelete(t, db.rows[k], o)
  \/ EnforceNew(t) \/ Create(t) \/ ReleaseOld(t)
  \/ \E pc \in {"undo", "delete"} : DeleteStep(t, pc)

(* A step that leaves the platform alone.                                  *)
LEMMA SamePlatform == rdt' = rdt /\ alive' = alive => TasksEnd
BY DEF TasksEnd

(* While the process is up there are no other steps.                       *)
LEMMA UpSteps ==
  ASSUME Patches = {}, ManagerInv, ClaimInv, phase = "up", phase' = "up", [Next]_vars
  PROVE  Background \/ \E t \in Handlers : HandlerStep(t)
<1>1. Clients \subseteq Handlers /\ Nova \in Handlers /\ Validator \in Threads
  BY ThreadsAssumption DEF Threads, Handlers
<1>2. CASE UNCHANGED vars
  BY <1>2, SamePlatform DEF vars, Background, RowIds
<1>3. \A r, id, u, o : NewRDTWorkLoad(r, id, u, o).cos = NoClos
  BY DEF NewRDTWorkLoad
<1>4. ASSUME NEW t \in Clients, NewWorkload(t) \/ RefuseNew(t) \/ DeleteByID(t) \/ Patch(t)
      PROVE  Background \/ HandlerStep(t)
  <2>1. CASE NewWorkload(t)
    BY <1>3, <1>4, <2>1, RequestTypes DEF NewWorkload, HandlerStep, AskedBy
  <2>2. CASE RefuseNew(t)
    <3>1. UNCHANGED <<pool, rdt, alive, db, thread>>
      BY <2>2 DEF RefuseNew
    <3> QED BY <3>1, SamePlatform DEF Background, RowIds
  <2>3. CASE DeleteByID(t)
    <3>1. PICK id \in Ids : BeginDelete(t, GetWorkloadByID(db, id), "REST")
      BY <2>3 DEF DeleteByID
    <3>2. GetWorkloadByID(db, id) # NoRow
      BY <3>1 DEF BeginDelete
    <3> QED BY <3>1, <3>2, DeletedRow DEF HandlerStep
  <2>4. CASE Patch(t)
    BY <2>4 DEF Patch
  <2> QED BY <1>4, <2>1, <2>2, <2>3, <2>4
<1>5. CASE processCreateNotification
  <2>1. PICK r \in NovaRequests, u \in UUIDs :
           BeginCreate(Nova, NewRDTWorkLoad(r, NoId, u, "OPENSTACK"))
    BY <1>5 DEF processCreateNotification
  <2>2. AskedBy(Nova, NewRDTWorkLoad(r, NoId, u, "OPENSTACK"))
    BY DEF AskedBy, NewRDTWorkLoad
  <2> QED BY <1>1, <1>3, <2>1, <2>2, RequestTypes DEF HandlerStep
<1>6. CASE processDeleteNotification
  <2>1. PICK u \in UUIDs : BeginDelete(Nova, GetWorkloadByUUID(db, u), "OPENSTACK")
    BY <1>6 DEF processDeleteNotification
  <2>2. GetWorkloadByUUID(db, u) # NoRow
    BY <2>1 DEF BeginDelete
  <2> QED BY <1>1, <2>1, <2>2, DeletedRow DEF HandlerStep
<1>7. ASSUME NEW t \in Threads, BeginScan(t) \/ ScanRow(t) \/ EndScan(t)
      PROVE  Background
  <2>1. t = Validator
    BY <1>7 DEF BeginScan, ScanRow, EndScan, Running, ClaimInv, PlainInv, Handlers
  <2>2. \E x : Goto(t, x)
    BY <1>7 DEF BeginScan, ScanRow, EndScan
  <2>3. \A u \in Handlers : thread'[u] = thread[u]
    BY <2>1, <2>2, GotoReads DEF Handlers, ManagerInv
  <2>4. RowIds(db)' \subseteq RowIds(db) /\ \A i \in RowIds(db)' : db'.rows[i] = db.rows[i]
    <3>1. CASE ScanRow(t)
      BY <3>1, ScanRowEffect DEF RowIds
    <3>2. CASE BeginScan(t) \/ EndScan(t)
      BY <3>2 DEF RowIds, BeginScan, EndScan
    <3> QED BY <1>7, <3>1, <3>2
  <2>5. UNCHANGED <<pool, rdt, alive>>
    BY <1>7 DEF BeginScan, ScanRow, EndScan
  <2> QED BY <2>3, <2>4, <2>5, SamePlatform DEF Background
<1>8. ASSUME NEW t \in Threads, Continue(t)
      PROVE  Background \/ (t \in Handlers /\ HandlerStep(t))
  <2>1. CASE EnforceNew(t) \/ Create(t) \/ UndoNew(t) \/ DeleteOld(t) \/ ReleaseOld(t)
    <3>1. \E pc \in PCs \ {"idle", "scan"} : Running(t, pc)
      BY <2>1 DEF EnforceNew, EnforceStep, Create, UndoNew, DeleteOld, DeleteStep, ReleaseOld,
                  ReleaseStep, PCs
    <3>2. t \in Handlers
      BY <3>1, HandlerRuns DEF ManagerInv, Handlers
    <3> QED BY <2>1, <3>2 DEF HandlerStep, UndoNew, DeleteOld
  <2>2. CASE BeginScan(t) \/ ScanRow(t) \/ EndScan(t)
    BY <1>7, <2>2
  <2>3. CASE \/ EnforceEnds(t) \/ RefusePatch(t) \/ ReleaseForPatch(t) \/ EnforcePatched(t)
             \/ UpdateMembers(t) \/ updateInDB(t)
    <3>1. PICK pc \in {"update", "reenforce", "store"} : Running(t, pc)
      BY <2>3 DEF EnforceEnds, RefusePatch, ReleaseForPatch, EnforcePatched, EnforceStep,
                  UpdateMembers, updateInDB
    <3>2. t \in Handlers
      BY <3>1, HandlerRuns DEF ManagerInv, Handlers, PCs
    <3> QED BY <3>1, <3>2 DEF Running, ClaimInv, PlainInv
  <2> QED BY <1>8, <2>1, <2>2, <2>3 DEF Continue
<1>9. CASE Crash \/ ResetAPI \/ Start
  BY <1>9 DEF Crash, Down, ResetAPI, Start, SanityCheck, LoadWorkloads, MarkRow, StartServing
<1>10. CASE Exit
  <2>1. PICK d \in Tasks : /\ d \in alive /\ alive' = alive \ {d}
                           /\ rdt' = WithoutTasks(rdt, {d})
                           /\ UNCHANGED <<pool, db, thread>>
    BY <1>10, PostIdsAssumption DEF Exit, TaskExit
  <2>2. rdt \in Platform
    BY DEF ManagerInv, TypeOK
  <2>3. rdt'.mask = rdt.mask /\ rdt'.mb = rdt.mb
    BY <2>1, <2>2, DeallocateEffect
  <2>4. ASSUME NEW m \in Members
        PROVE  rdt'.group[m] = IF m \in {d} THEN 0 ELSE rdt.group[m]
    <3>1. WithoutTasks(rdt, {d}).group[m] = IF m \in {d} THEN 0 ELSE rdt.group[m]
      BY <2>2, EndedMove
    <3> QED BY <2>1, <3>1
  <2>5. TasksEnd
    BY <2>1, <2>3, <2>4 DEF TasksEnd
  <2> QED BY <2>1, <2>5 DEF Background, RowIds
<1> QED BY <1>1, <1>2, <1>4, <1>5, <1>6, <1>7, <1>8, <1>9, <1>10 DEF Next

(* A handler is about to enforce a workload only when it has just validated*)
(* it.                                                                     *)
LEMMA OnlyBeginEnforces ==
  ASSUME ManagerInv, NEW t \in Handlers, HandlerStep(t)
  PROVE  \/ \E w \in RDTWorkLoad : BeginCreate(t, w) /\ AskedBy(t, w)
         \/ \E x : Goto(t, x) /\ x.pc # "enforce"
<1>1. ASSUME NEW w, NEW o, BeginDelete(t, w, o)
      PROVE  \E x : Goto(t, x) /\ x.pc # "enforce"
  <2>1. Goto(t, At("release", w))
    BY <1>1 DEF BeginDelete
  <2> QED BY <2>1, LocalFields
<1>2. CASE EnforceNew(t)
  <2>1. PICK status, w : Goto(t, AfterEnforce(t, status, w, "create"))
    BY <1>2 DEF EnforceNew, EnforceStep
  <2>2. AfterEnforce(t, status, w, "create").pc \in {"create", "undo", "idle"}
    BY LocalFields DEF AfterEnforce
  <2> QED BY <2>1, <2>2
<1>3. CASE Create(t) \/ \E pc \in {"undo", "delete"} : DeleteStep(t, pc)
  <2>1. Goto(t, Idle)
    BY <1>3 DEF Create, DeleteStep
  <2> QED BY <2>1, LocalFields
<1>4. CASE ReleaseOld(t)
  <2>1. PICK ok : Goto(t, IF ok THEN [thread[t] EXCEPT !.pc = "delete"] ELSE Idle)
    BY <1>4 DEF ReleaseOld, ReleaseStep
  <2>2. thread[t] \in Thread
    BY DEF ManagerInv, ThreadsGood, GoodLocal, Handlers
  <2>3. [thread[t] EXCEPT !.pc = "delete"].pc = "delete"
    BY <2>2 DEF Thread
  <2> QED BY <2>1, <2>3, LocalFields
<1> QED BY <1>1, <1>2, <1>3, <1>4 DEF HandlerStep

-----------------------------------------------------------------------------
(* Nobody is a member of two workloads.                                    *)

Disjoint(v, w) == MembersNamed(v) \cap MembersNamed(w) = {}

Busy(t) == thread[t].pc # "idle"

(* Handler t is about to release or delete the row with id i.              *)
Removes(t, i) == thread[t].pc \in {"release", "delete"} /\ thread[t].w.id = i

RowsDisjoint == \A i, j \in RowIds(db) : i # j => Disjoint(db.rows[i], db.rows[j])

RequestsDisjoint ==
  \A t, u \in Handlers : Busy(t) /\ Busy(u) /\ t # u => Disjoint(thread[t].w, thread[u].w)

RequestsOffRows ==
  \A t \in Handlers, i \in RowIds(db) :
     Busy(t) => Removes(t, i) \/ Disjoint(thread[t].w, db.rows[i])

ApartInv == RowsDisjoint /\ RequestsDisjoint /\ RequestsOffRows

(* A step that brings no workload and no row.                              *)
LEMMA LessKeepsApart ==
  ASSUME ApartInv,
         \A t \in Handlers : Busy(t)' => /\ Busy(t)
                                         /\ MembersNamed(thread'[t].w) = MembersNamed(thread[t].w)
                                         /\ \A i \in Ids : Removes(t, i) => Removes(t, i)',
         RowIds(db)' \subseteq RowIds(db), \A i \in RowIds(db)' : db'.rows[i] = db.rows[i]
  PROVE  ApartInv'
<1>1. RowsDisjoint'
  BY DEF ApartInv, RowsDisjoint, Disjoint, MembersNamed
<1>2. RequestsDisjoint'
  BY DEF ApartInv, RequestsDisjoint, Disjoint
<1>3. RequestsOffRows'
  <2> SUFFICES ASSUME NEW t \in Handlers, NEW i \in RowIds(db)', Busy(t)', ~Removes(t, i)'
               PROVE  Disjoint(thread[t].w, db.rows[i])'
    BY DEF RequestsOffRows
  <2>1. i \in RowIds(db) /\ i \in Ids /\ db'.rows[i] = db.rows[i]
    BY DEF RowIds
  <2>2. Disjoint(thread[t].w, db.rows[i])
    BY <2>1 DEF ApartInv, RequestsOffRows
  <2> QED BY <2>1, <2>2 DEF Disjoint, MembersNamed
<1> QED BY <1>1, <1>2, <1>3 DEF ApartInv

(* A request that begins shares no member with one in flight.              *)
LEMMA NoClash ==
  ASSUME ManagerInv, NEW w, ~Clash(w, MembersNamed(w)), NEW u \in Handlers, Busy(u)
  PROVE  Disjoint(w, thread[u].w) /\ Disjoint(thread[u].w, w)
<1>1. u \in Threads /\ thread[u].w # NoRow
  BY NoRowAssumption DEF Busy, Handlers, ManagerInv, ThreadsGood, GoodLocal
<1> QED BY <1>1 DEF Clash, Disjoint, MembersNamed

(* The members of a new workload are in no row.                            *)
LEMMA ValidatedOffRows ==
  ASSUME db \in Database, NEW w \in RDTWorkLoad, ValidateWorkload(db, w), NEW i \in RowIds(db)
  PROVE  Disjoint(w, db.rows[i])
<1>1. db.rows[i] \in RDTWorkLoad
  BY DatabaseFields
<1>2. /\ db.rows[i].tasks \subseteq Tasks /\ db.rows[i].cores \subseteq Cores
      /\ w.tasks \subseteq Tasks /\ w.cores \subseteq Cores
  BY <1>1 DEF RDTWorkLoad
<1>3. db.rows[i].tasks \cap w.tasks = {} /\ db.rows[i].cores \cap w.cores = {}
  BY DEF ValidateWorkload
<1> QED BY <1>2, <1>3, MembersAssumption DEF Disjoint, MembersNamed

(* A request that begins with workload w.                                  *)
LEMMA BeginKeepsApart ==
  ASSUME ManagerInv, ApartInv, NEW t \in Handlers, NEW w, NEW pc, Goto(t, At(pc, w)), db' = db,
         ~Clash(w, MembersNamed(w)), ~Busy(t),
         \A i \in RowIds(db) : Disjoint(w, db.rows[i]) \/ (pc = "release" /\ w.id = i)
  PROVE  ApartInv'
<1>1. /\ thread'[t].pc = pc /\ thread'[t].w = w
      /\ \A u \in Handlers \ {t} : thread'[u] = thread[u]
  BY HandlerGoes, LocalFields
<1>2. RowsDisjoint'
  BY DEF ApartInv, RowsDisjoint, RowIds
<1>3. \A u \in Handlers \ {t} :
        Busy(u)' => Disjoint(w, thread[u].w) /\ Disjoint(thread[u].w, w)
  BY <1>1, NoClash DEF Busy
<1>4. RequestsDisjoint'
  BY <1>1, <1>3 DEF ApartInv, RequestsDisjoint, Busy
<1>5. RequestsOffRows'
  BY <1>1 DEF ApartInv, RequestsOffRows, Busy, Removes, RowIds
<1> QED BY <1>2, <1>4, <1>5 DEF ApartInv

(* Create stores a workload that shares no member with the other rows and  *)
(* the other requests.                                                     *)
LEMMA CreateKeepsApart ==
  ASSUME ManagerInv, ApartInv, NEW t \in Handlers, Create(t)
  PROVE  ApartInv'
<1> DEFINE w == thread[t].w
<1>1. /\ Running(t, "create") /\ Goto(t, Idle) /\ NextIdExists(db, w)
      /\ db' = CreateWorkload(db, w)
  BY DEF Create
<1>2. w \in RDTWorkLoad /\ thread[t].pc = "create" /\ t \in Threads
  BY <1>1, HandlerRuns DEF ManagerInv, Handlers, PCs, Running
<1>3. db \in Database
  BY DEF ManagerInv, TypeOK
<1> HIDE DEF w
<1>4. PICK k \in Ids :
      /\ RowIds(db') = RowIds(db) \cup {k}
      /\ \A i \in Ids \ {k} : db'.rows[i] = db.rows[i]
      /\ db'.rows[k].tasks = w.tasks /\ db'.rows[k].cores = w.cores
  BY <1>1, <1>2, <1>3, CreateEffect
<1>5. MembersNamed(db'.rows[k]) = MembersNamed(w)
  BY <1>4 DEF MembersNamed
<1>6. thread'[t].pc = "idle" /\ \A u \in Handlers \ {t} : thread'[u] = thread[u]
  BY <1>1, HandlerGoes, LocalFields
<1>7. \A i \in RowIds(db) : Disjoint(w, db.rows[i])
  BY <1>2 DEF ApartInv, RequestsOffRows, Busy, Removes, w
<1>8. \A i \in RowIds(db') \ {k} : i \in RowIds(db) /\ i \in Ids /\ db'.rows[i] = db.rows[i]
  BY <1>4 DEF RowIds
<1>9. RowsDisjoint'
  <2> SUFFICES ASSUME NEW i \in RowIds(db'), NEW j \in RowIds(db'), i # j
               PROVE  MembersNamed(db'.rows[i]) \cap MembersNamed(db'.rows[j]) = {}
    BY DEF RowsDisjoint, Disjoint, MembersNamed, RowIds
  <2>1. CASE i = k
    BY <1>5, <1>7, <1>8, <2>1 DEF Disjoint
  <2>2. CASE j = k
    BY <1>5, <1>7, <1>8, <2>2 DEF Disjoint
  <2>3. CASE i # k /\ j # k
    BY <1>8, <2>3 DEF ApartInv, RowsDisjoint, Disjoint
  <2> QED BY <2>1, <2>2, <2>3
<1>10. RequestsDisjoint'
  BY <1>6 DEF ApartInv, RequestsDisjoint, Busy, Disjoint, MembersNamed
<1>11. RequestsOffRows'
  <2> SUFFICES ASSUME NEW u \in Handlers, NEW i \in RowIds(db'), Busy(u)', ~Removes(u, i)'
               PROVE  MembersNamed(thread'[u].w) \cap MembersNamed(db'.rows[i]) = {}
    BY DEF RequestsOffRows, Disjoint, MembersNamed, RowIds
  <2>1. u # t /\ Busy(u) /\ thread'[u] = thread[u]
    BY <1>6 DEF Busy
  <2>2. CASE i = k
    <3>1. Disjoint(thread[u].w, thread[t].w)
      BY <1>2, <2>1 DEF ApartInv, RequestsDisjoint, Busy
    <3> QED BY <1>5, <2>1, <2>2, <3>1 DEF Disjoint, w
  <2>3. CASE i # k
    BY <1>8, <2>1, <2>3 DEF ApartInv, RequestsOffRows, Removes, Disjoint
  <2> QED BY <2>2, <2>3
<1> QED BY <1>9, <1>10, <1>11 DEF ApartInv

(* Every step of a daemon that serves requests keeps ApartInv.             *)
LEMMA ServingKeepsApart ==
  ASSUME OneAtATime, Patches = {}, ManagerInv, CleanInv, ClaimInv, ApartInv,
         phase = "up", phase' = "up", [Next]_vars
  PROVE  ApartInv'
<1>1. CASE Background
  <2>1. \A t \in Handlers : thread'[t] = thread[t]
    BY <1>1 DEF Background
  <2>2. RowIds(db)' \subseteq RowIds(db) /\ \A i \in RowIds(db)' : db'.rows[i] = db.rows[i]
    BY <1>1 DEF Background
  <2> QED BY <2>1, <2>2, LessKeepsApart DEF Busy, Removes
<1>2. ASSUME NEW t \in Handlers, HandlerStep(t)
      PROVE  ApartInv'
  <2>1. db \in Database /\ t \in Threads /\ thread[t] \in Thread
    BY DEF ManagerInv, TypeOK, Handlers
  <2>2. ASSUME NEW w \in RDTWorkLoad, BeginCreate(t, w)
        PROVE  ApartInv'
    <3>1. ~Busy(t) /\ ~Clash(w, MembersNamed(w)) /\ db' = db /\ ValidateWorkload(db, w)
      BY <2>2 DEF BeginCreate, Running, Busy, Validate
    <3>2. PICK v : /\ SameButParams(v, w) /\ MembersNamed(v) = MembersNamed(w)
                   /\ Goto(t, At("enforce", v))
      BY <2>2, BeginFills
    <3>3. ~Clash(v, MembersNamed(v))
      BY <3>1, <3>2 DEF Clash, SameButParams
    <3>4. \A i \in RowIds(db) : Disjoint(v, db.rows[i])
      BY <2>1, <3>1, <3>2, ValidatedOffRows DEF Disjoint
    <3> QED BY <3>1, <3>2, <3>3, <3>4, BeginKeepsApart
  <2>3. ASSUME NEW k \in RowIds(db), NEW o, BeginDelete(t, db.rows[k], o)
        PROVE  ApartInv'
    <3> DEFINE w == db.rows[k]
    <3>1. /\ ~Busy(t) /\ ~Clash(w, MembersNamed(w)) /\ Goto(t, At("release", w)) /\ db' = db
      BY <2>3 DEF BeginDelete, Running, Busy
    <3>2. \A i \in RowIds(db) : Disjoint(w, db.rows[i]) \/ w.id = i
      BY DEF ApartInv, RowsDisjoint, ManagerInv, RowsKeyed
    <3> HIDE DEF w
    <3> QED BY <3>1, <3>2, BeginKeepsApart
  <2>4. CASE EnforceNew(t)
    <3> DEFINE w == thread[t].w
    <3>1. EnforceStep(t, "enforce", "create") /\ Running(t, "enforce")
      BY <2>4 DEF EnforceNew, EnforceStep
    <3>2. w \in RDTWorkLoad /\ CacheOf(w).max # 0
      BY <2>1, <3>1, HandlerAsks DEF CleanInv, PCs
    <3>3. /\ thread[t].pc = "enforce" /\ db' = db
          /\ \/ GoesOn(t, w, "create")
             \/ \E g \in PoolClos : Taking(t, "create", g)
      BY <2>1, <3>1, <3>2, EnforceStepTakes
    <3>4. \E v : GoesOn(t, v, "create") /\ MembersNamed(v) = MembersNamed(w)
      <4>1. ASSUME NEW g \in PoolClos, Taking(t, "create", g)
            PROVE  \E v : GoesOn(t, v, "create") /\ MembersNamed(v) = MembersNamed(w)
        <5>1. PICK v : v = [w EXCEPT !.cos = g] /\ GoesOn(t, v, "create")
          BY <4>1 DEF Taking, Takes, TakesAs
        <5> HIDE DEF w
        <5>2. v.tasks = w.tasks /\ v.cores = w.cores
          BY <3>2, <5>1, WithClosOnly
        <5> QED BY <5>1, <5>2 DEF MembersNamed
      <4> QED BY <3>3, <4>1
    <3>5. /\ Busy(t)' => MembersNamed(thread'[t].w) = MembersNamed(w)
          /\ \A u \in Handlers \ {t} : thread'[u] = thread[u]
      BY <3>4, HandlerGoes, LocalFields DEF GoesOn, Busy
    <3> QED BY <3>3, <3>5, LessKeepsApart DEF Busy, Removes, RowIds
  <2>5. CASE Create(t)
    BY <2>5, CreateKeepsApart
  <2>6. CASE ReleaseOld(t)
    <3> DEFINE done == [thread[t] EXCEPT !.pc = "delete"]
    <3>1. ReleaseStep(t, "release", done) /\ pool.shared = NoClos
      BY <2>6 DEF ReleaseOld, CleanInv, Clean
    <3>2. done.pc = "delete" /\ done.w = thread[t].w
      BY <2>1 DEF Thread
    <3> HIDE DEF done
    <3>3. thread[t].pc = "release" /\ db' = db /\ (Goto(t, done) \/ Goto(t, Idle))
      BY <2>1, <3>1, ReleaseStepFrees
    <3>4. /\ thread'[t].pc \in {"delete", "idle"} /\ (Busy(t)' => thread'[t].w = thread[t].w)
          /\ thread'[t].pc = "delete" => thread'[t].w = thread[t].w
          /\ \A u \in Handlers \ {t} : thread'[u] = thread[u]
      BY <3>2, <3>3, HandlerGoes, LocalFields DEF Busy
    <3> QED BY <3>3, <3>4, LessKeepsApart DEF Busy, Removes, RowIds
  <2>7. ASSUME NEW pc \in {"undo", "delete"}, DeleteStep(t, pc)
        PROVE  ApartInv'
    <3>1. Running(t, pc) /\ Goto(t, Idle) /\ db' = DeleteWorkload(db, thread[t].w)
      BY <2>7 DEF DeleteStep
    <3>2. thread[t].w \in RDTWorkLoad
      BY <2>1, <3>1, HandlerRuns DEF ManagerInv, PCs
    <3>3. RowIds(db') \subseteq RowIds(db) /\ \A i \in RowIds(db') : db'.rows[i] = db.rows[i]
      BY <2>1, <3>1, <3>2, DeleteEffect
    <3>4. ~Busy(t)' /\ \A u \in Handlers \ {t} : thread'[u] = thread[u]
      BY <3>1, HandlerGoes, LocalFields DEF Busy
    <3> QED BY <3>3, <3>4, LessKeepsApart DEF Busy, Removes, RowIds
  <2> QED BY <1>2, <2>2, <2>3, <2>4, <2>5, <2>6, <2>7 DEF HandlerStep
<1> QED BY <1>1, <1>2, UpSteps

-----------------------------------------------------------------------------
(* What a step does to the workloads that hold a class.                    *)

Held == {db.rows[i] : i \in {j \in Ids : Claims(j)}}
          \cup {thread[t].w : t \in {u \in Handlers : Carries(u)}}

(* Workload v asks for what w asks for, and has class c.                   *)
Like(v, w, c) == /\ v \in RDTWorkLoad /\ v.cos = c
                 /\ v.tasks = w.tasks /\ v.cores = w.cores
                 /\ v.policy = w.policy
                 /\ v.max = w.max /\ v.min = w.min /\ v.mba = w.mba

(* v held its class before the step too, and shares no member with w.      *)
Kept(v) == \E u \in Held : Like(v, u, u.cos)

KeptApart(v, w) == \E u \in Held : Like(v, u, u.cos) /\ Disjoint(u, w)

(* A step that takes no class and frees none.                              *)
CalmStep ==
  /\ pool' = pool /\ alive' \subseteq alive /\ rdt'.mb = rdt.mb /\ rdt'.mask = rdt.mask
  /\ \A m \in Members : rdt'.group[m] \in {rdt.group[m], 0}
  /\ \A v \in Held' : /\ Kept(v)
                      /\ \A m \in MembersNamed(v) :
                            rdt'.group[m] = IF m \in alive \ alive' THEN 0 ELSE rdt.group[m]

(* Enforce takes class g for the workload of handler t.                    *)
TakeStep(t, g) ==
  /\ Taking(t, "create", g) /\ alive' \subseteq alive /\ thread[t].w \in RDTWorkLoad
  /\ EnforceNew(t) /\ thread[t].pc = "enforce"
  /\ \A v \in Held' : KeptApart(v, thread[t].w) \/ Like(v, thread[t].w, g)

(* Release frees the class of the workload of handler t.                   *)
FreeStep(t) ==
  /\ Freeing(t) /\ alive' = alive /\ thread[t].w \in Held
  /\ \A v \in Held' : KeptApart(v, thread[t].w) /\ v.cos # thread[t].w.cos

(* What holding a class means.                                             *)
LEMMA HeldGood ==
  ASSUME ManagerInv, CleanInv, ClaimInv, NEW w \in Held
  PROVE  /\ w \in RDTWorkLoad /\ w.cos \in PoolClos /\ w.cos \in Used(pool) \ Available(pool)
         /\ MembersNamed(w) \subseteq Members /\ w.tasks \subseteq Tasks /\ w.cores \subseteq Cores
         /\ Like(w, w, w.cos)
<1>1. w \in RDTWorkLoad /\ w.cos \in Used(pool)
  <2>1. CASE \E i \in Ids : Claims(i) /\ w = db.rows[i]
    <3>1. PICK i \in Ids : Claims(i) /\ w = db.rows[i]
      BY <2>1
    <3>2. i \in RowIds(db) /\ db \in Database
      BY <3>1 DEF Claims, ManagerInv, TypeOK
    <3> QED BY <3>1, <3>2, DatabaseFields DEF ClaimInv, Claimed, RowsHold
  <2>2. CASE \E t \in Handlers : Carries(t) /\ w = thread[t].w
    <3>1. PICK t \in Handlers : Carries(t) /\ w = thread[t].w
      BY <2>2
    <3>2. w \in RDTWorkLoad
      BY <3>1 DEF Carries, Handlers, ManagerInv, ThreadsGood, GoodLocal
    <3> QED BY <3>1, <3>2 DEF ClaimInv, Claimed, HandlersHold
  <2> QED BY <2>1, <2>2 DEF Held
<1>2. w.tasks \subseteq Tasks /\ w.cores \subseteq Cores
  BY <1>1 DEF RDTWorkLoad
<1>3. w.cos \in PoolClos /\ w.cos \notin Available(pool)
  BY <1>1 DEF Used, CleanInv, Clean
<1> QED BY <1>1, <1>2, <1>3 DEF MembersNamed, Members, Like

(* A workload is like itself.                                              *)
LEMMA HeldKept ==
  ASSUME ManagerInv, CleanInv, ClaimInv, NEW v \in Held
  PROVE  Kept(v) /\ \A w : Disjoint(v, w) => KeptApart(v, w)
BY HeldGood DEF Kept, KeptApart

(* Handlers and rows hold no more than before.                             *)
LEMMA FewerHeld ==
  ASSUME \A i \in Ids : Claims(i)' => Claims(i) /\ db'.rows[i] = db.rows[i],
         \A t \in Handlers : Carries(t)' => Carries(t) /\ thread'[t].w = thread[t].w,
         NEW v \in Held'
  PROVE  v \in Held
BY DEF Held

(* Steps that do not touch the platform, but for the end of tasks.         *)
LEMMA CalmIfKept ==
  ASSUME ManagerInv, pool' = pool, TasksEnd, \A v \in Held' : Kept(v)
  PROVE  CalmStep
<1>1. ASSUME NEW v \in Held', NEW m \in MembersNamed(v)
      PROVE  m \in Members
  <2>1. v \in RDTWorkLoad
    BY <1>1 DEF Kept, Like
  <2>2. v.tasks \subseteq Tasks /\ v.cores \subseteq Cores
    BY <2>1 DEF RDTWorkLoad
  <2> QED BY <1>1, <2>2 DEF MembersNamed, Members
<1> QED BY <1>1 DEF CalmStep, TasksEnd

(* Steps of handlers that change neither the pool nor the platform.        *)
LEMMA DatabaseStepsCalm ==
  ASSUME OneAtATime, ManagerInv, CleanInv, ClaimInv, phase = "up", phase' = "up",
         NEW t \in Handlers,
         \/ \E w \in RDTWorkLoad : w.cos = NoClos /\ BeginCreate(t, w)
         \/ \E k \in RowIds(db) : \E o : BeginDelete(t, db.rows[k], o)
         \/ Create(t)
         \/ \E pc \in {"undo", "delete"} : DeleteStep(t, pc)
  PROVE  CalmStep
<1>1. UNCHANGED <<pool, rdt, alive>> /\ t \in Threads /\ db \in Database
  BY DEF BeginCreate, BeginDelete, Create, DeleteStep, Handlers, ManagerInv, TypeOK
<1>2. TasksEnd
  BY <1>1, SamePlatform
<1>3. ASSUME NEW w \in RDTWorkLoad, BeginCreate(t, w)
      PROVE  \A v \in Held' : v \in Held
  <2>1. thread[t].pc = "idle" /\ db' = db /\ \E v : Goto(t, At("enforce", v))
    BY <1>3 DEF BeginCreate, Running
  <2>2. /\ thread'[t].pc = "enforce" /\ \A u \in Handlers \ {t} : thread'[u] = thread[u]
    BY <2>1, HandlerGoes, LocalFields
  <2>3. \A i \in Ids : Claims(i)' => Claims(i) /\ db'.rows[i] = db.rows[i]
    BY <2>1, <2>2 DEF Claims, Leaving, Marked, RowIds
  <2>4. \A u \in Handlers : Carries(u)' => Carries(u) /\ thread'[u].w = thread[u].w
    BY <2>2 DEF Carries
  <2> QED BY <2>3, <2>4, FewerHeld
<1>4. ASSUME NEW k \in RowIds(db), NEW o, BeginDelete(t, db.rows[k], o)
      PROVE  \A v \in Held' : v \in Held
  <2> DEFINE w == db.rows[k]
  <2>1. /\ thread[t].pc = "idle" /\ Goto(t, At("release", w)) /\ db' = db
        /\ ~Clash(w, MembersNamed(w))
    BY <1>4 DEF BeginDelete, Running
  <2>2. /\ thread'[t].pc = "release" /\ thread'[t].w = w
        /\ \A u \in Handlers \ {t} : thread'[u] = thread[u]
    BY <2>1, HandlerGoes, LocalFields
  <2>3. k \in Ids /\ w.id = k /\ w.id # NoId
    BY IdsAssumption DEF ManagerInv, RowsKeyed, RowIds, Ids
  <2>4. ~Leaving(k)
    <3> SUFFICES ASSUME NEW u \in Handlers, thread[u].pc = "delete", thread[u].w.id = k
                 PROVE  FALSE
      BY DEF Leaving
    <3>1. u \in Threads /\ thread[u].w # NoRow
      BY NoRowAssumption DEF Handlers, ManagerInv, ThreadsGood, GoodLocal
    <3> QED BY <2>1, <2>3, <3>1 DEF Clash
  <2>5. w.cos # NoClos => Claims(k)
    BY <2>4 DEF Claims, Marked
  <2>6. \A i \in Ids : Claims(i)' => Claims(i)
    BY <2>1, <2>2 DEF Claims, Leaving, Marked, RowIds
  <2> HIDE DEF w
  <2>7. \A u \in Handlers \ {t} : Carries(u)' => Carries(u)
    BY <2>2 DEF Carries
  <2>8. Carries(t)' => w \in Held
    BY <2>2, <2>3, <2>5 DEF Carries, Held, w
  <2> QED BY <2>1, <2>2, <2>6, <2>7, <2>8 DEF Held
<1>5. CASE Create(t)
  <2> DEFINE w == thread[t].w
  <2>1. /\ Running(t, "create") /\ Goto(t, Idle) /\ NextIdExists(db, w)
        /\ db' = CreateWorkload(db, w)
    BY <1>5 DEF Create
  <2>2. w \in RDTWorkLoad /\ thread[t].pc = "create"
    BY <1>1, <2>1, HandlerRuns DEF ManagerInv, PCs, Running
  <2> HIDE DEF w
  <2>3. PICK k \in Ids : /\ \A i \in Ids \ {k} : db'.rows[i] = db.rows[i]
                         /\ db'.rows[k] = [w EXCEPT !.id = k]
    BY <1>1, <2>1, <2>2, CreateEffect, CreateStores
  <2>4. Like(db'.rows[k], w, w.cos)
    BY <2>2, <2>3, WithId DEF Like
  <2>5. thread'[t].pc = "idle" /\ \A u \in Handlers \ {t} : thread'[u] = thread[u]
    BY <2>1, HandlerGoes, LocalFields
  <2>6. \A i \in Ids \ {k} : Claims(i)' => Claims(i)
    BY <2>2, <2>3, <2>5 DEF Claims, Leaving, Marked, RowIds, w
  <2>7. Claims(k)' => w \in Held
    <3>1. Claims(k)' => db'.rows[k].cos # NoClos
      BY DEF Claims
    <3>2. Claims(k)' => Carries(t)
      BY <2>2, <2>4, <3>1 DEF Like, Carries, w
    <3> QED BY <3>2 DEF Held, w
  <2>8. \A u \in Handlers : Carries(u)' => Carries(u) /\ thread'[u].w = thread[u].w
    BY <2>5 DEF Carries
  <2>9. ASSUME NEW v \in Held'
        PROVE  Kept(v)
    <3>1. v \in Held \/ (Claims(k)' /\ v = db'.rows[k])
      BY <2>3, <2>6, <2>8 DEF Held
    <3>2. CASE v \in Held
      BY <3>2, HeldKept
    <3>3. CASE Claims(k)' /\ v = db'.rows[k]
      BY <2>4, <2>7, <3>3 DEF Kept
    <3> QED BY <3>1, <3>2, <3>3
  <2> QED BY <1>1, <1>2, <2>9, CalmIfKept
<1>6. ASSUME NEW pc \in {"undo", "delete"}, DeleteStep(t, pc)
      PROVE  \A v \in Held' : v \in Held
  <2>1. Running(t, pc) /\ Goto(t, Idle) /\ db' = DeleteWorkload(db, thread[t].w)
    BY <1>6 DEF DeleteStep
  <2>2. thread[t].w \in RDTWorkLoad
    BY <1>1, <2>1, HandlerRuns DEF ManagerInv, PCs
  <2>3. /\ RowIds(db') = RowIds(db) \ {thread[t].w.id}
        /\ \A i \in RowIds(db') : db'.rows[i] = db.rows[i]
    BY <1>1, <2>1, <2>2, DeleteEffect
  <2>4. thread'[t].pc = "idle" /\ \A u \in Handlers \ {t} : thread'[u] = thread[u]
    BY <2>1, HandlerGoes, LocalFields
  <2>5. ASSUME NEW i \in Ids, Claims(i)'
        PROVE  Claims(i) /\ db'.rows[i] = db.rows[i]
    <3>1. i \in RowIds(db) /\ i # thread[t].w.id /\ db'.rows[i] = db.rows[i]
      BY <2>3, <2>5 DEF Claims
    <3>2. ~Leaving(i)
      BY <2>4, <2>5, <3>1 DEF Claims, Leaving
    <3> QED BY <2>5, <3>1, <3>2 DEF Claims, Marked
  <2>6. \A u \in Handlers : Carries(u)' => Carries(u) /\ thread'[u].w = thread[u].w
    BY <2>4 DEF Carries
  <2> QED BY <2>5, <2>6, FewerHeld
<1>7. (\A v \in Held' : v \in Held) => CalmStep
  BY <1>1, <1>2, HeldKept, CalmIfKept
<1> QED BY <1>3, <1>4, <1>5, <1>6, <1>7

(* Enforce of a new workload.                                              *)
LEMMA EnforceCalmOrTakes ==
  ASSUME ManagerInv, CleanInv, ClaimInv, ApartInv, phase = "up", phase' = "up",
         NEW t \in Handlers, EnforceNew(t)
  PROVE  CalmStep \/ \E g \in PoolClos : TakeStep(t, g)
<1> DEFINE w == thread[t].w
<1>1. /\ EnforceStep(t, "enforce", "create") /\ Running(t, "enforce") /\ t \in Threads
      /\ rdt \in Platform
  BY DEF EnforceNew, EnforceStep, Handlers, ManagerInv, TypeOK
<1>2. w \in RDTWorkLoad /\ CacheOf(w).max # 0
  BY <1>1, HandlerAsks DEF CleanInv, PCs
<1>3. /\ thread[t].pc = "enforce" /\ db' = db /\ alive' \subseteq alive
      /\ \/ pool' = pool /\ rdt' = WithoutTasks(rdt, alive \ alive') /\ GoesOn(t, w, "create")
         \/ \E g \in PoolClos : Taking(t, "create", g)
  BY <1>1, <1>2, EnforceStepTakes
<1>4. w.cos = NoClos
  BY <1>3 DEF ClaimInv, PlainInv
<1>5. \E v : GoesOn(t, v, "create")
  BY <1>3 DEF Taking
<1>6. \A v : GoesOn(t, v, "create") =>
        /\ thread'[t].pc \in {"idle", "undo", "create"}
        /\ thread'[t].pc = "create" => thread'[t].w = v
        /\ \A u \in Handlers \ {t} : thread'[u] = thread[u]
  BY HandlerGoes, LocalFields DEF GoesOn
<1>7. \A i \in Ids : Claims(i)' => Claims(i) /\ db'.rows[i] = db.rows[i]
  BY <1>3, <1>5, <1>6 DEF Claims, Leaving, Marked, RowIds
<1>8. \A u \in Handlers \ {t} : Carries(u)' => Carries(u) /\ thread'[u].w = thread[u].w
  BY <1>5, <1>6 DEF Carries
<1>9. CASE pool' = pool /\ rdt' = WithoutTasks(rdt, alive \ alive') /\ GoesOn(t, w, "create")
  <2>1. ~Carries(t)'
    BY <1>4, <1>6, <1>9 DEF Carries
  <2>2. \A v \in Held' : v \in Held
    BY <1>7, <1>8, <2>1, FewerHeld
  <2>3. TasksEnd
    <3>1. PICK gone : gone = alive \ alive'
      OBVIOUS
    <3>2. rdt'.mask = rdt.mask /\ rdt'.mb = rdt.mb
      BY <1>1, <1>9, <3>1, DeallocateEffect
    <3>3. \A m \in Members : rdt'.group[m] = IF m \in gone THEN 0 ELSE rdt.group[m]
      BY <1>1, <1>9, <3>1, EndedMove
    <3> QED BY <1>3, <3>1, <3>2, <3>3 DEF TasksEnd
  <2> QED BY <1>9, <2>2, <2>3, HeldKept, CalmIfKept
<1>10. ASSUME NEW g \in PoolClos, Taking(t, "create", g)
       PROVE  TakeStep(t, g)
  <2>1. PICK x : x = [w EXCEPT !.cos = g] /\ GoesOn(t, x, "create")
    BY <1>10 DEF Taking, Takes, TakesAs
  <2> HIDE DEF w
  <2>2. Like(x, w, g)
    BY <1>2, <2>1, WithClosOnly DEF Like
  <2>3. Carries(t)' => thread'[t].w = x
    BY <1>6, <2>1 DEF Carries
  <2>4. \A i \in Ids : Claims(i) => Disjoint(db.rows[i], w)
    BY <1>3 DEF Claims, ApartInv, RequestsOffRows, Busy, Removes, Disjoint, w
  <2>5. \A u \in Handlers \ {t} : Carries(u) => Disjoint(thread[u].w, w)
    BY <1>3 DEF Carries, ApartInv, RequestsDisjoint, Busy, w
  <2>6. ASSUME NEW v \in Held'
        PROVE  KeptApart(v, w) \/ Like(v, w, g)
    <3>1. CASE \E i \in Ids : Claims(i)' /\ v = db'.rows[i]
      <4>1. v \in Held /\ Disjoint(v, w)
        BY <1>7, <2>4, <3>1 DEF Held
      <4> QED BY <4>1, HeldKept
    <3>2. CASE \E u \in Handlers \ {t} : Carries(u)' /\ v = thread'[u].w
      <4>1. v \in Held /\ Disjoint(v, w)
        BY <1>8, <2>5, <3>2 DEF Held
      <4> QED BY <4>1, HeldKept
    <3>3. CASE Carries(t)' /\ v = thread'[t].w
      BY <2>2, <2>3, <3>3
    <3> QED BY <2>6, <3>1, <3>2, <3>3 DEF Held
  <2> QED BY <1>2, <1>3, <1>10, <2>6 DEF TakeStep, w
<1> QED BY <1>3, <1>9, <1>10

(* Release of a workload that is deleted.                                  *)
LEMMA ReleaseCalmOrFrees ==
  ASSUME ManagerInv, CleanInv, ClaimInv, ApartInv, phase = "up", phase' = "up",
         NEW t \in Handlers, ReleaseOld(t)
  PROVE  CalmStep \/ FreeStep(t)
<1> DEFINE w == thread[t].w
           done == [thread[t] EXCEPT !.pc = "delete"]
<1>1. ReleaseStep(t, "release", done) /\ pool.shared = NoClos /\ t \in Threads
  BY DEF ReleaseOld, CleanInv, Clean, Handlers
<1>2. thread[t] \in Thread
  BY <1>1 DEF ManagerInv, ThreadsGood
<1>3. done.pc = "delete" /\ done.w = w
  BY <1>2 DEF Thread
<1> HIDE DEF done
<1>4. /\ w \in RDTWorkLoad /\ thread[t].pc = "release" /\ alive' = alive /\ db' = db
      /\ \/ pool' = pool /\ rdt' = rdt /\ (Goto(t, done) \/ Goto(t, Idle))
         \/ /\ Goto(t, done) /\ pool' = pool
            /\ rdt' \in Platform /\ rdt'.mask = rdt.mask /\ rdt'.mb = rdt.mb
            /\ \A m \in Members : \/ rdt'.group[m] = rdt.group[m]
                                  \/ m \in w.tasks /\ rdt'.group[m] = 0
         \/ Goto(t, done) /\ w.cos \in PoolClos /\ Freeing(t)
  BY <1>1, ReleaseStepFrees
<1>5. /\ thread'[t].pc \in {"delete", "idle"}
      /\ Goto(t, done) => thread'[t].pc = "delete" /\ thread'[t].w = w
      /\ \A u \in Handlers \ {t} : thread'[u] = thread[u]
  BY <1>3, <1>4, HandlerGoes, LocalFields
<1>6. \A i \in Ids : Claims(i)' => Claims(i) /\ db'.rows[i] = db.rows[i]
  BY <1>4, <1>5 DEF Claims, Leaving, Marked, RowIds
<1>7. \A u \in Handlers : Carries(u)' => u # t /\ Carries(u) /\ thread'[u].w = thread[u].w
  BY <1>5 DEF Carries
<1>8. \A v \in Held' : v \in Held
  BY <1>6, <1>7, FewerHeld
<1>9. CASE pool' = pool /\ rdt' = rdt
  BY <1>4, <1>8, <1>9, SamePlatform, HeldKept, CalmIfKept
<1>10. ASSUME Goto(t, done), NEW v \in Held'
       PROVE  Disjoint(v, w) /\ (w.cos \in PoolClos => v.cos # w.cos)
  <2>1. w.cos \in PoolClos => Carries(t)
    BY <1>4, PoolGroups DEF Carries
  <2>2. CASE \E i \in Ids : Claims(i)' /\ v = db'.rows[i]
    <3>1. PICK i \in Ids : Claims(i)' /\ v = db'.rows[i]
      BY <2>2
    <3>2. w.id # i
      BY <1>5, <1>10, <3>1 DEF Claims, Leaving
    <3>3. i \in RowIds(db) /\ Claims(i) /\ v = db.rows[i]
      BY <1>6, <3>1 DEF Claims
    <3>4. Disjoint(w, v)
      BY <1>4, <3>2, <3>3 DEF ApartInv, RequestsOffRows, Busy, Removes
    <3> QED BY <2>1, <3>2, <3>3, <3>4 DEF Disjoint, ClaimInv, Claimed, HandlersOfRows
  <2>3. CASE \E u \in Handlers : Carries(u)' /\ v = thread'[u].w
    <3>1. PICK u \in Handlers : Carries(u)' /\ v = thread'[u].w
      BY <2>3
    <3>2. u # t /\ Carries(u) /\ v = thread[u].w
      BY <1>7, <3>1
    <3> QED BY <1>4, <2>1, <3>2
            DEF ApartInv, RequestsDisjoint, Busy, Carries, ClaimInv, Claimed, HandlersApart
  <2> QED BY <1>10, <2>2, <2>3 DEF Held
<1>11. CASE /\ Goto(t, done) /\ pool' = pool
            /\ rdt' \in Platform /\ rdt'.mask = rdt.mask /\ rdt'.mb = rdt.mb
            /\ \A m \in Members : \/ rdt'.group[m] = rdt.group[m]
                                  \/ m \in w.tasks /\ rdt'.group[m] = 0
  <2>1. ASSUME NEW v \in Held', NEW m \in MembersNamed(v)
        PROVE  rdt'.group[m] = rdt.group[m]
    <3>1. m \in Members
      BY <1>8, <2>1, HeldGood
    <3>2. m \notin w.tasks
      BY <1>10, <1>11, <2>1 DEF Disjoint, MembersNamed
    <3> QED BY <1>11, <3>1, <3>2
  <2>2. \A v \in Held' : Kept(v)
    BY <1>8, HeldKept
  <2> QED BY <1>4, <1>11, <2>1, <2>2 DEF CalmStep
<1>12. CASE Goto(t, done) /\ w.cos \in PoolClos /\ Freeing(t)
  <2>1. w \in Held
    BY <1>4, <1>12, PoolGroups DEF Held, Carries
  <2>2. \A v \in Held' : KeptApart(v, w) /\ v.cos # w.cos
    BY <1>8, <1>10, <1>12, HeldKept
  <2> QED BY <1>4, <1>12, <2>1, <2>2 DEF FreeStep
<1> QED BY <1>4, <1>9, <1>11, <1>12

(* Every step of a daemon that serves requests is of one of three kinds.   *)
LEMMA HeldSteps ==
  ASSUME OneAtATime, Patches = {}, ManagerInv, CleanInv, ClaimInv, ApartInv,
         phase = "up", phase' = "up", [Next]_vars
  PROVE  \/ CalmStep
         \/ \E t \in Handlers, g \in PoolClos : TakeStep(t, g)
         \/ \E t \in Handlers : FreeStep(t)
<1>1. CASE Background
  <2>1. /\ \A t \in Handlers : thread'[t] = thread[t]
        /\ pool' = pool /\ TasksEnd /\ RowIds(db)' \subseteq RowIds(db)
        /\ \A i \in RowIds(db)' : db'.rows[i] = db.rows[i]
    BY <1>1 DEF Background
  <2>2. \A i \in Ids : Claims(i)' => Claims(i) /\ db'.rows[i] = db.rows[i]
    BY <2>1 DEF Claims, Leaving, Marked
  <2>3. \A t \in Handlers : Carries(t)' => Carries(t) /\ thread'[t].w = thread[t].w
    BY <2>1 DEF Carries
  <2>4. \A v \in Held' : v \in Held
    BY <2>2, <2>3, FewerHeld
  <2> QED BY <2>1, <2>4, HeldKept, CalmIfKept
<1>2. ASSUME NEW t \in Handlers, HandlerStep(t)
      PROVE  CalmStep \/ (\E g \in PoolClos : TakeStep(t, g)) \/ FreeStep(t)
  <2>1. CASE EnforceNew(t)
    BY <2>1, EnforceCalmOrTakes
  <2>2. CASE ReleaseOld(t)
    BY <2>2, ReleaseCalmOrFrees
  <2>3. CASE ~EnforceNew(t) /\ ~ReleaseOld(t)
    BY <1>2, <2>3, DatabaseStepsCalm DEF HandlerStep
  <2> QED BY <2>1, <2>2, <2>3
<1> QED BY <1>1, <1>2, UpSteps

(* What TakeStep does to the pool and to the platform.                     *)
LEMMA TakeEffect ==
  ASSUME ManagerInv, CleanInv, NEW t \in Handlers, NEW g \in PoolClos, TakeStep(t, g),
         NEW w, w = thread[t].w
  PROVE  /\ w \in RDTWorkLoad /\ UseCache(w) /\ Type(w) \in {"guarantee", "besteffort"}
         /\ \A s \in Sockets : enforceCache(w)[s] # {}
         /\ g \in Available(pool) /\ Available(pool') = Available(pool) \ {g}
         /\ \A x \in Group \ {0, g} : rdt'.mask[x] = rdt.mask[x]
         /\ \A x \in Group \ {g} : rdt'.mb[x] = rdt.mb[x]
         /\ \A m \in Members : \/ rdt'.group[m] \in {rdt.group[m], 0}
                               \/ rdt'.group[m] = g /\ m \in MembersNamed(w)
         /\ w.tasks \subseteq alive' =>
              \A m \in IF w.tasks # {} THEN w.tasks ELSE w.cores : rdt'.group[m] = g
         /\ \A m \in Members \ MembersNamed(w) :
              rdt'.group[m] = IF m \in alive \ alive' THEN 0 ELSE rdt.group[m]
         /\ \E c \in Choices(w, alive', mbaValue') :
              /\ \A s \in Sockets : rdt'.mask[g][s] = enforceCache(w)[c.order[s]]
              /\ \A s \in Sockets :
                    \/ rdt'.mb[g][s] \in {rdt.mb[g][s], MbaMax}
                    \/ UsesMba(w) /\ rdt'.mb[g][s] = enforceMba(w, c.seen)[s]
              /\ UsesMba(w) /\ w.tasks \subseteq alive' =>
                    \A s \in Sockets \cap c.set : rdt'.mb[g][s] = enforceMba(w, c.seen)[s]
<1>1. w \in RDTWorkLoad /\ alive' \subseteq alive /\ alive \subseteq Tasks /\ rdt \in Platform
  BY DEF TakeStep, ManagerInv, TypeOK
<1>2. PICK c, r : /\ c \in Choices(w, alive', mbaValue') /\ Takes(w, c, r, g)
                  /\ pool' = r.pool /\ rdt' = WithoutTasks(r.rdt, alive \ alive')
  BY DEF TakeStep, Taking
<1>3. PICK e, gone : e = r.rdt /\ gone = alive \ alive'
  OBVIOUS
<1>4. /\ UseCache(w) /\ Type(w) \in {"guarantee", "besteffort"} /\ e \in Platform
      /\ \A s \in Sockets : enforceCache(w)[s] # {}
      /\ UseAvailableCLOS(pool).ok
      /\ g = UseAvailableCLOS(pool).clos /\ pool' = UseAvailableCLOS(pool).pool
  BY <1>2, <1>3 DEF Takes, TakesAs
<1>5. g \in Available(pool) /\ Available(pool') = Available(pool) \ {g}
  BY <1>4, UseClean DEF ManagerInv, CleanInv
<1>6. rdt'.mask = e.mask /\ rdt'.mb = e.mb
  BY <1>2, <1>3, <1>4, DeallocateEffect
<1>7. \A m \in Members : rdt'.group[m] = IF m \in gone THEN 0 ELSE e.group[m]
  <2>1. rdt' = WithoutTasks(e, gone)
    BY <1>2, <1>3
  <2> QED BY <1>4, <2>1, EndedMove
<1>8. /\ \A x \in Group \ {0, g} : e.mask[x] = rdt.mask[x]
      /\ \A s \in Sockets : e.mask[g][s] = enforceCache(w)[c.order[s]]
      /\ \A x \in Group \ {g} : e.mb[x] = rdt.mb[x]
      /\ \A s \in Sockets :
            \/ e.mb[g][s] \in {rdt.mb[g][s], MbaMax}
            \/ UsesMba(w) /\ e.mb[g][s] = enforceMba(w, c.seen)[s]
      /\ UsesMba(w) /\ w.tasks \subseteq c.living =>
            \A s \in Sockets \cap c.set : e.mb[g][s] = enforceMba(w, c.seen)[s]
      /\ \A m \in Members : e.group[m] = IF m \in Joining(w, c) THEN g ELSE rdt.group[m]
  BY <1>2, <1>3 DEF Takes, TakesAs
<1>9. c.living = alive'
  BY <1>2 DEF Choices
<1>10. w.tasks \subseteq Tasks /\ w.cores \subseteq Cores
  BY <1>1 DEF RDTWorkLoad
<1>11. Joining(w, c) \subseteq MembersNamed(w)
  BY DEF Joining, Associated, MembersNamed
<1>12. w.tasks \subseteq alive' => Joining(w, c) = IF w.tasks # {} THEN w.tasks ELSE w.cores
  BY <1>9 DEF Joining, Associated
<1>13. ASSUME w.tasks \subseteq alive', NEW m \in IF w.tasks # {} THEN w.tasks ELSE w.cores
       PROVE  rdt'.group[m] = g
  <2>1. m \in Members /\ m \notin gone
    BY <1>1, <1>3, <1>10, <1>13, MembersAssumption DEF Members
  <2> QED BY <1>7, <1>8, <1>12, <1>13, <2>1
<1>14. \A m \in Members : \/ rdt'.group[m] \in {rdt.group[m], 0}
                          \/ rdt'.group[m] = g /\ m \in MembersNamed(w)
  BY <1>7, <1>8, <1>11
<1>15. \A m \in Members \ MembersNamed(w) :
         rdt'.group[m] = IF m \in gone THEN 0 ELSE rdt.group[m]
  BY <1>7, <1>8, <1>11
<1>16. \E d \in Choices(w, alive', mbaValue') :
         /\ \A s \in Sockets : rdt'.mask[g][s] = enforceCache(w)[d.order[s]]
         /\ \A s \in Sockets :
               \/ rdt'.mb[g][s] \in {rdt.mb[g][s], MbaMax}
               \/ UsesMba(w) /\ rdt'.mb[g][s] = enforceMba(w, d.seen)[s]
         /\ UsesMba(w) /\ w.tasks \subseteq alive' =>
               \A s \in Sockets \cap d.set : rdt'.mb[g][s] = enforceMba(w, d.seen)[s]
  <2>1. \A s \in Sockets : rdt'.mask[g][s] = enforceCache(w)[c.order[s]]
    BY <1>6, <1>8
  <2>2. \A s \in Sockets :
               \/ rdt'.mb[g][s] \in {rdt.mb[g][s], MbaMax}
               \/ UsesMba(w) /\ rdt'.mb[g][s] = enforceMba(w, c.seen)[s]
    BY <1>6, <1>8
  <2>3. UsesMba(w) /\ w.tasks \subseteq alive' =>
               \A s \in Sockets \cap c.set : rdt'.mb[g][s] = enforceMba(w, c.seen)[s]
    BY <1>6, <1>8, <1>9
  <2> QED BY <1>2, <2>1, <2>2, <2>3
<1>17. /\ \A x \in Group \ {0, g} : rdt'.mask[x] = rdt.mask[x]
       /\ \A x \in Group \ {g} : rdt'.mb[x] = rdt.mb[x]
  BY <1>6, <1>8
<1> QED BY <1>1, <1>3, <1>4, <1>5, <1>13, <1>14, <1>15, <1>16, <1>17

(* What FreeStep does to the pool and to the platform.                     *)
LEMMA FreeEffect ==
  ASSUME ManagerInv, CleanInv, ClaimInv, NEW t \in Handlers, FreeStep(t),
         NEW w, w = thread[t].w
  PROVE  /\ w.cos \in PoolClos /\ Available(pool') = Available(pool) \cup {w.cos}
         /\ \A x \in Group \ {0, w.cos} : rdt'.mask[x] = rdt.mask[x]
         /\ rdt'.mask[w.cos] = DefaultMask /\ rdt'.mb[w.cos] = DefaultBandwidth
         /\ \A x \in Group \ {w.cos} : rdt'.mb[x] = rdt.mb[x]
         /\ \A m \in Members :
              rdt'.group[m] = IF m \in MembersNamed(w) THEN 0 ELSE rdt.group[m]
<1>1. w.cos \in PoolClos /\ w.cos \in Used(pool)
  BY HeldGood DEF FreeStep
<1>2. PICK r : Frees(w, r) /\ pool' = r.pool /\ rdt' = r.rdt
  BY DEF FreeStep, Freeing
<1>3. pool' = ReturnClos(pool, w.cos)
  BY <1>2 DEF Frees
<1>4. Available(pool') = Available(pool) \cup {w.cos}
  BY <1>1, <1>3, ReturnClean DEF ManagerInv, CleanInv
<1> QED BY <1>1, <1>2, <1>4 DEF Frees, MembersNamed

-----------------------------------------------------------------------------
(* The members of a class.                                                 *)

(* The platform on which everything begins.                                *)
LEMMA InitPlatform ==
  ASSUME Init
  PROVE  /\ \A m \in Members : rdt.group[m] = 0
         /\ \A g \in Group, s \in Sockets : rdt.mb[g][s] = MbaMax
         /\ \A g \in PoolClos, s \in Sockets : rdt.mask[g][s] = CbmMask
<1>1. PICK f : f = FreshPlatform("percentage")
  OBVIOUS
<1>2. /\ f \in Platform
      /\ \A g \in Group, s \in Sockets : f.mask[g][s] = CbmMask
  BY <1>1, FreshEffect DEF MbaMode
<1>3. /\ \A m \in Members : f.group[m] = 0
      /\ \A g \in Group, s \in Sockets : f.mb[g][s] = MbaMax
  BY <1>1 DEF FreshPlatform, DefaultBandwidth
<1>4. PICK e : e = SetOSGroup(f, InitCLOSPool)
  OBVIOUS
<1>5. /\ e \in Platform /\ e.group = f.group /\ e.mb = f.mb
      /\ \A g \in PoolClos : e.mask[g] = f.mask[g]
  BY <1>2, <1>4, SetOSGroupEffect
<1>6. rdt = SetInfraGroup(e)
  BY <1>1, <1>4 DEF Init
<1>7. /\ rdt.group = e.group /\ rdt.mb = e.mb
      /\ \A g \in PoolClos : rdt.mask[g] = e.mask[g]
  BY <1>5, <1>6, SetInfraGroupEffect
<1> QED BY <1>2, <1>3, <1>5, <1>7, PoolGroups

(* The members of workload w are in its class, unless a task of it ended.  *)
Placed(w) == w.tasks \subseteq alive =>
               \A m \in IF w.tasks # {} THEN w.tasks ELSE w.cores : rdt.group[m] = w.cos

FreeIsEmpty == \A g \in Available(pool) : MembersOf(rdt, g) = {}

HeldByMembers == \A w \in Held : MembersOf(rdt, w.cos) \subseteq MembersNamed(w) /\ Placed(w)

MemberInv == FreeIsEmpty /\ HeldByMembers

(* Every step of a daemon that serves requests keeps MemberInv.            *)
LEMMA ServingKeepsMembers ==
  ASSUME OneAtATime, Patches = {}, ManagerInv, CleanInv, ClaimInv, ApartInv, MemberInv,
         phase = "up", phase' = "up", [Next]_vars
  PROVE  MemberInv'
<1>1. alive \subseteq Tasks /\ Available(pool) \subseteq PoolClos
  BY DEF ManagerInv, TypeOK, Sound, NoneLost
<1>2. \A u \in Held : \A v : Like(v, u, u.cos) =>
         /\ v.cos = u.cos /\ v.cos \in PoolClos /\ v.cos \notin Available(pool)
         /\ MembersNamed(v) = MembersNamed(u) /\ MembersNamed(v) \subseteq Members
         /\ v.tasks \subseteq Tasks /\ v.cores \subseteq Cores
  BY HeldGood DEF Like, MembersNamed
<1>3. CASE CalmStep
  <2>1. /\ pool' = pool /\ alive' \subseteq alive
        /\ \A m \in Members : rdt'.group[m] \in {rdt.group[m], 0}
    BY <1>3 DEF CalmStep
  <2>2. \A g \in PoolClos : MembersOf(rdt', g) \subseteq MembersOf(rdt, g)
    BY <2>1, PoolGroups DEF MembersOf
  <2>3. FreeIsEmpty'
    BY <1>1, <2>1, <2>2 DEF MemberInv, FreeIsEmpty, MembersOf
  <2>4. ASSUME NEW v \in Held'
        PROVE  MembersOf(rdt', v.cos) \subseteq MembersNamed(v) /\ Placed(v)'
    <3>1. PICK u \in Held : Like(v, u, u.cos)
      BY <1>3, <2>4 DEF CalmStep, Kept
    <3>2. MembersOf(rdt', v.cos) \subseteq MembersNamed(v)
      BY <1>2, <2>2, <3>1 DEF MemberInv, HeldByMembers
    <3>3. \A m \in MembersNamed(v) :
             rdt'.group[m] = IF m \in alive \ alive' THEN 0 ELSE rdt.group[m]
      BY <1>3, <2>4 DEF CalmStep
    <3>4. Placed(v)'
      <4> SUFFICES ASSUME v.tasks \subseteq alive',
                          NEW m \in IF v.tasks # {} THEN v.tasks ELSE v.cores
                   PROVE  rdt'.group[m] = v.cos
        BY DEF Placed
      <4>1. v.tasks = u.tasks /\ v.cores = u.cores /\ v.cos = u.cos /\ v.tasks \subseteq alive
        BY <2>1, <3>1 DEF Like
      <4>2. rdt.group[m] = v.cos
        BY <4>1 DEF MemberInv, HeldByMembers, Placed
      <4>3. m \in MembersNamed(v) /\ m \notin alive \ alive'
        BY <1>1, <1>2, <3>1, MembersAssumption DEF MembersNamed
      <4> QED BY <3>3, <4>2, <4>3
    <3> QED BY <3>2, <3>4
  <2>5. HeldByMembers'
    BY <2>4 DEF HeldByMembers, MembersOf, MembersNamed
  <2> QED BY <2>3, <2>5 DEF MemberInv
<1>4. ASSUME NEW t \in Handlers, NEW g \in PoolClos, TakeStep(t, g)
      PROVE  MemberInv'
  <2>1. PICK w : w = thread[t].w
    OBVIOUS
  <2>2. /\ g \in Available(pool) /\ Available(pool') = Available(pool) \ {g}
        /\ \A m \in Members : \/ rdt'.group[m] \in {rdt.group[m], 0}
                              \/ rdt'.group[m] = g /\ m \in MembersNamed(w)
        /\ w.tasks \subseteq alive' =>
              \A m \in IF w.tasks # {} THEN w.tasks ELSE w.cores : rdt'.group[m] = g
        /\ \A m \in Members \ MembersNamed(w) :
              rdt'.group[m] = IF m \in alive \ alive' THEN 0 ELSE rdt.group[m]
    BY <1>4, <2>1, TakeEffect
  <2>3. alive' \subseteq alive
    BY <1>4 DEF TakeStep
  <2>4. \A x \in PoolClos \ {g} : MembersOf(rdt', x) \subseteq MembersOf(rdt, x)
    BY <2>2, PoolGroups DEF MembersOf
  <2>5. FreeIsEmpty'
    BY <1>1, <2>2, <2>4 DEF MemberInv, FreeIsEmpty, MembersOf, Available
  <2>6. MembersOf(rdt', g) \subseteq MembersNamed(w)
    <3>1. MembersOf(rdt, g) = {}
      BY <2>2 DEF MemberInv, FreeIsEmpty
    <3> QED BY <2>2, <3>1, PoolGroups DEF MembersOf
  <2>7. ASSUME NEW v \in Held'
        PROVE  MembersOf(rdt', v.cos) \subseteq MembersNamed(v) /\ Placed(v)'
    <3>1. CASE Like(v, w, g)
      <4>1. v.cos = g /\ v.tasks = w.tasks /\ v.cores = w.cores
        BY <3>1 DEF Like
      <4> QED BY <2>2, <2>6, <4>1 DEF Placed, MembersNamed
    <3>2. CASE KeptApart(v, w)
      <4>1. PICK u \in Held : Like(v, u, u.cos) /\ Disjoint(u, w)
        BY <3>2 DEF KeptApart
      <4>2. v.cos \in PoolClos \ {g}
        BY <1>2, <2>2, <4>1
      <4>3. MembersOf(rdt', v.cos) \subseteq MembersNamed(v)
        BY <1>2, <2>4, <4>1, <4>2 DEF MemberInv, HeldByMembers
      <4>4. Placed(v)'
        <5> SUFFICES ASSUME v.tasks \subseteq alive',
                            NEW m \in IF v.tasks # {} THEN v.tasks ELSE v.cores
                     PROVE  rdt'.group[m] = v.cos
          BY DEF Placed
        <5>1. v.tasks = u.tasks /\ v.cores = u.cores /\ v.cos = u.cos /\ v.tasks \subseteq alive
          BY <2>3, <4>1 DEF Like
        <5>2. rdt.group[m] = v.cos
          BY <5>1 DEF MemberInv, HeldByMembers, Placed
        <5>3. m \in MembersNamed(v) /\ m \notin alive \ alive'
          BY <1>1, <1>2, <4>1, MembersAssumption DEF MembersNamed
        <5>4. m \in Members \ MembersNamed(w)
          BY <1>2, <4>1, <5>3 DEF Disjoint
        <5> QED BY <2>2, <5>2, <5>3, <5>4
      <4> QED BY <4>3, <4>4
    <3> QED BY <1>4, <2>1, <2>7, <3>1, <3>2 DEF TakeStep
  <2>8. HeldByMembers'
    BY <2>7 DEF HeldByMembers, MembersOf, MembersNamed
  <2> QED BY <2>5, <2>8 DEF MemberInv
<1>5. ASSUME NEW t \in Handlers, FreeStep(t)
      PROVE  MemberInv'
  <2>1. PICK w : w = thread[t].w /\ w \in Held
    BY <1>5 DEF FreeStep
  <2>2. /\ w.cos \in PoolClos /\ Available(pool') = Available(pool) \cup {w.cos}
        /\ \A m \in Members :
              rdt'.group[m] = IF m \in MembersNamed(w) THEN 0 ELSE rdt.group[m]
    BY <1>5, <2>1, FreeEffect
  <2>3. \A x \in PoolClos : MembersOf(rdt', x) \subseteq MembersOf(rdt, x) \ MembersNamed(w)
    BY <2>2, PoolGroups DEF MembersOf
  <2>4. MembersOf(rdt, w.cos) \subseteq MembersNamed(w)
    BY <2>1 DEF MemberInv, HeldByMembers
  <2>5. FreeIsEmpty'
    BY <1>1, <2>2, <2>3, <2>4 DEF MemberInv, FreeIsEmpty, MembersOf, Available
  <2>6. ASSUME NEW v \in Held'
        PROVE  MembersOf(rdt', v.cos) \subseteq MembersNamed(v) /\ Placed(v)'
    <3>1. PICK u \in Held : Like(v, u, u.cos) /\ Disjoint(u, w)
      BY <1>5, <2>1, <2>6 DEF FreeStep, KeptApart
    <3>2. MembersOf(rdt', v.cos) \subseteq MembersNamed(v)
      BY <1>2, <2>3, <3>1 DEF MemberInv, HeldByMembers
    <3>3. Placed(v)'
      <4> SUFFICES ASSUME v.tasks \subseteq alive',
                          NEW m \in IF v.tasks # {} THEN v.tasks ELSE v.cores
                   PROVE  rdt'.group[m] = v.cos
        BY DEF Placed
      <4>1. /\ v.tasks = u.tasks /\ v.cores = u.cores /\ v.cos = u.cos
            /\ v.tasks \subseteq alive
        BY <1>5, <3>1 DEF Like, FreeStep
      <4>2. rdt.group[m] = v.cos
        BY <4>1 DEF MemberInv, HeldByMembers, Placed
      <4>3. m \in MembersNamed(v)
        BY DEF MembersNamed
      <4>4. m \in Members \ MembersNamed(w)
        BY <1>2, <3>1, <4>3 DEF Disjoint
      <4> QED BY <2>2, <4>2, <4>4
    <3> QED BY <3>2, <3>3
  <2>7. HeldByMembers'
    BY <2>6 DEF HeldByMembers, MembersOf, MembersNamed
  <2> QED BY <2>5, <2>7 DEF MemberInv
<1> QED BY <1>3, <1>4, <1>5, HeldSteps

(* While the process runs from its first start, ApartInv and MemberInv     *)
(* hold.  (A crash between Enforce and Create leaves members in a class    *)
(* that the next process takes to be free.)                                *)
LEMMA MemberInvHolds ==
  ASSUME NoSharedRequests, OneAtATime, Patches = {}
  PROVE  Spec /\ [](phase = "up") => [](ApartInv /\ MemberInv)
<1>1. Init => ApartInv /\ MemberInv
  <2> SUFFICES ASSUME Init PROVE ApartInv /\ MemberInv
    OBVIOUS
  <2>1. (\A t \in Threads : thread[t].pc = "idle") /\ RowIds(db) = {}
    BY DEF Init, Idle, EmptyDatabase, RowIds
  <2>2. Held = {}
    BY <2>1 DEF Held, Claims, Carries, Handlers
  <2>3. \A m \in Members : rdt.group[m] = 0
    BY InitPlatform
  <2>4. Available(pool) \subseteq PoolClos
    BY InitSound DEF Init, Sound, NoneLost
  <2>5. MemberInv
    BY <2>2, <2>3, <2>4, PoolGroups DEF MemberInv, FreeIsEmpty, HeldByMembers, MembersOf
  <2>6. ApartInv
    BY <2>1 DEF ApartInv, RowsDisjoint, RequestsDisjoint, RequestsOffRows, Busy, Handlers
  <2> QED BY <2>5, <2>6
<1>2. /\ ManagerInv /\ CleanInv /\ ClaimInv /\ (phase = "up") /\ (phase = "up")'
      /\ ApartInv /\ MemberInv /\ [Next]_vars
      => ApartInv' /\ MemberInv'
  BY ServingKeepsApart, ServingKeepsMembers
<1>3. Spec => []CleanInv
  BY CleanInvHolds
<1>4. Spec => []ClaimInv
  BY ClaimInvHolds
<1> QED BY <1>1, <1>2, <1>3, <1>4, ManagerInvHolds, PTL DEF Spec

(* A settled row holds its class.                                          *)
LEMMA SettledHolds ==
  ASSUME NEW i \in SettledWithClos
  PROVE  i \in Ids /\ Claims(i) /\ db.rows[i] \in Held
<1>1. i \in RowIds(db) /\ phase = "up" /\ ~HalfWay(i) /\ db.rows[i].cos # NoClos
  BY DEF SettledWithClos, Settled
<1>2. i \in Ids /\ Claims(i)
  BY <1>1 DEF Claims, Leaving, HalfWay, Marked, Handlers, RowIds
<1> QED BY <1>2 DEF Held

(* The tasks of a stored workload (or its cores, if it has none) are in    *)
(* its class, as long as none of the tasks has ended: no step of another   *)
(* request, of the validator or of an ending task moves them elsewhere.    *)
THEOREM MembersPlacedHolds ==
  ASSUME NoSharedRequests, OneAtATime, Patches = {}
  PROVE  Spec /\ [](phase = "up") => []MembersPlaced
<1>1. MemberInv => MembersPlaced
  BY SettledHolds DEF MembersPlaced, MemberInv, HeldByMembers, Placed
<1>2. Spec /\ [](phase = "up") => [](ApartInv /\ MemberInv)
  BY MemberInvHolds
<1> QED BY <1>1, <1>2, PTL

(* Nothing but the members of a stored workload is in its class: no        *)
(* member of another workload and no leftover of a released one.           *)
THEOREM ExclusiveMembersHolds ==
  ASSUME NoSharedRequests, OneAtATime, Patches = {}
  PROVE  Spec /\ [](phase = "up") => []ExclusiveMembers
<1>1. MemberInv => ExclusiveMembers
  BY SettledHolds DEF ExclusiveMembers, MemberInv, HeldByMembers
<1>2. Spec /\ [](phase = "up") => [](ApartInv /\ MemberInv)
  BY MemberInvHolds
<1> QED BY <1>1, <1>2, PTL

-----------------------------------------------------------------------------
(* The ways of a class.                                                    *)

(* A host with one cache: with several, Enforce gives the entries of the   *)
(* schemata to the caches in any order.                                    *)
OneCache == \A s, t \in Sockets : s = t

(* Where the members of w run its class has a run of ways of its pool, of  *)
(* a length that w asked for.                                              *)
WaysFit(w) == \A s \in LiveSockets(w) : Fits(w, rdt.mask[w.cos][s], s)

FitInv == \A w \in Held : UseCache(w) /\ Exclusive(w) /\ WaysFit(w)

(* A workload runs on caches that Enforce takes into account.              *)
LEMMA LiveSocketsListed ==
  ASSUME NEW w \in RDTWorkLoad, NEW s \in LiveSockets(w)
  PROVE  s \in Sockets /\ inCacheList(s, getSocketIDs(w))
<1>1. w.tasks \subseteq Tasks /\ w.cores \subseteq Cores
  BY DEF RDTWorkLoad
<1>2. PICK m \in LiveMembers(w) : s \in Affinity[m]
  BY DEF LiveSockets
<1>3. m \in w.tasks \cup w.cores /\ m \notin Tasks \ alive /\ m \in Members
  BY <1>1, <1>2, MembersAssumption DEF LiveMembers, Members
<1> QED BY <1>2, <1>3, AffinityAssumption DEF inCacheList, getSocketIDs

(* Workloads that ask for the same need the same ways, on fewer caches     *)
(* when a task has ended.                                                  *)
LEMMA LikeFits ==
  ASSUME NEW v, NEW u, NEW c, Like(v, u, c)
  PROVE  /\ UseCache(v) <=> UseCache(u)
         /\ Type(v) = Type(u)
         /\ \A m, s : Fits(v, m, s) <=> Fits(u, m, s)
         /\ alive' \subseteq alive => LiveSockets(v)' \subseteq LiveSockets(u)
<1>1. v.tasks = u.tasks /\ v.cores = u.cores
  BY DEF Like
<1>2. CacheOf(v) = CacheOf(u)
  BY DEF Like, CacheOf
<1>3. MinWays(v) = MinWays(u) /\ MaxWays(v) = MaxWays(u) /\ (UseCache(v) <=> UseCache(u))
  BY <1>2 DEF MinWays, MaxWays, UseCache
<1>4. Type(v) = Type(u)
  BY <1>3 DEF Type
<1>5. \A m, s : Fits(v, m, s) <=> Fits(u, m, s)
  BY <1>3, <1>4 DEF Fits
<1> QED BY <1>1, <1>3, <1>4, <1>5 DEF LiveSockets, LiveMembers

(* Every step of a daemon that serves requests keeps FitInv.               *)
LEMMA ServingKeepsFit ==
  ASSUME OneCache, OneAtATime, Patches = {}, ManagerInv, CleanInv, ClaimInv, ApartInv, FitInv,
         phase = "up", phase' = "up", [Next]_vars
  PROVE  FitInv'
<1> SUFFICES ASSUME NEW v \in Held'
             PROVE  UseCache(v) /\ Exclusive(v) /\ WaysFit(v)'
  BY DEF FitInv, UseCache, Exclusive, Type, MinWays, MaxWays
<1>1. ASSUME NEW u \in Held, Like(v, u, u.cos), alive' \subseteq alive,
             rdt'.mask[u.cos] = rdt.mask[u.cos]
      PROVE  UseCache(v) /\ Exclusive(v) /\ WaysFit(v)'
  <2>1. UseCache(u) /\ Exclusive(u) /\ WaysFit(u) /\ v.cos = u.cos
    BY <1>1 DEF FitInv, Like
  <2>2. LiveSockets(v)' \subseteq LiveSockets(u)
    BY <1>1, LikeFits
  <2>3. ASSUME NEW s \in LiveSockets(v)' PROVE Fits(v, rdt'.mask[v.cos][s], s)
    BY <1>1, <2>1, <2>2, <2>3, LikeFits DEF WaysFit
  <2>4. WaysFit(v)'
    BY <2>3 DEF WaysFit, Fits, Type, MinWays, MaxWays
  <2> QED BY <1>1, <2>1, <2>4, LikeFits DEF Exclusive
<1>2. CASE CalmStep
  BY <1>1, <1>2 DEF CalmStep, Kept
<1>3. ASSUME NEW t \in Handlers, NEW g \in PoolClos, TakeStep(t, g)
      PROVE  UseCache(v) /\ Exclusive(v) /\ WaysFit(v)'
  <2>1. PICK w : w = thread[t].w
    OBVIOUS
  <2>2. /\ w \in RDTWorkLoad /\ UseCache(w) /\ Type(w) \in {"guarantee", "besteffort"}
        /\ \A s \in Sockets : enforceCache(w)[s] # {}
        /\ g \in Available(pool)
        /\ \A x \in Group \ {0, g} : rdt'.mask[x] = rdt.mask[x]
    BY <1>3, <2>1, TakeEffect
  <2>3. PICK c \in Choices(w, alive', mbaValue') :
           \A s \in Sockets : rdt'.mask[g][s] = enforceCache(w)[c.order[s]]
    BY <1>3, <2>1, TakeEffect
  <2>4. c.order \in Orders
    BY <2>3, ChoicesGood DEF GoodChoice
  <2>5. \A s \in Sockets : c.order[s] = s
    BY <2>4 DEF Orders, OneCache
  <2>6. CASE Like(v, w, g)
    <3>1. v.cos = g /\ alive' \subseteq alive
      BY <1>3, <2>6 DEF Like, TakeStep
    <3>2. LiveSockets(v)' \subseteq LiveSockets(w)
      BY <2>6, <3>1, LikeFits
    <3>3. ASSUME NEW s \in LiveSockets(v)' PROVE Fits(v, rdt'.mask[v.cos][s], s)
      <4>1. s \in Sockets /\ inCacheList(s, getSocketIDs(w))
        BY <2>2, <3>2, <3>3, LiveSocketsListed
      <4>2. Fits(w, enforceCache(w)[s], s)
        BY <2>2, <4>1, CandidateFits
      <4>3. rdt'.mask[g][s] = enforceCache(w)[s]
        BY <2>3, <2>5, <4>1
      <4> QED BY <2>6, <3>1, <4>2, <4>3, LikeFits
    <3>4. WaysFit(v)'
      BY <3>3 DEF WaysFit, Fits, Type, MinWays, MaxWays
    <3> QED BY <2>2, <2>6, <3>4, LikeFits DEF Exclusive
  <2>7. CASE KeptApart(v, w)
    <3>1. PICK u \in Held : Like(v, u, u.cos)
      BY <2>7 DEF KeptApart
    <3>2. u.cos \in Group \ {0, g}
      BY <2>2, <3>1, HeldGood, PoolGroups
    <3> QED BY <1>1, <1>3, <2>2, <3>1, <3>2 DEF TakeStep
  <2> QED BY <1>3, <2>1, <2>6, <2>7 DEF TakeStep
<1>4. ASSUME NEW t \in Handlers, FreeStep(t)
      PROVE  UseCache(v) /\ Exclusive(v) /\ WaysFit(v)'
  <2>1. PICK w : w = thread[t].w
    OBVIOUS
  <2>2. \A x \in Group \ {0, w.cos} : rdt'.mask[x] = rdt.mask[x]
    BY <1>4, <2>1, FreeEffect
  <2>3. KeptApart(v, w) /\ v.cos # w.cos /\ alive' = alive
    BY <1>4, <2>1 DEF FreeStep
  <2>4. PICK u \in Held : Like(v, u, u.cos)
    BY <2>3 DEF KeptApart
  <2>5. u.cos \in Group \ {0, w.cos}
    BY <2>3, <2>4, HeldGood, PoolGroups DEF Like
  <2> QED BY <1>1, <2>2, <2>3, <2>4, <2>5
<1> QED BY <1>2, <1>3, <1>4, HeldSteps

(* At the first start nobody holds a class.                                *)
LEMMA NothingHeld ==
  Init => Held = {}
BY DEF Init, Idle, EmptyDatabase, RowIds, Held, Claims, Carries, Handlers

(* While the process runs from its first start, FitInv holds.              *)
LEMMA FitInvHolds ==
  ASSUME OneCache, NoSharedRequests, OneAtATime, Patches = {}
  PROVE  Spec /\ [](phase = "up") => []FitInv
<1>1. Init => FitInv
  BY NothingHeld DEF FitInv
<1>2. /\ ManagerInv /\ CleanInv /\ ClaimInv /\ ApartInv /\ (phase = "up") /\ (phase = "up")'
      /\ FitInv /\ [Next]_vars
      => FitInv'
  BY ServingKeepsFit
<1>3. Spec => []CleanInv
  BY CleanInvHolds
<1>4. Spec => []ClaimInv
  BY ClaimInvHolds
<1>5. Spec /\ [](phase = "up") => [](ApartInv /\ MemberInv)
  BY MemberInvHolds
<1> QED BY <1>1, <1>2, <1>3, <1>4, <1>5, ManagerInvHolds, PTL DEF Spec

(* What FitInv says of a settled row.                                      *)
LEMMA SettledFits ==
  ASSUME FitInv, ManagerInv, CleanInv, ClaimInv, NEW i \in SettledWithClos,
         NEW s \in LiveSockets(db.rows[i]), NEW w, w = db.rows[i]
  PROVE  /\ w \in RDTWorkLoad /\ w.cos \in PoolClos \cap Visible(pool) /\ s \in Sockets
         /\ UseCache(w) /\ Type(w) \in {"guarantee", "besteffort"}
         /\ Fits(w, rdt.mask[w.cos][s], s) /\ rdt.mask[w.cos][s] # CbmMask
<1>1. w \in Held
  BY SettledHolds
<1>2. w \in RDTWorkLoad /\ w.cos \in PoolClos \cap Visible(pool)
  BY <1>1, HeldGood, PoolGroups DEF Visible
<1>3. UseCache(w) /\ Type(w) \in {"guarantee", "besteffort"} /\ Fits(w, rdt.mask[w.cos][s], s)
  BY <1>1 DEF FitInv, WaysFit, Exclusive
<1>4. s \in Sockets
  BY <1>2, LiveSocketsListed
<1>5. Type(w) \in PoolName
  BY <1>3 DEF PoolName
<1>6. rdt.mask[w.cos][s] # CbmMask
  <2>1. GetCachePoolLayout(Type(w), s) # CbmMask
    BY <1>4, <1>5, LayoutProper
  <2>2. GetCachePoolLayout(Type(w), s) \subseteq CbmMask
    BY <1>4, <1>5, LayoutShape DEF CbmMask
  <2> QED BY <1>3, <2>1, <2>2 DEF Fits
<1> QED BY <1>2, <1>3, <1>4, <1>6

(* A best-effort workload has, on the cache on which it runs, a run of     *)
(* ways of the best-effort pool that is no shorter than its minimum and no *)
(* longer than its maximum, whether or not the pool may shrink, and keeps  *)
(* it whatever is allocated and released later.                            *)
THEOREM BesteffortHonouredHolds ==
  ASSUME OneCache, NoSharedRequests, OneAtATime, Patches = {}
  PROVE  Spec /\ [](phase = "up") => []BesteffortHonoured
<1>1. ManagerInv /\ CleanInv /\ ClaimInv /\ FitInv => BesteffortHonoured
  <2> SUFFICES ASSUME ManagerInv, CleanInv, ClaimInv, FitInv, NEW i \in SettledWithClos,
                      Type(db.rows[i]) = "besteffort", NEW s \in LiveSockets(db.rows[i])
               PROVE  Fits(db.rows[i], rdt.mask[db.rows[i].cos][s], s)
    BY DEF BesteffortHonoured, Fits
  <2> QED BY SettledFits
<1>2. Spec /\ [](phase = "up") => []FitInv
  BY FitInvHolds
<1>3. Spec => []CleanInv
  BY CleanInvHolds
<1>4. Spec => []ClaimInv
  BY ClaimInvHolds
<1> QED BY <1>1, <1>2, <1>3, <1>4, ManagerInvHolds, PTL

(* Between a number and itself there is nothing else.                      *)
LEMMA OneValue ==
  ASSUME NEW n \in Nat, NEW k \in n .. n
  PROVE  k = n
OBVIOUS

(* A guaranteed workload has, on the cache on which it runs, one run of    *)
(* exactly the ways it asked for, in the guarantee pool, and neither the   *)
(* OS group nor another stored workload that runs there has any of them.   *)
THEOREM GuaranteeHonouredHolds ==
  ASSUME OneCache, OSSockets = Sockets, ~Shrink, NoSharedRequests, OneAtATime, Patches = {}
  PROVE  Spec /\ [](phase = "up") => []GuaranteeHonoured
<1>1. /\ ManagerInv /\ CleanInv /\ ClaimInv /\ FitInv /\ WaysExclusive /\ OSDisjoint
      => GuaranteeHonoured
  <2> SUFFICES ASSUME ManagerInv, CleanInv, ClaimInv, FitInv, WaysExclusive, OSDisjoint,
                      NEW i \in SettledWithClos, Type(db.rows[i]) = "guarantee",
                      NEW s \in LiveSockets(db.rows[i]), NEW w, w = db.rows[i],
                      NEW mine, mine = rdt.mask[w.cos][s]
               PROVE  /\ Cardinality(mine) = MaxWays(w) /\ Contiguous(mine)
                      /\ mine \subseteq GetCachePoolLayout("guarantee", s)
                      /\ mine \cap rdt.mask[0][s] = {}
                      /\ \A j \in SettledWithClos \ {i} :
                            s \in LiveSockets(db.rows[j]) =>
                               mine \cap rdt.mask[db.rows[j].cos][s] = {}
    BY DEF GuaranteeHonoured
  <2>1. /\ w \in RDTWorkLoad /\ w.cos \in PoolClos \cap Visible(pool) /\ s \in Sockets
        /\ UseCache(w) /\ Fits(w, mine, s) /\ mine # CbmMask
    BY SettledFits
  <2>2. MinWays(w) = MaxWays(w) /\ MaxWays(w) \in Nat
    BY <2>1, ExclusiveWays
  <2>3. Cardinality(mine) = MaxWays(w) /\ Contiguous(mine)
        /\ mine \subseteq GetCachePoolLayout("guarantee", s)
    <3>1. /\ Contiguous(mine) /\ mine \subseteq GetCachePoolLayout(Type(w), s)
          /\ Cardinality(mine) \in MinWays(w) .. MaxWays(w)
      BY Zenon, <2>1 DEF Fits
    <3>2. Cardinality(mine) = MaxWays(w)
      BY Zenon, <2>2, <3>1, OneValue
    <3> QED BY <3>1, <3>2
  <2>4. ASSUME NEW j \in SettledWithClos \ {i}, s \in LiveSockets(db.rows[j])
        PROVE  mine \cap rdt.mask[db.rows[j].cos][s] = {}
    <3>1. PICK v : v = db.rows[j]
      OBVIOUS
    <3>2. v.cos \in PoolClos \cap Visible(pool) /\ rdt.mask[v.cos][s] # CbmMask
      BY <2>4, <3>1, SettledFits
    <3>3. v.cos # w.cos
      BY <2>4, <3>1, SettledHolds DEF ClaimInv, Claimed, RowsApart
    <3>4. phase = "up"
      BY DEF SettledWithClos, Settled
    <3>5. \/ mine \cup rdt.mask[v.cos][s] \subseteq GetCachePoolLayout("shared", s)
          \/ mine \cap rdt.mask[v.cos][s] = {}
      BY <2>1, <3>2, <3>3, <3>4, PoolGroups DEF WaysExclusive
    <3>6. GetCachePoolLayout("guarantee", s) \cap GetCachePoolLayout("shared", s) = {}
      BY <2>1, LayoutsDisjoint DEF PoolName
    <3> QED BY Zenon, <2>3, <3>1, <3>5, <3>6
  <2>5. mine \cap rdt.mask[0][s] = {}
    <3>1. phase = "up"
      BY DEF SettledWithClos, Settled
    <3>2. w.cos \in Visible(pool) \ {0, 1}
      BY <2>1, PoolGroups
    <3> QED BY <2>1, <3>1, <3>2 DEF OSDisjoint
  <2> QED BY Zenon, <2>3, <2>4, <2>5
<1>2. AskInv /\ ManagerInv => NoSharedBandwidth
  <2> SUFFICES ASSUME AskInv, ManagerInv, NEW t \in Threads, thread[t].pc \in {"enforce", "reenforce"}
               PROVE  CacheOf(thread[t].w).max # 0
    BY DEF NoSharedBandwidth
  <2>1. t \in Handlers /\ thread[t].w \in RDTWorkLoad
    BY DEF Handlers, ManagerInv, ThreadsGood, GoodLocal
  <2>2. PoliciesAsk /\ thread[t].w.max # 0
    BY <2>1 DEF AskInv, Asks
  <2> QED BY <2>1, <2>2, NotForShared
<1>3. Spec /\ [](phase = "up" /\ NoSharedBandwidth) => []WaysExclusive
  BY WaysExclusiveHolds DEF OneCache
<1>4. Spec => []AskInv
  BY AskInvHolds
<1>5. Spec /\ [](phase = "up") => []FitInv
  BY FitInvHolds
<1>6. Spec => []CleanInv
  BY CleanInvHolds
<1>7. Spec => []ClaimInv
  BY ClaimInvHolds
<1>8. Spec /\ []NoSharedBandwidth => []OSDisjoint
  BY OSDisjointHolds
<1> QED BY <1>1, <1>2, <1>3, <1>4, <1>5, <1>6, <1>7, <1>8, ManagerInvHolds, PTL

-----------------------------------------------------------------------------
(* The hospitality score.                                                  *)

(* The ways in which a daemon that serves requests changes masks.          *)
LEMMA MaskSteps ==
  ASSUME ManagerInv, CleanInv, phase = "up", phase' = "up", [Next]_vars
  PROVE  \/ pool' = pool /\ rdt'.mask = rdt.mask
         \/ \E t \in Threads, next \in {"create", "store"}, g \in PoolClos : Taking(t, next, g)
         \/ \E t \in Threads : thread[t].w.cos \in PoolClos /\ Freeing(t)
<1>1. CASE UNCHANGED vars
  BY <1>1 DEF vars
<1>2. ASSUME NEW t \in Clients, NewWorkload(t) \/ RefuseNew(t) \/ DeleteByID(t) \/ Patch(t)
      PROVE  pool' = pool /\ rdt'.mask = rdt.mask
  BY <1>2 DEF NewWorkload, BeginCreate, RefuseNew, DeleteByID, BeginDelete, Patch
<1>3. CASE processCreateNotification \/ processDeleteNotification \/ BeginScan(Validator)
  BY <1>3 DEF processCreateNotification, BeginCreate, processDeleteNotification, BeginDelete,
              BeginScan
<1>4. ASSUME NEW t \in Threads, Continue(t)
      PROVE  \/ pool' = pool /\ rdt'.mask = rdt.mask
             \/ \E next \in {"create", "store"}, g \in PoolClos : Taking(t, next, g)
             \/ thread[t].w.cos \in PoolClos /\ Freeing(t)
  <2>1. CASE EnforceNew(t) \/ EnforcePatched(t)
    <3>1. PICK pc \in {"enforce", "reenforce"}, next \in {"create", "store"} :
            EnforceStep(t, pc, next)
      BY <2>1 DEF EnforceNew, EnforcePatched
    <3>2. CacheOf(thread[t].w).max # 0
      BY <3>1, HandlerAsks DEF CleanInv, EnforceStep, PCs
    <3>3. \/ pool' = pool /\ rdt' = WithoutTasks(rdt, alive \ alive')
          \/ \E g \in PoolClos : Taking(t, next, g)
      BY <3>1, <3>2, EnforceStepTakes
    <3>4. CASE pool' = pool /\ rdt' = WithoutTasks(rdt, alive \ alive')
      <4>1. PICK gone : gone = alive \ alive'
        OBVIOUS
      <4>2. rdt' = WithoutTasks(rdt, gone) /\ rdt \in Platform
        BY <3>4, <4>1 DEF ManagerInv, TypeOK
      <4> QED BY <3>4, <4>2, DeallocateEffect
    <3> QED BY <3>1, <3>3, <3>4
  <2>2. CASE EnforceEnds(t)
    BY <2>2 DEF EnforceEnds, Down
  <2>3. CASE ReleaseOld(t) \/ ReleaseForPatch(t)
    <3>1. PICK pc, done : pc \in {"release", "update"} /\ ReleaseStep(t, pc, done)
      BY <2>3 DEF ReleaseOld, ReleaseForPatch
    <3> QED BY <3>1, ReleaseStepFrees DEF CleanInv, Clean
  <2>4. CASE UpdateMembers(t)
    BY <2>4, UpdateMembersEffect DEF UpdateMembers
  <2>5. CASE Create(t) \/ UndoNew(t) \/ DeleteOld(t) \/ updateInDB(t)
    BY <2>5 DEF Create, UndoNew, DeleteOld, DeleteStep, updateInDB
  <2>6. CASE BeginScan(t) \/ ScanRow(t) \/ EndScan(t) \/ RefusePatch(t)
    BY <2>6 DEF BeginScan, ScanRow, EndScan, RefusePatch
  <2> QED BY <1>4, <2>1, <2>2, <2>3, <2>4, <2>5, <2>6 DEF Continue
<1>5. CASE Exit
  BY <1>5, DeallocateEffect DEF Exit, TaskExit, ManagerInv, TypeOK
<1>6. ~Crash /\ ~ResetAPI /\ ~Start
  BY DEF Crash, Down, Start, ResetAPI, SanityCheck, LoadWorkloads, MarkRow, StartServing
<1> QED BY <1>1, <1>2, <1>3, <1>4, <1>5, <1>6 DEF Next

(* A class that nobody has may use the whole cache.                        *)
FreeIsDefault == \A g \in Available(pool), s \in Sockets : rdt.mask[g][s] = CbmMask

(* Every step of a daemon that serves requests keeps FreeIsDefault.        *)
LEMMA ServingKeepsDefault ==
  ASSUME ManagerInv, CleanInv, FreeIsDefault, phase = "up", phase' = "up", [Next]_vars
  PROVE  FreeIsDefault'
<1>1. CASE pool' = pool /\ rdt'.mask = rdt.mask
  BY <1>1 DEF FreeIsDefault
<1>2. Sound(pool) /\ Clean(pool)
  BY DEF ManagerInv, CleanInv
<1>3. ASSUME NEW t \in Threads, NEW next, NEW g \in PoolClos, Taking(t, next, g)
      PROVE  FreeIsDefault'
  <2>1. PICK w, c, r : w = thread[t].w /\ Takes(w, c, r, g) /\ pool' = r.pool
                       /\ rdt' = WithoutTasks(r.rdt, alive \ alive')
    BY <1>3 DEF Taking
  <2>2. PICK e, gone : e = r.rdt /\ gone = alive \ alive'
    OBVIOUS
  <2>3. /\ e \in Platform /\ UseAvailableCLOS(pool).ok
        /\ g = UseAvailableCLOS(pool).clos /\ pool' = UseAvailableCLOS(pool).pool
        /\ \A x \in Group \ {0, g} : e.mask[x] = rdt.mask[x]
    BY <2>1, <2>2 DEF Takes, TakesAs
  <2>4. Available(pool') = Available(pool) \ {g}
    BY <1>2, <2>3, UseClean
  <2>5. rdt' = WithoutTasks(e, gone)
    BY <2>1, <2>2
  <2>6. rdt'.mask = e.mask
    BY <2>3, <2>5, DeallocateEffect
  <2>7. Available(pool) \subseteq PoolClos
    BY <1>2 DEF Sound, NoneLost
  <2> SUFFICES ASSUME NEW x \in Available(pool'), NEW s \in Sockets
               PROVE  rdt'.mask[x][s] = CbmMask
    BY DEF FreeIsDefault
  <2>8. x \in Group \ {0, g} /\ x \in Available(pool)
    BY <2>4, <2>7, PoolGroups
  <2> QED BY <2>3, <2>6, <2>8 DEF FreeIsDefault
<1>4. ASSUME NEW t \in Threads, thread[t].w.cos \in PoolClos, Freeing(t)
      PROVE  FreeIsDefault'
  <2>1. PICK w, r : /\ w = thread[t].w /\ w.cos \in PoolClos /\ Frees(w, r)
                    /\ pool' = r.pool /\ rdt' = r.rdt
    BY <1>4 DEF Freeing
  <2>2. /\ pool' = ReturnClos(pool, w.cos) /\ rdt'.mask[w.cos] = DefaultMask
        /\ \A x \in Group \ {0, w.cos} : rdt'.mask[x] = rdt.mask[x]
    BY <2>1 DEF Frees
  <2>3. Available(pool') \subseteq Available(pool) \cup {w.cos}
    BY <1>2, <2>1, <2>2, ReturnClean
  <2>4. Available(pool) \subseteq PoolClos
    BY <1>2 DEF Sound, NoneLost
  <2> SUFFICES ASSUME NEW x \in Available(pool'), NEW s \in Sockets
               PROVE  rdt'.mask[x][s] = CbmMask
    BY DEF FreeIsDefault
  <2>5. CASE x = w.cos
    BY <2>2, <2>5 DEF DefaultMask
  <2>6. CASE x # w.cos
    <3>1. x \in Group \ {0, w.cos} /\ x \in Available(pool)
      BY <2>1, <2>3, <2>4, <2>6, PoolGroups
    <3> QED BY <2>2, <3>1 DEF FreeIsDefault
  <2> QED BY <2>5, <2>6
<1> QED BY <1>1, <1>3, <1>4, MaskSteps

(* The free ways that the score counts are among those that Enforce looks  *)
(* at: all of them, but for those that the infra group has.                *)
LEMMA ScoredFreeWays ==
  ASSUME ManagerInv, FreeIsDefault, NEW name, NEW s \in Sockets, NEW free,
         free = GetAvailableCacheSchemata(rdt, pool, GetCachePoolLayout(name, s), s)
  PROVE  /\ FreeInPool(name, s) \subseteq free
         /\ InfraApart(name, s) => FreeInPool(name, s) = free
<1>1. Available(pool) \subseteq PoolClos
  BY DEF ManagerInv, Sound, NoneLost
<1>2. \A g \in Group \ {0} : g \in (Visible(pool) \ {0, 1}) \cup {1} \cup Available(pool)
  BY DEF Visible
<1>3. Visible(pool) \ {0, 1} \subseteq Group \ {0}
  BY DEF Visible
<1>4. FreeInPool(name, s) \subseteq free
  BY <1>3 DEF FreeInPool, FreeOf, GetAvailableCacheSchemata
<1>5. ASSUME InfraApart(name, s), NEW x \in free, NEW g \in Group \ {0}
      PROVE  rdt.mask[g][s] = CbmMask \/ x \notin rdt.mask[g][s]
  BY <1>2, <1>5 DEF InfraApart, FreeIsDefault, GetAvailableCacheSchemata
<1>6. InfraApart(name, s) => free \subseteq FreeInPool(name, s)
  BY <1>5 DEF FreeInPool, FreeOf, GetAvailableCacheSchemata
<1> QED BY <1>4, <1>6

(* Fewer ways have no longer run.                                          *)
LEMMA LongestRunMonotonic ==
  ASSUME NEW more \in SUBSET Ways, NEW bits \in SUBSET more
  PROVE  LongestRun(bits) <= LongestRun(more)
<1> DEFINE a == LongestRun(bits)
           b == LongestRun(more)
<1>1. /\ a \in Nat /\ b \in Nat
      /\ a = 0 \/ RunStarts(bits, a) # {}
      /\ RunStarts(more, b + 1) = {}
  BY LongestRunExists, NWaysAssumption
<1> HIDE DEF a, b
<1> SUFFICES ASSUME a > b PROVE FALSE
  BY <1>1 DEF a, b
<1>2. PICK i \in Ways : i .. (i + a - 1) \subseteq bits
  BY <1>1 DEF RunStarts
<1>3. i .. (i + (b + 1) - 1) \subseteq i .. (i + a - 1)
  BY <1>1 DEF Ways
<1>4. i \in RunStarts(more, b + 1)
  BY <1>2, <1>3 DEF RunStarts
<1> QED BY <1>1, <1>4

(* What of a run of m ways a request for min to max ways is given.         *)
ShareOf(m, max, min) == IF m < min THEN 0 ELSE IF m > max THEN max ELSE m

(* A longer run gives no less; and the score is computed like that.        *)
LEMMA Shares ==
  ASSUME NEW max \in Nat \ {0}, NEW min \in Nat \ {0}, min <= max, NEW m \in Nat
  PROVE  /\ ShareOf(m, max, min) \in Nat
         /\ \A k \in Nat : k <= m => ShareOf(k, max, min) <= ShareOf(m, max, min)
         /\ (ShareOf(m, max, min) * 100) \div max
              = IF m < min THEN 0
                ELSE IF (m * 100) \div max > 100 THEN 100 ELSE (m * 100) \div max
<1>1. ShareOf(m, max, min) \in Nat
  BY DEF ShareOf
<1>2. \A k \in Nat : k <= m => ShareOf(k, max, min) <= ShareOf(m, max, min)
  BY DEF ShareOf
<1> DEFINE percent == (m * 100) \div max
           share   == (ShareOf(m, max, min) * 100) \div max
<1>3. CASE m < min
  <2>1. ShareOf(m, max, min) = 0 /\ (0 * 100) \div max = 0
    BY <1>3 DEF ShareOf
  <2> QED BY <1>1, <1>2, <1>3, <2>1
<1>4. CASE m >= min /\ m <= max
  <2>1. percent <= 100 /\ percent \in Nat
    BY <1>4, Percentages
  <2>2. share = percent
    BY <1>4 DEF ShareOf
  <2> HIDE DEF percent, share
  <2>3. share = IF m < min THEN 0 ELSE IF percent > 100 THEN 100 ELSE percent
    BY <1>4, <2>1, <2>2
  <2> QED BY <1>1, <1>2, <2>3 DEF percent, share
<1>5. CASE m >= min /\ m > max
  <2>1. percent >= 100 /\ percent \in Nat
    BY <1>5, Percentages
  <2>2. (max * 100) \div max = 100
    <3>1. /\ (max * 100) \div max \in Nat
          /\ (max * 100) \div max <= 100 /\ (max * 100) \div max >= 100
      BY Percentages
    <3> QED BY <3>1
  <2>3. share = 100
    BY <1>5, <2>2 DEF ShareOf
  <2> HIDE DEF percent, share
  <2>4. share = IF m < min THEN 0 ELSE IF percent > 100 THEN 100 ELSE percent
    BY <1>5, <2>1, <2>3
  <2> QED BY <1>1, <1>2, <2>4 DEF percent, share
<1> QED BY <1>3, <1>4, <1>5

(* More ways are no smaller a share.                                       *)
LEMMA MoreIsMore ==
  ASSUME NEW n \in Nat \ {0}, NEW a \in Nat, NEW b \in Nat, a <= b
  PROVE  (a * 100) \div n <= (b * 100) \div n
OBVIOUS

(* Then the score is no more than the share of its maximum that a request  *)
(* would get.                                                              *)
LEMMA ScoreIsShare ==
  ASSUME ~Shrink, ManagerInv, FreeIsDefault, NEW r \in ExclusiveRequests,
         NEW s \in getSocketIDs(r), NEW score, score = Score(MaxWays(r), MinWays(r), s),
         NEW given, given = (Cardinality(enforceCache(r)[s]) * 100) \div MaxWays(r)
  PROVE  /\ score <= given
         /\ InfraApart(Type(r), s) => score = given
<1>1. /\ r \in Request /\ UseCache(r) /\ Type(r) \in {"guarantee", "besteffort"}
  BY RequestsAssumption DEF ExclusiveRequests, Exclusive
<1>2. PICK max, min : max = MaxWays(r) /\ min = MinWays(r)
  OBVIOUS
<1>3. /\ min \in Nat \ {0} /\ max \in Nat \ {0} /\ min <= max
      /\ Type(r) = "guarantee" <=> min = max
  <2>1. PICK w : w = NewRDTWorkLoad(r, NoId, NoUUID, "REST")
    OBVIOUS
  <2>2. w \in RDTWorkLoad /\ w.max = r.max /\ w.min = r.min /\ w.policy = r.policy
    BY <1>1, <2>1, NewWorkloadType
  <2>3. CacheOf(w) = CacheOf(r)
    BY <2>2 DEF CacheOf
  <2>4. MaxWays(w) = max /\ MinWays(w) = min
    BY <1>2, <2>3 DEF MaxWays, MinWays
  <2>5. Type(w) = Type(r)
    BY <1>2, <2>4 DEF Type
  <2> QED BY <1>1, <2>2, <2>4, <2>5, ExclusiveWays
<1>4. s \in Sockets /\ inCacheList(s, getSocketIDs(r))
  <2>1. r.tasks \subseteq Tasks /\ r.cores \subseteq Cores
    BY <1>1 DEF Request
  <2> QED BY <2>1, AffinityAssumption DEF getSocketIDs, inCacheList, Members
<1>5. RequestType(max, min) = Type(r)
  BY <1>1, <1>2, <1>3 DEF RequestType, Type, GetCachePoolName
<1> DEFINE l    == GetCachePoolLayout(Type(r), s)
           free == GetAvailableCacheSchemata(rdt, pool, l, s)
           seen == FreeInPool(Type(r), s)
           m    == LongestRun(free)
           k    == LongestRun(seen)
           mine == enforceCache(r)[s]
<1>6. seen \subseteq free /\ (InfraApart(Type(r), s) => seen = free)
  BY <1>4, ScoredFreeWays
<1>7. score = IF k < min THEN 0
              ELSE IF (k * 100) \div max > 100 THEN 100 ELSE (k * 100) \div max
  BY <1>2, <1>5 DEF Score
<1>8. mine = IF Type(r) = "guarantee" THEN GetConnectiveBits(free, max)
             ELSE IF m >= min THEN GetConnectiveBits(free, IF m > max THEN max ELSE m)
             ELSE {}
  BY <1>1, <1>2, <1>4 DEF enforceCache, BesteffortCandidate
<1>9. free \in SUBSET Ways
  <2>1. l \subseteq Ways
    BY <1>1, <1>4, LayoutShape DEF PoolName
  <2> QED BY <2>1 DEF GetAvailableCacheSchemata
<1>10. given = (Cardinality(mine) * 100) \div max
  BY <1>2
<1> HIDE DEF free, seen, mine
<1>11. m \in Nat /\ k \in Nat /\ k <= m
  <2>1. seen \in SUBSET free /\ seen \in SUBSET Ways
    BY <1>6, <1>9
  <2> QED BY <1>9, <2>1, LongestRunExists, LongestRunMonotonic, NWaysAssumption
<1>12. \A n \in Nat \ {0} :
          Cardinality(GetConnectiveBits(free, n)) = IF n <= m THEN n ELSE 0
  BY <1>9, <1>11, RunFound
<1>13. seen = free => k = m
  OBVIOUS
<1> HIDE DEF m, k
<1>14. Cardinality(mine) = ShareOf(m, max, min)
  <2>1. CASE Type(r) = "guarantee"
    BY <1>3, <1>8, <1>11, <1>12, <2>1 DEF ShareOf
  <2>2. CASE Type(r) # "guarantee" /\ m >= min
    <3>1. PICK n \in Nat \ {0} : n = IF m > max THEN max ELSE m
      BY <1>3, <1>11, <2>2
    <3> QED BY <1>3, <1>8, <1>11, <1>12, <2>2, <3>1 DEF ShareOf
  <2>3. CASE Type(r) # "guarantee" /\ ~(m >= min)
    BY <1>3, <1>8, <1>11, <2>3, FS_EmptySet DEF ShareOf
  <2> QED BY <2>1, <2>2, <2>3
<1>15. /\ ShareOf(k, max, min) \in Nat /\ ShareOf(m, max, min) \in Nat
       /\ ShareOf(k, max, min) <= ShareOf(m, max, min)
       /\ score = (ShareOf(k, max, min) * 100) \div max
       /\ given = (ShareOf(m, max, min) * 100) \div max
  <2>1. ShareOf(k, max, min) \in Nat /\ ShareOf(m, max, min) \in Nat
    BY <1>3, <1>11, Shares
  <2>2. ShareOf(k, max, min) <= ShareOf(m, max, min)
    BY <1>3, <1>11, Shares
  <2>3. score = (ShareOf(k, max, min) * 100) \div max
    <3>1. (ShareOf(k, max, min) * 100) \div max
            = IF k < min THEN 0
              ELSE IF (k * 100) \div max > 100 THEN 100 ELSE (k * 100) \div max
      BY <1>3, <1>11, Shares
    <3> QED BY <1>7, <3>1
  <2>4. given = (ShareOf(m, max, min) * 100) \div max
    BY <1>10, <1>14
  <2> QED BY <2>1, <2>2, <2>3, <2>4
<1>16. score <= given
  BY <1>3, <1>15, MoreIsMore
<1>17. InfraApart(Type(r), s) => score = given
  BY <1>6, <1>13, <1>15
<1> QED BY <1>16, <1>17

(* The hospitality score of a request is never more than the share of its  *)
(* maximum that Enforce would give it now, on every cache on which it      *)
(* would run and in every state between the steps of concurrent requests   *)
(* and PATCHes, and exactly that share where the infra group has none of   *)
(* the ways of the pool: the other groups that Enforce leaves out and the  *)
(* score does not are all without a mask of their own.                     *)
THEOREM ScoreTruthfulHolds ==
  ASSUME NoSharedRequests, ~Shrink
  PROVE  Spec /\ [](phase = "up") => []ScoreTruthful
<1>1. Init => FreeIsDefault
  <2> SUFFICES ASSUME Init PROVE FreeIsDefault
    OBVIOUS
  <2>1. Available(pool) \subseteq PoolClos
    BY InitSound DEF Init, Sound, NoneLost
  <2> QED BY <2>1, InitPlatform DEF FreeIsDefault
<1>2. /\ ManagerInv /\ CleanInv /\ (phase = "up") /\ (phase = "up")'
      /\ FreeIsDefault /\ [Next]_vars
      => FreeIsDefault'
  BY ServingKeepsDefault
<1>3. ManagerInv /\ FreeIsDefault => ScoreTruthful
  BY ScoreIsShare DEF ScoreTruthful
<1>4. Spec => []CleanInv
  BY CleanInvHolds
<1> QED BY <1>1, <1>2, <1>3, <1>4, ManagerInvHolds, PTL DEF Spec

-----------------------------------------------------------------------------
(* Bandwidth limits.                                                       *)

(* A request that has passed validation has members.                       *)
ReadyInv == \A t \in Handlers : thread[t].pc = "enforce" => MembersNamed(thread[t].w) # {}

(* Every step of a daemon that serves requests keeps ReadyInv.             *)
LEMMA ServingKeepsReady ==
  ASSUME Patches = {}, ManagerInv, ClaimInv, ReadyInv,
         phase = "up", phase' = "up", [Next]_vars
  PROVE  ReadyInv'
<1>1. CASE Background
  BY <1>1 DEF Background, ReadyInv, MembersNamed
<1>2. ASSUME NEW t \in Handlers, NEW x, Goto(t, x),
             x.pc = "enforce" => MembersNamed(x.w) # {}
      PROVE  ReadyInv'
  <2>1. \A u \in Handlers : thread'[u] = IF u = t THEN x ELSE thread[u]
    BY <1>2, HandlerGoes
  <2> QED BY <1>2, <2>1 DEF ReadyInv, MembersNamed
<1>3. ASSUME NEW t \in Handlers, HandlerStep(t)
      PROVE  ReadyInv'
  <2>1. ASSUME NEW w \in RDTWorkLoad, BeginCreate(t, w)
        PROVE  ReadyInv'
    <3>1. MembersNamed(w) # {}
      BY <2>1 DEF BeginCreate, Validate, validate, ReachesMba, HasMembers, MembersNamed
    <3>2. PICK v : MembersNamed(v) = MembersNamed(w) /\ Goto(t, At("enforce", v))
      BY <2>1, BeginFills
    <3> QED BY <1>2, <3>1, <3>2, LocalFields
  <2> QED BY <1>2, <1>3, <2>1, OnlyBeginEnforces
<1> QED BY <1>1, <1>3, UpSteps

(* The end of a task makes RMD think that its workload runs anywhere.      *)
LEMMA SocketsGrow ==
  ASSUME NEW u \in RDTWorkLoad, NEW v, NEW c, Like(v, u, c), alive' \subseteq alive
  PROVE  getSocketIDs(u) \subseteq getSocketIDs(v)'
<1>1. u.tasks \subseteq Tasks /\ u.cores \subseteq Cores /\ v.tasks = u.tasks /\ v.cores = u.cores
  BY DEF RDTWorkLoad, Like
<1> SUFFICES ASSUME NEW m \in u.tasks \cup u.cores,
                    NEW s \in IF m \in Tasks \ alive THEN Sockets ELSE Affinity[m]
             PROVE  s \in IF m \in Tasks \ alive' THEN Sockets ELSE Affinity[m]
  BY <1>1 DEF getSocketIDs
<1>2. m \in Members
  BY <1>1 DEF Members
<1> QED BY <1>2, AffinityAssumption

(* Every task may run somewhere and every core belongs to a cache.         *)
Located == \A m \in Members : Affinity[m] # {}

(* Then a workload with members runs somewhere.                            *)
LEMMA RunsSomewhere ==
  ASSUME Located, NEW w \in RDTWorkLoad, MembersNamed(w) # {}
  PROVE  getSocketIDs(w) # {}
<1>1. w.tasks \subseteq Tasks /\ w.cores \subseteq Cores
  BY DEF RDTWorkLoad
<1>2. PICK m : m \in w.tasks \cup w.cores
  BY DEF MembersNamed
<1>3. m \in Members
  BY <1>1, <1>2 DEF Members
<1>4. Affinity[m] # {} /\ Affinity[m] \subseteq Sockets
  BY <1>3, AffinityAssumption DEF Located
<1>5. PICK s : s \in Affinity[m] /\ s \in Sockets
  BY <1>4
<1>6. s \in IF m \in Tasks \ alive THEN Sockets ELSE Affinity[m]
  BY <1>5
<1> QED BY <1>2, <1>6 DEF getSocketIDs

(* The classes that nobody has, COS0 and COS1 limit no bandwidth, and one  *)
(* that is held does so only where its workload asks for it.               *)
FreeUnlimited == \A g \in (Available(pool) \cup {0, 1}) \cap Group, s \in Sockets :
                    rdt.mb[g][s] = MbaMax

LimitsAsked == \A w \in Held, s \in Sockets :
                  rdt.mb[w.cos][s] # MbaMax => UsesMba(w) /\ s \in getSocketIDs(w)

ThrottleInv == FreeUnlimited /\ LimitsAsked

(* Every step of a daemon that serves requests keeps ThrottleInv.          *)
LEMMA ServingKeepsThrottle ==
  ASSUME Located, OneAtATime, Patches = {}, ManagerInv, CleanInv, ClaimInv, ApartInv, ReadyInv,
         ThrottleInv, phase = "up", phase' = "up", [Next]_vars
  PROVE  ThrottleInv'
<1>1. Available(pool) \subseteq PoolClos
  BY DEF ManagerInv, Sound, NoneLost
<1>2. ASSUME NEW v \in Held', NEW u \in Held, Like(v, u, u.cos), alive' \subseteq alive,
             rdt'.mb[u.cos] = rdt.mb[u.cos], NEW s \in Sockets, rdt'.mb[v.cos][s] # MbaMax
      PROVE  UsesMba(v) /\ s \in getSocketIDs(v)'
  <2>1. u \in RDTWorkLoad /\ v.cos = u.cos /\ (UsesMba(v) <=> UsesMba(u))
    BY <1>2, HeldGood DEF Like, UsesMba
  <2>2. UsesMba(u) /\ s \in getSocketIDs(u)
    BY <1>2, <2>1 DEF ThrottleInv, LimitsAsked
  <2> QED BY <1>2, <2>1, <2>2, SocketsGrow
<1>3. CASE CalmStep
  <2>1. pool' = pool /\ alive' \subseteq alive /\ rdt'.mb = rdt.mb
    BY <1>3 DEF CalmStep
  <2>2. FreeUnlimited'
    BY <2>1 DEF ThrottleInv, FreeUnlimited
  <2>3. ASSUME NEW v \in Held', NEW s \in Sockets, rdt'.mb[v.cos][s] # MbaMax
        PROVE  UsesMba(v) /\ s \in getSocketIDs(v)'
    BY <1>2, <1>3, <2>1, <2>3 DEF CalmStep, Kept
  <2>4. LimitsAsked'
    BY <2>3 DEF LimitsAsked, getSocketIDs
  <2> QED BY <2>2, <2>4 DEF ThrottleInv
<1>4. ASSUME NEW t \in Handlers, NEW g \in PoolClos, TakeStep(t, g)
      PROVE  ThrottleInv'
  <2>1. PICK w : w = thread[t].w
    OBVIOUS
  <2>2. /\ w \in RDTWorkLoad /\ g \in Available(pool) /\ Available(pool') = Available(pool) \ {g}
        /\ \A x \in Group \ {g} : rdt'.mb[x] = rdt.mb[x]
    BY <1>4, <2>1, TakeEffect
  <2>3. PICK c : \A s \in Sockets :
                    \/ rdt'.mb[g][s] \in {rdt.mb[g][s], MbaMax}
                    \/ UsesMba(w) /\ rdt'.mb[g][s] = enforceMba(w, c.seen)[s]
    BY <1>4, <2>1, TakeEffect
  <2>4. alive' \subseteq alive /\ thread[t].pc = "enforce"
    BY <1>4 DEF TakeStep
  <2>5. FreeUnlimited'
    BY <1>1, <2>2, PoolGroups DEF ThrottleInv, FreeUnlimited
  <2>6. getSocketIDs(w) # {}
    BY <2>1, <2>2, <2>4, RunsSomewhere DEF ReadyInv
  <2>7. ASSUME NEW v \in Held', NEW s \in Sockets, rdt'.mb[v.cos][s] # MbaMax
        PROVE  UsesMba(v) /\ s \in getSocketIDs(v)'
    <3>1. CASE Like(v, w, g)
      <4>1. v.cos = g /\ (UsesMba(v) <=> UsesMba(w))
        BY <3>1 DEF Like, UsesMba
      <4>2. rdt.mb[g][s] = MbaMax
        BY <1>1, <2>2, PoolGroups DEF ThrottleInv, FreeUnlimited
      <4>3. UsesMba(w) /\ enforceMba(w, c.seen)[s] # MbaMax
        BY <2>3, <2>7, <4>1, <4>2
      <4>4. s \in getSocketIDs(w)
        BY <2>6, <4>3 DEF enforceMba, inCacheList
      <4> QED BY <2>2, <2>4, <3>1, <4>1, <4>3, <4>4, SocketsGrow
    <3>2. CASE KeptApart(v, w)
      <4>1. PICK u \in Held : Like(v, u, u.cos)
        BY <3>2 DEF KeptApart
      <4>2. u.cos \in Group \ {g}
        BY <2>2, <4>1, HeldGood, PoolGroups
      <4> QED BY <1>2, <2>2, <2>4, <2>7, <4>1, <4>2
    <3> QED BY <1>4, <2>1, <2>7, <3>1, <3>2 DEF TakeStep
  <2>8. LimitsAsked'
    BY <2>7 DEF LimitsAsked, getSocketIDs
  <2> QED BY <2>5, <2>8 DEF ThrottleInv
<1>5. ASSUME NEW t \in Handlers, FreeStep(t)
      PROVE  ThrottleInv'
  <2>1. PICK w : w = thread[t].w
    OBVIOUS
  <2>2. /\ w.cos \in PoolClos /\ Available(pool') = Available(pool) \cup {w.cos}
        /\ rdt'.mb[w.cos] = DefaultBandwidth
        /\ \A x \in Group \ {w.cos} : rdt'.mb[x] = rdt.mb[x]
    BY <1>5, <2>1, FreeEffect
  <2>3. \A s \in Sockets : rdt'.mb[w.cos][s] = MbaMax
    BY <2>2 DEF DefaultBandwidth
  <2>4. FreeUnlimited'
    BY <2>2, <2>3 DEF ThrottleInv, FreeUnlimited
  <2>5. ASSUME NEW v \in Held', NEW s \in Sockets, rdt'.mb[v.cos][s] # MbaMax
        PROVE  UsesMba(v) /\ s \in getSocketIDs(v)'
    <3>1. PICK u \in Held : Like(v, u, u.cos)
      BY <1>5, <2>5 DEF FreeStep, KeptApart
    <3>2. v.cos = u.cos /\ v.cos # w.cos /\ alive' \subseteq alive
      BY <1>5, <2>1, <2>5, <3>1 DEF FreeStep, Like
    <3>3. u.cos \in Group \ {w.cos}
      BY <3>1, <3>2, HeldGood, PoolGroups
    <3> QED BY <1>2, <2>2, <2>5, <3>1, <3>2, <3>3
  <2>6. LimitsAsked'
    BY <2>5 DEF LimitsAsked, getSocketIDs
  <2> QED BY <2>4, <2>6 DEF ThrottleInv
<1> QED BY <1>3, <1>4, <1>5, HeldSteps

(* Nobody is throttled who has not asked for it.  COS0, COS1 and the       *)
(* classes that nobody has limit no bandwidth, and the class of a stored   *)
(* workload limits it only if the workload asks for that and only on       *)
(* caches on which it may run, however requests race for mbaValue.         *)
THEOREM ThrottleConfinedHolds ==
  ASSUME Located, NoSharedRequests, OneAtATime, Patches = {}
  PROVE  Spec /\ [](phase = "up") => []ThrottleConfined
<1>1. Init => ReadyInv /\ ThrottleInv
  <2> SUFFICES ASSUME Init PROVE ReadyInv /\ ThrottleInv
    OBVIOUS
  <2>1. ThrottleInv
    BY InitPlatform, NothingHeld DEF ThrottleInv, FreeUnlimited, LimitsAsked
  <2>2. ReadyInv
    BY DEF ReadyInv, Init, Idle, Handlers
  <2> QED BY <2>1, <2>2
<1>2. /\ ManagerInv /\ CleanInv /\ ClaimInv /\ ApartInv /\ (phase = "up") /\ (phase = "up")'
      /\ ReadyInv /\ ThrottleInv /\ [Next]_vars
      => ReadyInv' /\ ThrottleInv'
  BY ServingKeepsReady, ServingKeepsThrottle
<1>3. ThrottleInv => ThrottleConfined
  <2> SUFFICES ASSUME ThrottleInv, phase = "up", NEW g \in Group, NEW s \in Sockets,
                      rdt.mb[g][s] # MbaMax
               PROVE  /\ g \notin Available(pool) \cup {0, 1}
                      /\ \A i \in RowIds(db) : db.rows[i].cos = g /\ ~HalfWay(i) =>
                            UsesMba(db.rows[i]) /\ s \in getSocketIDs(db.rows[i])
    BY DEF ThrottleConfined
  <2>1. g \notin Available(pool) \cup {0, 1}
    BY DEF ThrottleInv, FreeUnlimited
  <2>2. ASSUME NEW i \in RowIds(db), db.rows[i].cos = g, ~HalfWay(i)
        PROVE  UsesMba(db.rows[i]) /\ s \in getSocketIDs(db.rows[i])
    <3>1. i \in Ids /\ Claims(i)
      BY <2>2, PoolGroups DEF Claims, Leaving, HalfWay, Marked, Handlers, RowIds
    <3>2. db.rows[i] \in Held
      BY <3>1 DEF Held
    <3> QED BY <2>2, <3>2 DEF ThrottleInv, LimitsAsked
  <2> QED BY <2>1, <2>2
<1>4. Spec => []CleanInv
  BY CleanInvHolds
<1>5. Spec => []ClaimInv
  BY ClaimInvHolds
<1>6. Spec /\ [](phase = "up") => [](ApartInv /\ MemberInv)
  BY MemberInvHolds
<1> QED BY <1>1, <1>2, <1>3, <1>4, <1>5, <1>6, ManagerInvHolds, PTL DEF Spec

(* The unit of bandwidth stays the same while requests are served.         *)
LEMMA ModeKept ==
  ASSUME ManagerInv, phase = "up", phase' = "up", [Next]_vars
  PROVE  rdt'.mode = rdt.mode
<1>1. CASE UNCHANGED vars
  BY <1>1 DEF vars
<1>2. ASSUME NEW t \in Clients, NewWorkload(t) \/ RefuseNew(t) \/ DeleteByID(t) \/ Patch(t)
      PROVE  rdt' = rdt
  BY <1>2 DEF NewWorkload, BeginCreate, RefuseNew, DeleteByID, BeginDelete, Patch
<1>3. CASE processCreateNotification \/ processDeleteNotification \/ BeginScan(Validator)
  BY <1>3 DEF processCreateNotification, BeginCreate, processDeleteNotification, BeginDelete,
              BeginScan
<1>4. ASSUME NEW t \in Threads, Continue(t)
      PROVE  rdt'.mode = rdt.mode
  <2>1. CASE EnforceNew(t) \/ EnforcePatched(t)
    BY <2>1, EnforceStepEffect DEF EnforceNew, EnforcePatched
  <2>2. CASE EnforceEnds(t)
    BY <2>2 DEF EnforceEnds, Down
  <2>3. CASE ReleaseOld(t) \/ ReleaseForPatch(t)
    <3>1. PICK pc, done : pc \in {"release", "update"} /\ ReleaseStep(t, pc, done)
      BY <2>3 DEF ReleaseOld, ReleaseForPatch
    <3> QED BY <3>1, ReleaseStepEffect
  <2>4. CASE UpdateMembers(t)
    BY <2>4, UpdateMembersEffect
  <2>5. CASE Create(t) \/ UndoNew(t) \/ DeleteOld(t) \/ updateInDB(t)
    BY <2>5 DEF Create, UndoNew, DeleteOld, DeleteStep, updateInDB
  <2>6. CASE BeginScan(t) \/ ScanRow(t) \/ EndScan(t) \/ RefusePatch(t)
    BY <2>6 DEF BeginScan, ScanRow, EndScan, RefusePatch
  <2> QED BY <1>4, <2>1, <2>2, <2>3, <2>4, <2>5, <2>6 DEF Continue
<1>5. CASE Exit
  BY <1>5, DeallocateEffect DEF Exit, TaskExit, ManagerInv, TypeOK
<1>6. ~Crash /\ ~ResetAPI /\ ~Start
  BY DEF Crash, Down, Start, ResetAPI, SanityCheck, LoadWorkloads, MarkRow, StartServing
<1> QED BY <1>1, <1>2, <1>3, <1>4, <1>5, <1>6 DEF Next

(* Handler t has validated a workload with bandwidth and has not enforced  *)
(* it yet.                                                                 *)
Limits(t) == thread[t].pc = "enforce" /\ UsesMba(thread[t].w)

(* Nobody else writes mbaValue from the validation of a workload with      *)
(* bandwidth to the end of its Enforce.                                    *)
Undisturbed ==
  \A t \in Handlers :
     Limits(t) => /\ mbaValue = thread[t].w.mba[rdt.mode]
                  /\ EnforceNew(t) => mbaValue' = mbaValue

(* What was validated is a limit.                                          *)
LimitInv == \A t \in Handlers :
  Limits(t) /\ mbaValue = thread[t].w.mba[rdt.mode] => mbaValue \in 1 .. MbaMax

(* Every step of a daemon that serves requests keeps LimitInv.             *)
LEMMA ServingKeepsLimit ==
  ASSUME Patches = {}, ManagerInv, ClaimInv, LimitInv,
         phase = "up", phase' = "up", [Next]_vars, [Undisturbed]_vars
  PROVE  LimitInv'
<1>1. CASE UNCHANGED vars
  BY <1>1 DEF vars, LimitInv, Limits
<1> SUFFICES ASSUME Undisturbed, NEW u \in Handlers, Limits(u)',
                    mbaValue' = thread'[u].w.mba[rdt'.mode]
             PROVE  mbaValue' \in 1 .. MbaMax
  BY <1>1 DEF LimitInv
<1>2. rdt'.mode = rdt.mode
  BY ModeKept
<1>3. CASE thread'[u] = thread[u]
  <2>1. Limits(u) /\ mbaValue' = thread[u].w.mba[rdt.mode]
    BY <1>2, <1>3 DEF Limits
  <2>2. mbaValue = thread[u].w.mba[rdt.mode]
    BY <2>1 DEF Undisturbed
  <2> QED BY <2>1, <2>2 DEF LimitInv
<1>4. CASE thread'[u] # thread[u]
  <2>1. PICK t \in Handlers : HandlerStep(t)
    BY <1>4, UpSteps DEF Background
  <2>2. \A x : Goto(t, x) => t = u /\ thread'[u] = x
    BY <1>4, HandlerGoes
  <2>3. PICK w \in RDTWorkLoad : BeginCreate(t, w)
    BY <2>1, <2>2, OnlyBeginEnforces DEF Limits
  <2>4. PICK v : v.policy = w.policy /\ v.mba = w.mba /\ Goto(t, At("enforce", v))
    BY <2>3, BeginFills
  <2>5. w.mba # NoMba /\ w.policy = NoPolicy
    BY <2>2, <2>4, LocalFields DEF Limits, UsesMba
  <2>6. validate(w, mbaValue')
    BY <2>3 DEF BeginCreate, Validate
  <2> QED BY <2>5, <2>6 DEF validate, ValidMba
<1> QED BY <1>3, <1>4

(* What is read from mbaValue when nobody else writes it.                  *)
LEMMA ReadAlone ==
  ASSUME NEW w, NEW living, NEW c \in Choices(w, living, mbaValue), UsesMba(w),
         mbaValue \in 1 .. MbaMax
  PROVE  (\A s \in Sockets : c.seen[s] = mbaValue) /\ c.set = Sockets
<1>1. PICK d \in Reached(enforceMba(w, Seen(mbaValue, {}))) :
         c.seen = Seen(mbaValue, {}) /\ c.set = d
  BY DEF Choices
<1>2. \A s \in Sockets : Seen(mbaValue, {})[s] = mbaValue
  BY DEF Seen
<1>3. \A s \in Sockets : enforceMba(w, Seen(mbaValue, {}))[s] \in 1 .. MbaMax
  BY <1>2, MbaMaxAssumption DEF enforceMba
<1>4. Reached(enforceMba(w, Seen(mbaValue, {}))) = {Sockets}
  BY <1>3 DEF Reached
<1> QED BY <1>1, <1>2, <1>4

(* The class of w limits its bandwidth as w asks, unless a task has ended. *)
HasLimit(w) == UsesMba(w) /\ w.tasks \subseteq alive =>
                 \A s \in LiveSockets(w) : rdt.mb[w.cos][s] = w.mba[rdt.mode]

BandwidthInv == \A w \in Held : HasLimit(w)

(* Every step of a daemon that serves requests keeps BandwidthInv.         *)
LEMMA ServingKeepsBandwidth ==
  ASSUME OneAtATime, Patches = {}, ManagerInv, CleanInv, ClaimInv, ApartInv, LimitInv,
         BandwidthInv, phase = "up", phase' = "up", [Next]_vars, [Undisturbed]_vars
  PROVE  BandwidthInv'
<1> SUFFICES ASSUME NEW v \in Held' PROVE HasLimit(v)'
  BY DEF BandwidthInv, HasLimit, LiveSockets, LiveMembers
<1>9. CASE UNCHANGED vars
  <2>1. v \in Held
    BY <1>9, FewerHeld DEF vars, Claims, Leaving, Marked, Carries, RowIds
  <2> QED BY <1>9, <2>1 DEF vars, BandwidthInv, HasLimit, LiveSockets, LiveMembers
<1> SUFFICES ASSUME Undisturbed PROVE HasLimit(v)'
  BY <1>9
<1> SUFFICES ASSUME UsesMba(v), v.tasks \subseteq alive', NEW s \in LiveSockets(v)'
             PROVE  rdt'.mb[v.cos][s] = v.mba[rdt'.mode]
  BY DEF HasLimit, UsesMba
<1>0. rdt'.mode = rdt.mode
  BY ModeKept
<1>1. ASSUME NEW u \in Held, Like(v, u, u.cos), alive' \subseteq alive,
             rdt'.mb[u.cos] = rdt.mb[u.cos]
      PROVE  rdt'.mb[v.cos][s] = v.mba[rdt'.mode]
  <2>1. v.cos = u.cos /\ v.mba = u.mba /\ UsesMba(u) /\ u.tasks \subseteq alive
    BY <1>1 DEF Like, UsesMba
  <2>2. s \in LiveSockets(u)
    BY <1>1, LikeFits
  <2> QED BY <1>0, <1>1, <2>1, <2>2 DEF BandwidthInv, HasLimit
<1>2. CASE CalmStep
  BY <1>1, <1>2 DEF CalmStep, Kept
<1>3. ASSUME NEW t \in Handlers, NEW g \in PoolClos, TakeStep(t, g)
      PROVE  rdt'.mb[v.cos][s] = v.mba[rdt'.mode]
  <2>1. PICK w : w = thread[t].w
    OBVIOUS
  <2>2. /\ w \in RDTWorkLoad /\ g \in Available(pool)
        /\ \A x \in Group \ {g} : rdt'.mb[x] = rdt.mb[x]
    BY <1>3, <2>1, TakeEffect
  <2>3. PICK c \in Choices(w, alive', mbaValue') :
           UsesMba(w) /\ w.tasks \subseteq alive' =>
              \A x \in Sockets \cap c.set : rdt'.mb[g][x] = enforceMba(w, c.seen)[x]
    BY <1>3, <2>1, TakeEffect
  <2>4. alive' \subseteq alive /\ thread[t].pc = "enforce" /\ EnforceNew(t)
    BY <1>3 DEF TakeStep
  <2>5. CASE Like(v, w, g)
    <3>1. /\ v.cos = g /\ v.mba = w.mba /\ UsesMba(w) /\ w.tasks \subseteq alive'
      BY <2>5 DEF Like, UsesMba
    <3>2. Limits(t)
      BY <2>1, <2>4, <3>1 DEF Limits
    <3>3. /\ mbaValue = w.mba[rdt.mode] /\ mbaValue' = mbaValue /\ mbaValue \in 1 .. MbaMax
      BY <2>1, <2>4, <3>2 DEF Undisturbed, LimitInv
    <3>4. (\A x \in Sockets : c.seen[x] = mbaValue) /\ c.set = Sockets
      BY <2>3, <3>1, <3>3, ReadAlone
    <3>5. s \in Sockets /\ inCacheList(s, getSocketIDs(w))
      BY <2>2, <2>4, <2>5, LikeFits, LiveSocketsListed
    <3> QED BY <1>0, <2>3, <3>1, <3>3, <3>4, <3>5 DEF enforceMba
  <2>6. CASE KeptApart(v, w)
    <3>1. PICK u \in Held : Like(v, u, u.cos)
      BY <2>6 DEF KeptApart
    <3>2. u.cos \in Group \ {g}
      BY <2>2, <3>1, HeldGood, PoolGroups
    <3> QED BY <1>1, <2>2, <2>4, <3>1, <3>2
  <2> QED BY <1>3, <2>1, <2>5, <2>6 DEF TakeStep
<1>4. ASSUME NEW t \in Handlers, FreeStep(t)
      PROVE  rdt'.mb[v.cos][s] = v.mba[rdt'.mode]
  <2>1. PICK w : w = thread[t].w
    OBVIOUS
  <2>2. \A x \in Group \ {w.cos} : rdt'.mb[x] = rdt.mb[x]
    BY <1>4, <2>1, FreeEffect
  <2>3. PICK u \in Held : Like(v, u, u.cos)
    BY <1>4 DEF FreeStep, KeptApart
  <2>4. v.cos # w.cos /\ alive' \subseteq alive
    BY <1>4, <2>1 DEF FreeStep
  <2>5. u.cos \in Group \ {w.cos}
    BY <2>3, <2>4, HeldGood, PoolGroups DEF Like
  <2> QED BY <1>1, <2>2, <2>3, <2>4, <2>5
<1> QED BY <1>2, <1>3, <1>4, HeldSteps

(* The class of every stored workload has the limit that the workload asks *)
(* for, on all caches on which it runs, with any number of clients, as     *)
(* long as mbaValue is not written between the validation of a workload    *)
(* and the end of its Enforce.  That is the one way in which the limit is  *)
(* lost.                                                                   *)
THEOREM MbaHonouredHolds ==
  ASSUME NoSharedRequests, OneAtATime, Patches = {}
  PROVE  Spec /\ [](phase = "up") /\ [][Undisturbed]_vars => []MbaHonoured
<1>1. Init => LimitInv /\ BandwidthInv
  BY NothingHeld DEF LimitInv, Limits, BandwidthInv, Init, Idle, Handlers
<1>2. /\ ManagerInv /\ CleanInv /\ ClaimInv /\ ApartInv /\ (phase = "up") /\ (phase = "up")'
      /\ LimitInv /\ BandwidthInv /\ [Next]_vars /\ [Undisturbed]_vars
      => LimitInv' /\ BandwidthInv'
  BY ServingKeepsLimit, ServingKeepsBandwidth
<1>3. BandwidthInv => MbaHonoured
  BY SettledHolds DEF BandwidthInv, HasLimit, MbaHonoured
<1>4. Spec => []CleanInv
  BY CleanInvHolds
<1>5. Spec => []ClaimInv
  BY ClaimInvHolds
<1>6. Spec /\ [](phase = "up") => [](ApartInv /\ MemberInv)
  BY MemberInvHolds
<1> QED BY <1>1, <1>2, <1>3, <1>4, <1>5, <1>6, ManagerInvHolds, PTL DEF Spec

-----------------------------------------------------------------------------
(* When mbaValue is left alone.                                            *)

(* One client, which alone asks for bandwidth: no request is validated     *)
(* between the validation of another and its Enforce.                      *)
OneLimiter == /\ \A t, u \in Clients : t = u
              /\ \A r \in NovaRequests : r.mba = NoMba \/ r.policy # NoPolicy

(* Then mbaValue is the limit of the request that is about to be enforced. *)
LoneInv == \A t \in Handlers :
  Limits(t) => t \in Clients /\ mbaValue = thread[t].w.mba[rdt.mode]

(* Nobody races against the only client.                                   *)
LEMMA NoRace ==
  ASSUME OneLimiter, NEW t
  PROVE  /\ t \in Clients => Racing(t) = {}
         /\ Racing(t) # {} => \A u \in Clients : thread[u].pc = "idle"
<1>1. Racing(t) # {} => \E u \in Clients \ {t} : thread[u].pc = "idle"
  BY DEF Racing
<1> QED BY <1>1 DEF OneLimiter

(* Who writes mbaValue when there is no PATCH, and when.                   *)
LEMMA MbaWriters ==
  ASSUME OneLimiter, Patches = {}, ManagerInv, ClaimInv,
         phase = "up", phase' = "up", [Next]_vars
  PROVE  \/ mbaValue' = mbaValue
         \/ \E t \in Clients : thread[t].pc = "idle"
         \/ \E t \in Handlers : Racing(t) # {}
<1>1. CASE UNCHANGED vars
  BY <1>1 DEF vars
<1>2. ASSUME NEW t \in Clients, NewWorkload(t) \/ RefuseNew(t)
      PROVE  thread[t].pc = "idle"
  BY <1>2 DEF NewWorkload, BeginCreate, RefuseNew, Running
<1>3. ASSUME NEW t \in Clients, DeleteByID(t) \/ Patch(t)
      PROVE  mbaValue' = mbaValue
  BY <1>3 DEF DeleteByID, BeginDelete, Patch
<1>4. CASE processCreateNotification
  <2>1. PICK r \in NovaRequests, u \in UUIDs :
           BeginCreate(Nova, NewRDTWorkLoad(r, NoId, u, "OPENSTACK"))
    BY <1>4 DEF processCreateNotification
  <2>2. ~UsesMba(NewRDTWorkLoad(r, NoId, u, "OPENSTACK"))
    BY DEF OneLimiter, NewRDTWorkLoad, UsesMba
  <2> QED BY <2>1, <2>2 DEF BeginCreate
<1>5. CASE processDeleteNotification \/ BeginScan(Validator) \/ Exit
  BY <1>5 DEF processDeleteNotification, BeginDelete, BeginScan, Exit
<1>6. ASSUME NEW t \in Threads, Continue(t)
      PROVE  mbaValue' = mbaValue \/ (t \in Handlers /\ Racing(t) # {})
  <2>1. CASE EnforceNew(t)
    <3>1. t \in Handlers
      BY <2>1, HandlerRuns DEF EnforceNew, EnforceStep, ManagerInv, Handlers, PCs
    <3>2. mbaValue' \in {mbaValue} \cup Racing(t)
      BY <2>1 DEF EnforceNew, EnforceStep
    <3> QED BY <3>1, <3>2
  <2>2. CASE Create(t) \/ UndoNew(t) \/ DeleteOld(t) \/ ReleaseOld(t)
    BY <2>2 DEF Create, UndoNew, DeleteOld, DeleteStep, ReleaseOld
  <2>3. CASE BeginScan(t) \/ ScanRow(t) \/ EndScan(t)
    BY <2>3 DEF BeginScan, ScanRow, EndScan
  <2>4. CASE \/ EnforceEnds(t) \/ RefusePatch(t) \/ ReleaseForPatch(t) \/ EnforcePatched(t)
             \/ UpdateMembers(t) \/ updateInDB(t)
    <3>1. PICK pc \in {"update", "reenforce", "store"} : Running(t, pc)
      BY <2>4 DEF EnforceEnds, RefusePatch, ReleaseForPatch, EnforcePatched, EnforceStep,
                  UpdateMembers, updateInDB
    <3>2. t \in Handlers
      BY <3>1, HandlerRuns DEF ManagerInv, Handlers, PCs
    <3> QED BY <3>1, <3>2 DEF Running, ClaimInv, PlainInv
  <2> QED BY <1>6, <2>1, <2>2, <2>3, <2>4 DEF Continue
<1>7. ~Crash /\ ~ResetAPI /\ ~Start
  BY DEF Crash, Down, Start, ResetAPI, SanityCheck, LoadWorkloads, MarkRow, StartServing
<1> QED BY <1>1, <1>2, <1>3, <1>4, <1>5, <1>6, <1>7 DEF Next

(* Every step of a daemon that serves requests keeps LoneInv.              *)
LEMMA ServingKeepsLone ==
  ASSUME OneLimiter, Patches = {}, ManagerInv, ClaimInv, LoneInv,
         phase = "up", phase' = "up", [Next]_vars
  PROVE  LoneInv'
<1> SUFFICES ASSUME NEW u \in Handlers, Limits(u)'
             PROVE  u \in Clients /\ mbaValue' = thread'[u].w.mba[rdt'.mode]
  BY DEF LoneInv
<1>1. rdt'.mode = rdt.mode
  BY ModeKept
<1>2. CASE thread'[u] = thread[u]
  <2>1. Limits(u) /\ u \in Clients /\ mbaValue = thread[u].w.mba[rdt.mode]
    BY <1>2 DEF Limits, LoneInv
  <2>2. \A t \in Clients : thread[t].pc # "idle"
    BY <2>1 DEF OneLimiter, Limits
  <2>3. mbaValue' = mbaValue
    BY <2>1, <2>2, NoRace, MbaWriters
  <2> QED BY <1>1, <1>2, <2>1, <2>3
<1>3. CASE thread'[u] # thread[u]
  <2>1. PICK t \in Handlers : HandlerStep(t)
    BY <1>3, UpSteps DEF Background
  <2>2. \A x : Goto(t, x) => t = u /\ thread'[u] = x
    BY <1>3, HandlerGoes
  <2>3. PICK w \in RDTWorkLoad : BeginCreate(t, w) /\ AskedBy(t, w)
    BY <2>1, <2>2, OnlyBeginEnforces DEF Limits
  <2>4. PICK v : v.policy = w.policy /\ v.mba = w.mba /\ Goto(t, At("enforce", v))
    BY <2>3, BeginFills
  <2>5. t = u /\ thread'[u] = At("enforce", v)
    BY <2>2, <2>4
  <2>6. UsesMba(w) /\ thread'[u].w.mba = w.mba
    BY <2>4, <2>5, LocalFields DEF Limits, UsesMba
  <2>7. mbaValue' \in {w.mba[rdt.mode]} \cup Racing(u)
    BY <2>3, <2>5, <2>6 DEF BeginCreate
  <2>8. u \in Clients
    BY <2>3, <2>5, <2>6 DEF AskedBy, OneLimiter, UsesMba
  <2> QED BY <1>1, <2>6, <2>7, <2>8, NoRace
<1> QED BY <1>2, <1>3

(* One client that alone asks for bandwidth is never disturbed: the way    *)
(* through the global variable mbaValue is then as good as one through the *)
(* workload.  (With two clients it is not.)                                *)
THEOREM AloneUndisturbed ==
  ASSUME OneLimiter, NoSharedRequests, OneAtATime, Patches = {}
  PROVE  Spec /\ [](phase = "up") => [][Undisturbed]_vars
<1>1. Init => LoneInv
  BY DEF LoneInv, Limits, Init, Idle, Handlers
<1>2. /\ ManagerInv /\ ClaimInv /\ LoneInv /\ (phase = "up") /\ (phase = "up")'
      /\ [Next]_vars
      => LoneInv'
  BY ServingKeepsLone
<1>3. LoneInv => Undisturbed
  <2> SUFFICES ASSUME LoneInv, NEW t \in Handlers, Limits(t), EnforceNew(t)
               PROVE  mbaValue' = mbaValue
    BY DEF LoneInv, Undisturbed
  <2>1. mbaValue' \in {mbaValue} \cup Racing(t)
    BY DEF EnforceNew, EnforceStep
  <2> QED BY <2>1, NoRace DEF LoneInv
<1>4. Spec => []ClaimInv
  BY ClaimInvHolds
<1> QED BY <1>1, <1>2, <1>3, <1>4, ManagerInvHolds, PTL DEF Spec
=============================================================================
