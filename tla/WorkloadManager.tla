-------------------------- MODULE WorkloadManager --------------------------
(***************************************************************************)
(* The running daemon: REST handlers for POST, PATCH and DELETE            *)
(* (modules/workload/workload_api.go), the consumer of OpenStack Nova      *)
(* notifications (internal/openstack/notifhandler.go), the periodic        *)
(* database validator (workload.go), crashes of the process, and its       *)
(* start (utils/bootcheck, workload.Init).                                 *)
(*                                                                         *)
(* Each of them is a thread with a program counter and the local variables *)
(* that it carries from one step to the next.  A step is what a thread     *)
(* does without giving another a chance: one database transaction, or one  *)
(* critical section of the mutex.  Only dbContentValidation holds the      *)
(* mutex over several transactions, so the mutex is taken exactly while    *)
(* some thread is at "scan".                                               *)
(***************************************************************************)
EXTENDS Enforcement, FiniteSets

CONSTANTS Clients,       \* REST handlers that may run at the same time
          Nova,          \* the OpenStack consumer
          Validator,     \* the validator goroutine
          Requests,      \* what clients POST
          Patches,       \* what clients PATCH
          NovaRequests,  \* what notifications ask for
          PostIds,       \* ids that clients put into a POST
          Mortal,        \* the tasks that may end
          OneAtATime,    \* TRUE: no two requests in flight for one workload
          ForceConfig,   \* TRUE: rmd is started with --force-config
          MaxRequests,   \* bound of the model: POSTs, PATCHes and notifications
          MaxCrashes,    \* bound of the model
          MaxResets      \* bound of the model: changes of the MBA mode

ASSUME RequestsAssumption ==
  Requests \cup Patches \cup NovaRequests \subseteq Request
ASSUME PostIdsAssumption == PostIds \subseteq Ids /\ Mortal \subseteq Tasks
ASSUME ThreadsAssumption ==
  Nova \notin Clients /\ Validator \notin Clients /\ Nova # Validator
ASSUME BoundsAssumption ==
  /\ OneAtATime \in BOOLEAN /\ ForceConfig \in BOOLEAN
  /\ MaxRequests \in 0 .. MaxSeq /\ MaxCrashes \in Nat /\ MaxResets \in Nat

VARIABLES thread,  \* program counter and locals of every thread
          phase,   \* whether the process runs, boots or is down
          boot,    \* the rows that workload.Init still has to look at
          requests, \* how many creates and updates have begun
          crashes,
          resets    \* how often the MBA mode has changed

vars == <<pool, rdt, alive, db, mbaValue, thread, phase, boot, requests, crashes, resets>>

Threads == Clients \cup {Nova, Validator}

Snapshot == [Ids -> RDTWorkLoad \cup {NoRow}]

NoRows == [i \in Ids |-> NoRow]

PCs == {"idle", "enforce", "undo", "create",     \* POST, create notification
        "release", "delete",                     \* DELETE, delete notification
        "lock", "scan",                          \* dbContentValidation
        "update", "reenforce", "store"}          \* PATCH

Thread == [pc : PCs, w : RDTWorkLoad \cup {NoRow},
           patch : Request \cup {NoRow}, ws : Snapshot]

Idle == [pc |-> "idle", w |-> NoRow, patch |-> NoRow, ws |-> NoRows]

At(pc, w) == [pc |-> pc, w |-> w, patch |-> NoRow, ws |-> NoRows]

MutexFree == \A t \in Threads : thread[t].pc # "scan"

(* Requests are served once the process is up; the validator goroutine is  *)
(* started by workload.Init before that.                                   *)
Running(t, pc) ==
  /\ thread[t].pc = pc
  /\ phase = "up" \/ (t = Validator /\ phase \in {"init", "mark"})

Goto(t, local) == thread' = [thread EXCEPT ![t] = local]

(* A request in flight is about workload w too, or about its members.      *)
Clash(w, members) ==
  \E t \in Threads :
     /\ thread[t].w # NoRow
     /\ \/ w.id # NoId /\ thread[t].w.id = w.id
        \/ (thread[t].w.tasks \cup thread[t].w.cores) \cap members # {}
        \/ thread[t].patch # NoRow
           /\ (thread[t].patch.tasks \cup thread[t].patch.cores) \cap members # {}

MembersNamed(w) == w.tasks \cup w.cores

Init ==
  /\ pool = InitCLOSPool
  /\ rdt = SetInfraGroup(SetOSGroup(FreshPlatform("percentage"), InitCLOSPool))
  /\ alive = Tasks
  /\ db = EmptyDatabase
  /\ mbaValue = 0
  /\ thread = [t \in Threads |-> Idle]
  /\ phase = "up"
  /\ boot = NoRows
  /\ requests = 0
  /\ crashes = 0
  /\ resets = 0

-----------------------------------------------------------------------------
(* POST and the create notification.                                       *)

\* The bound on requests, which unlike DELETE make the state grow.
Count == requests < MaxRequests /\ requests' = requests + 1

(* What another client may write to mbaValue at this moment: validate      *)
(* assigns it before it refuses a request, and without a lock.             *)
Refused(w) == ReachesMba(w) /\ w.mba # NoMba /\ ~Validate(w, w.mba[rdt.mode])

Racing(t) ==
  {w.mba[rdt.mode] : w \in {v \in {NewRDTWorkLoad(r, id, NoUUID, "REST") :
                                 r \in Requests, id \in PostIds \cup {NoId}} :
                          /\ Refused(v)
                          /\ \E u \in Clients \ {t} : thread[u].pc = "idle"}}

BeginCreate(t, w) ==
  /\ Running(t, "idle")
  /\ Count
  /\ OneAtATime => ~Clash(w, MembersNamed(w))
  /\ \E v \in IF UsesMba(w) THEN {w.mba[rdt.mode]} \cup Racing(t) ELSE {mbaValue} :
        Validate(w, v) /\ mbaValue' = v
  /\ Goto(t, At("enforce", FilledByPolicy(w)))
  /\ UNCHANGED <<pool, rdt, alive, db, phase, boot, crashes, resets>>

(* A POST that is refused has written mbaValue all the same.               *)
RefuseNew(t) ==
  \E r \in Requests, id \in PostIds \cup {NoId} :
     LET w == NewRDTWorkLoad(r, id, NoUUID, "REST")
     IN  /\ Running(t, "idle")
         /\ Refused(w)
         /\ mbaValue' = w.mba[rdt.mode]
         /\ UNCHANGED <<pool, rdt, alive, db, thread, phase, boot, requests, crashes,
                        resets>>

NewWorkload(t) ==
  \E r \in Requests, id \in PostIds \cup {NoId} :
     BeginCreate(t, NewRDTWorkLoad(r, id, NoUUID, "REST"))

processCreateNotification ==
  \E r \in NovaRequests, u \in UUIDs :
     BeginCreate(Nova, NewRDTWorkLoad(r, NoId, u, "OPENSTACK"))

(* Where a thread goes after Enforce: on, or out with an error.  A POST    *)
(* with a bad request deletes the workload from the database first.        *)
AfterEnforce(t, status, w, next) ==
  IF status = "ok" THEN At(next, w)
  ELSE IF status = "bad" /\ next = "create" /\ t # Nova THEN At("undo", w)
  ELSE Idle

(* Tasks that end between getSocketIDs and their association.  (That this  *)
(* happens to a workload that has lost tasks before adds nothing.)         *)
Dying(w) == IF w.tasks \subseteq alive
            THEN Mortal \cap alive \cap (w.tasks \cup MembersOf(rdt, pool.shared)) ELSE {}

(* What may be read from mbaValue: one other client may write v meanwhile, *)
(* before the entries of the sockets in late are made.                     *)
Seen(v, late) == [s \in Sockets |-> IF s \in late THEN v ELSE mbaValue]

Choices(w, living, v) ==
  {[order |-> o, living |-> living, got |-> g, plugin |-> p,
    seen |-> x.seen, set |-> x.set] :
     o \in Orders, g \in Prefixes(w.tasks, living), p \in PluginResults(w),
     x \in IF ~UsesMba(w) THEN {[seen |-> Seen(v, {}), set |-> {}]}
           ELSE UNION {{[seen |-> Seen(v, late), set |-> d] :
                           d \in Reached(enforceMba(w, Seen(v, late)))} :
                         late \in IF v = mbaValue THEN {{}} ELSE SUBSET Sockets}}

(* The root process has gone: the user process follows.                    *)
Down == /\ phase' = "down"
        /\ pool' = InitCLOSPool
        /\ mbaValue' = 0
        /\ boot' = NoRows
        /\ thread' = [t \in Threads |-> Idle]

EnforceStep(t, pc, next) ==
  /\ Running(t, pc)
  /\ MutexFree
  /\ \E dying \in SUBSET Dying(thread[t].w), v \in {mbaValue} \cup Racing(t) :
     \E c \in Choices(thread[t].w, alive \ dying, v) :
        LET r == Enforce(thread[t].w, c)
        IN  /\ ~EndsRoot(thread[t].w, c)
            /\ pool' = r.pool
            /\ rdt' = WithoutTasks(r.rdt, dying)
            /\ alive' = alive \ dying
            /\ mbaValue' = v
            /\ Goto(t, AfterEnforce(t, r.status, r.w, next))
  /\ UNCHANGED <<db, phase, boot, requests, crashes, resets>>

(* The Enforce after which there is no root process.                       *)
EnforceEnds(t) ==
  /\ Running(t, "reenforce")
  /\ MutexFree
  /\ \E c \in Choices(thread[t].w, alive, mbaValue) : EndsRoot(thread[t].w, c)
  /\ Down
  /\ UNCHANGED <<rdt, alive, db, requests, crashes, resets>>

EnforceNew(t) == EnforceStep(t, "enforce", "create")

Create(t) ==
  /\ Running(t, "create")
  /\ NextIdExists(db, thread[t].w)
  /\ db' = CreateWorkload(db, thread[t].w)
  /\ Goto(t, Idle)
  /\ UNCHANGED <<pool, rdt, alive, mbaValue, phase, boot, requests, crashes, resets>>

DeleteStep(t, pc) ==
  /\ Running(t, pc)
  /\ db' = DeleteWorkload(db, thread[t].w)
  /\ Goto(t, Idle)
  /\ UNCHANGED <<pool, rdt, alive, mbaValue, phase, boot, requests, crashes, resets>>

UndoNew(t) == DeleteStep(t, "undo")

-----------------------------------------------------------------------------
(* DELETE and the delete notification.  The workload that is released is   *)
(* the one that was read before the mutex was taken.                       *)

BeginDelete(t, w, origin) ==
  /\ Running(t, "idle")
  /\ w # NoRow
  /\ w.origin = origin
  /\ OneAtATime => ~Clash(w, MembersNamed(w))
  /\ Goto(t, At("release", w))
  /\ UNCHANGED <<pool, rdt, alive, db, mbaValue, phase, boot, requests, crashes, resets>>

DeleteByID(t) == \E id \in Ids : BeginDelete(t, GetWorkloadByID(db, id), "REST")

processDeleteNotification ==
  \E u \in UUIDs : BeginDelete(Nova, GetWorkloadByUUID(db, u), "OPENSTACK")

(* Release is given the workload with the parameters of the patch, if it   *)
(* is called for one: its plugins are those that a new policy adds, too.   *)
ReleasePlugins(t) ==
  PluginResults(IF thread[t].patch = NoRow THEN thread[t].w
                ELSE Merged(thread[t].w, thread[t].patch))

ReleaseStep(t, pc, done) ==
  /\ Running(t, pc)
  /\ MutexFree
  /\ \E got \in Prefixes(thread[t].w.tasks, alive), plugin \in ReleasePlugins(t) :
        LET r == Release(thread[t].w, got, plugin)
        IN  /\ pool' = r.pool
            /\ rdt' = r.rdt
            /\ Goto(t, IF r.ok THEN done ELSE Idle)
  /\ UNCHANGED <<alive, db, phase, boot, requests, crashes, resets>>

ReleaseOld(t) == /\ ReleaseStep(t, "release", [thread[t] EXCEPT !.pc = "delete"])
                 /\ UNCHANGED mbaValue

DeleteOld(t) == DeleteStep(t, "delete")

-----------------------------------------------------------------------------
(* dbContentValidation, by the validator goroutine and by every PATCH.     *)

(* Mutant of RowsWithTasks: only workloads without tasks are looked at.    *)
RowsWithoutTasks == [i \in Ids |-> IF i \in RowIds(db) /\ db.rows[i].tasks = {}
                                   THEN db.rows[i] ELSE NoRow]

(* Only workloads with tasks are looked at.                                *)
RowsWithTasks == [i \in Ids |-> IF i \in RowIds(db) /\ db.rows[i].tasks # {}
                                THEN db.rows[i] ELSE NoRow]

BeginScan(t) ==
  /\ Running(t, IF t = Validator THEN "idle" ELSE "lock")
  /\ MutexFree
  /\ Goto(t, [thread[t] EXCEPT !.pc = "scan", !.ws = RowsWithTasks])
  /\ UNCHANGED <<pool, rdt, alive, db, mbaValue, phase, boot, requests, crashes, resets>>

(* Mutant of shouldRemoveWorkload: one ended task is enough.               *)
RemoveIfAnyEnded(w) == ~(w.tasks \subseteq alive)

shouldRemoveWorkload(w) == w.tasks \cap alive = {}

First(ws, i) == ws[i] # NoRow /\ \A j \in Ids : ws[j] # NoRow => i <= j

ScanRow(t) ==
  /\ Running(t, "scan")
  /\ \E i \in Ids :
        /\ First(thread[t].ws, i)
        /\ db' = IF shouldRemoveWorkload(thread[t].ws[i])
                 THEN DeleteWorkload(db, thread[t].ws[i]) ELSE db
        /\ Goto(t, [thread[t] EXCEPT !.ws = [@ EXCEPT ![i] = NoRow]])
  /\ UNCHANGED <<pool, rdt, alive, mbaValue, phase, boot, requests, crashes, resets>>

(* Mutant of EndScan: a return that does not unlock the mutex.             *)
EndScanLocked(t) ==
  /\ Running(t, "scan")
  /\ thread[t].ws = NoRows
  /\ UNCHANGED vars

EndScan(t) ==
  /\ Running(t, "scan")
  /\ thread[t].ws = NoRows
  /\ Goto(t, IF t = Validator THEN Idle ELSE [thread[t] EXCEPT !.pc = "update"])
  /\ UNCHANGED <<pool, rdt, alive, db, mbaValue, phase, boot, requests, crashes, resets>>

-----------------------------------------------------------------------------
(* PATCH.                                                                  *)

Patch(t) ==
  \E id \in RowIds(db), p \in Patches :
     /\ Running(t, "idle")
     /\ Count
     /\ db.rows[id].origin = "REST"
     /\ OneAtATime => ~Clash(db.rows[id], MembersNamed(db.rows[id]) \cup MembersNamed(p))
     /\ Goto(t, [pc |-> "lock", w |-> db.rows[id], patch |-> p, ws |-> NoRows])
     /\ UNCHANGED <<pool, rdt, alive, db, mbaValue, phase, boot, crashes, resets>>

(* update: nobody looks at the bandwidth of a patch with a policy.         *)
MbaRefused(p) == /\ p.policy = NoPolicy
                 /\ OtherMode(p) \/ p.mba[rdt.mode] \notin {Nil} \cup 1 .. MbaMax

\* What update assigns to mbaValue.
PatchedMbaValue(w, p) == IF MbaChanged(w, p) THEN p.mba[rdt.mode] ELSE mbaValue

(* A bandwidth in the wrong unit or out of range; or a plugin that is not  *)
(* loaded, or refuses the parameters of the patch, for which it is asked   *)
(* after mbaValue has been assigned.                                       *)
RefusePatch(t) ==
  LET w == thread[t].w
      p == thread[t].patch
  IN  /\ Running(t, "update")
      /\ \/ MbaRefused(p) /\ UNCHANGED mbaValue
         \/ /\ ~MbaRefused(p)
            /\ p.policy = NoPolicy /\ p.plug /\ ~FilledByPolicy(w).plug
            /\ mbaValue' = PatchedMbaValue(w, p)
      /\ Goto(t, Idle)
      /\ UNCHANGED <<pool, rdt, alive, db, phase, boot, requests, crashes, resets>>

(* Release of the old workload; the members and plugins of the patch       *)
(* replace the old ones, unchecked.  The bandwidth that Enforce will use   *)
(* is that of mbaValue, assigned here only if the patch changes it.        *)
ReleaseForPatch(t) ==
  /\ Running(t, "update")
  /\ reEnforce(thread[t].w, thread[t].patch)
  /\ ~MbaRefused(thread[t].patch)
  /\ mbaValue' = PatchedMbaValue(thread[t].w, thread[t].patch)
  /\ ReleaseStep(t, "update", At("reenforce", Patched(thread[t].w, thread[t].patch)))

(* When this Enforce fails the handler returns: the row stays as it was    *)
(* before the Release.                                                     *)
EnforcePatched(t) == EnforceStep(t, "reenforce", "store")

(* Nothing to re-enforce.  New members are validated as if they were posted*)
(* with the id of the workload, and committed to its group.                *)
CommitMembers(w, p) ==
  AllocateCLOS(rdt, w.cos,
               ResAssociation(rdt.mask[w.cos],
                              (MembersOf(rdt, w.cos) \cap Tasks) \cup p.tasks,
                              IF p.cores # {} THEN p.cores
                              ELSE MembersOf(rdt, w.cos) \cap Cores),
               alive, {})

PatchAsWorkload(w, p) == NewRDTWorkLoad(p, w.id, NoUUID, "REST")

CanCommit(w, p) == /\ Validate(PatchAsWorkload(w, p), p.mba[rdt.mode])
                   /\ w.cos \in Visible(pool)

UpdateMembers(t) ==
  LET w == thread[t].w
      p == thread[t].patch
  IN  /\ Running(t, "update")
      /\ MutexFree
      /\ ~reEnforce(w, p) /\ ~MbaRefused(p)
      /\ \/ /\ ~MembersDiffer(w, p)
            /\ Goto(t, At("store", Merged(w, p)))
            /\ UNCHANGED rdt
         \/ /\ MembersDiffer(w, p) /\ CanCommit(w, p)
            /\ rdt' = CommitMembers(w, p)
            /\ Goto(t, At("store", WithMembers(Merged(w, p), p)))
         \/ /\ MembersDiffer(w, p) /\ ~CanCommit(w, p)
            /\ Goto(t, Idle)
            /\ UNCHANGED rdt
      /\ mbaValue' = IF /\ MembersDiffer(w, p) /\ p.mba # NoMba
                        /\ ReachesMba(PatchAsWorkload(w, p))
                     THEN p.mba[rdt.mode] ELSE mbaValue
      /\ UNCHANGED <<pool, alive, db, phase, boot, requests, crashes, resets>>

updateInDB(t) ==
  /\ Running(t, "store")
  /\ db' = UpdateWorkload(db, thread[t].w)
  /\ Goto(t, Idle)
  /\ UNCHANGED <<pool, rdt, alive, mbaValue, phase, boot, requests, crashes, resets>>

-----------------------------------------------------------------------------
(* The process ends at any point.  The CLOS pool and the threads are lost, *)
(* the database and the platform are kept.                                 *)

Crash ==
  /\ phase # "down"
  /\ crashes < MaxCrashes
  /\ crashes' = crashes + 1
  /\ Down
  /\ UNCHANGED <<rdt, alive, db, requests, resets>>

(* The MBA mode is changed before the next start, in rmd.toml and with     *)
(* --force-config or by hand: the root process, or who mounts resctrl      *)
(* again, resets the whole platform.                                       *)
ResetAPI ==
  /\ phase = "down"
  /\ resets < MaxResets
  /\ resets' = resets + 1
  /\ \E mode \in MbaMode \ {rdt.mode} : rdt' = FreshPlatform(mode)
  /\ UNCHANGED <<pool, alive, db, mbaValue, thread, phase, boot, requests, crashes>>

(* DBCheck: rows without a CLOS are deleted.  (Rows of a group that is not *)
(* there are deleted too, but libpqos has created all groups by then.)     *)
DBCheck(d) ==
  [d EXCEPT
     !.rows    = [i \in Ids |-> IF d.rows[i] # NoRow /\ d.rows[i].cos = NoClos
                                THEN NoRow ELSE d.rows[i]],
     !.mapping = [u \in UUIDs |->
                    IF \E i \in RowIds(d) : d.rows[i].cos = NoClos /\ d.rows[i].uuid = u
                    THEN NoId ELSE d.mapping[u]]]

(* SetOSGroup runs before InitCLOSPool, so the list of available CLOSes is *)
(* empty and every group is looked at; SetInfraGroup follows.              *)
SanityCheck ==
  /\ phase = "down"
  /\ db' = DBCheck(db)
  /\ rdt' = SetInfraGroup(SetOSGroup(rdt, [InitCLOSPool EXCEPT !.avail = <<>>]))
  /\ phase' = "init"
  /\ UNCHANGED <<pool, alive, mbaValue, thread, boot, requests, crashes, resets>>

(* Mutant of LoadWorkloads: the rows are marked in lists that nobody has   *)
(* filled.                                                                 *)
LoadBeforePool ==
  /\ phase = "init"
  /\ pool' = [InitCLOSPool EXCEPT !.avail = <<>>]
  /\ boot' = db.rows
  /\ phase' = "mark"
  /\ UNCHANGED <<rdt, alive, db, mbaValue, thread, requests, crashes, resets>>

(* workload.Init reads all rows once and marks their CLOSes one by one.    *)
LoadWorkloads ==
  /\ phase = "init"
  /\ pool' = InitCLOSPool
  /\ boot' = db.rows
  /\ phase' = "mark"
  /\ UNCHANGED <<rdt, alive, db, mbaValue, thread, requests, crashes, resets>>

(* Mutant of MarkRow: rows in another unit are kept.                       *)
MarkAnyRow ==
  /\ phase = "mark"
  /\ \E i \in Ids :
        /\ First(boot, i)
        /\ boot' = [boot EXCEPT ![i] = NoRow]
        /\ pool' = IF boot[i].cos = NoClos THEN pool ELSE MarkCLOSasUsed(pool, boot[i].cos).pool
        /\ UNCHANGED <<phase, thread>>
  /\ UNCHANGED <<rdt, alive, db, mbaValue, requests, crashes, resets>>

(* A row with bandwidth in another unit, whether it counts or not, is      *)
(* deleted if that is forced.                                              *)
MarkRow ==
  /\ phase = "mark"
  /\ \E i \in Ids :
        LET r == IF boot[i].cos = NoClos THEN [ok |-> TRUE, pool |-> pool]
                 ELSE MarkCLOSasUsed(pool, boot[i].cos)
            fails == IF OtherMode(boot[i]) THEN ~ForceConfig ELSE ~r.ok
        IN  /\ First(boot, i)
            /\ \/ /\ ~fails
                  /\ boot' = [boot EXCEPT ![i] = NoRow]
                  /\ pool' = IF OtherMode(boot[i]) THEN pool ELSE r.pool
                  /\ db' = IF OtherMode(boot[i]) THEN DeleteWorkload(db, boot[i]) ELSE db
                  /\ UNCHANGED <<phase, thread, mbaValue>>
               \/ /\ fails    \* log.Fatalf in workload.Register
                  /\ Down
                  /\ UNCHANGED db
  /\ UNCHANGED <<rdt, alive, requests, crashes, resets>>

StartServing ==
  /\ phase = "mark"
  /\ boot = NoRows
  /\ phase' = "up"
  /\ UNCHANGED <<pool, rdt, alive, db, mbaValue, thread, boot, requests, crashes, resets>>

-----------------------------------------------------------------------------
Exit == /\ \E t \in Mortal : TaskExit(t)
        /\ UNCHANGED <<pool, db, mbaValue, thread, phase, boot, requests, crashes, resets>>

(* A thread goes on with what it has begun.                                *)
Continue(t) ==
  \/ EnforceNew(t) \/ EnforceEnds(t) \/ Create(t) \/ UndoNew(t)
  \/ ReleaseOld(t) \/ DeleteOld(t)
  \/ (t # Validator /\ BeginScan(t))
  \/ ScanRow(t) \/ EndScan(t)
  \/ RefusePatch(t) \/ ReleaseForPatch(t) \/ EnforcePatched(t)
  \/ UpdateMembers(t) \/ updateInDB(t)

Start == SanityCheck \/ LoadWorkloads \/ MarkRow \/ StartServing

Next ==
  \/ \E t \in Clients : NewWorkload(t) \/ RefuseNew(t) \/ DeleteByID(t) \/ Patch(t)
  \/ processCreateNotification \/ processDeleteNotification
  \/ BeginScan(Validator)
  \/ \E t \in Threads : Continue(t)
  \/ Crash \/ ResetAPI \/ Start \/ Exit

Spec == Init /\ [][Next]_vars

(* A sync.Mutex hands the lock over to a goroutine that has waited for a   *)
(* millisecond, so a thread that waits for it again and again gets it:     *)
(* strong fairness.  The validator sleeps and scans for ever.  When the    *)
(* process has ended somebody starts it again (rmd.service has no Restart, *)
(* so this is the operator).                                               *)
FairSpec ==
  /\ Spec
  /\ \A t \in Threads : SF_vars(Continue(t))
  /\ SF_vars(BeginScan(Validator))
  /\ WF_vars(Start)
=============================================================================
