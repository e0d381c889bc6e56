-------------------------- MODULE PoolAndDBProofs --------------------------
(***************************************************************************)
(* The invariants of the CLOS pool, for any number of classes of service   *)
(* and any sequence of calls of any length, and those of the workload      *)
(* database under callers that do not overlap, for any tasks, cores, ids,  *)
(* UUIDs and requests.                                                     *)
(***************************************************************************)
EXTENDS ClosPoolCalls, WorkloadDBCalls, PoolAndDBLemmas

-----------------------------------------------------------------------------
(* The CLOS pool.                                                          *)

(* The inductive invariant.                                                *)
PoolSound == Sound(pool)

(* Every call of a function of package pqos leaves a sound pool, whatever  *)
(* the caller passes to it.                                                *)
LEMMA CallsSound == PoolSound /\ [PoolNext]_pool => PoolSound'
<1> SUFFICES ASSUME Sound(pool), [PoolNext]_pool PROVE Sound(pool')
  BY DEF PoolSound
<1>1. CASE CallUse
  BY <1>1, UseSound DEF CallUse
<1>2. ASSUME NEW c \in ClosName, CallReturn(c) PROVE Sound(pool')
  BY <1>2, ReturnSound DEF CallReturn
<1>3. CASE CallGetShared
  BY <1>3, SharedSound DEF CallGetShared
<1>4. ASSUME NEW c \in PoolClos, CallMark(c) PROVE Sound(pool')
  BY <1>4, MarkSound DEF CallMark
<1>5. CASE ProcessRestart
  BY <1>5, InitSound DEF ProcessRestart
<1>6. CASE UNCHANGED pool
  BY <1>6
<1> QED BY <1>1, <1>2, <1>3, <1>4, <1>5, <1>6 DEF PoolNext

(* The pool is sound at all times.                                         *)
LEMMA AlwaysSound == PoolSpec => []PoolSound
<1>1. PoolInit => PoolSound
  BY InitSound DEF PoolInit, PoolSound
<1> QED BY <1>1, CallsSound, PTL DEF PoolSpec

(* Type correctness: the available list holds names of the pool only, the  *)
(* used list no name a negative number of times (ReturnClos looks for a    *)
(* name before it removes it), and sharedCLOS is a name or empty.          *)
THEOREM PoolTypeCorrect == PoolSpec => []PoolTypeOK
<1>1. PoolSound => PoolTypeOK
  BY DEF PoolSound, Sound, PoolTypeOK
<1> QED BY <1>1, AlwaysSound, PTL

(* No class of service is ever lost: it is available or counted as used,   *)
(* whatever callers without a protocol do with UseAvailableCLOS,           *)
(* ReturnClos, GetSharedCLOS and MarkCLOSasUsed.                           *)
THEOREM PoolNeverLoses == PoolSpec => []PoolConserved
<1>1. PoolSound => PoolConserved
  BY DEF PoolSound, Sound, PoolConserved
<1> QED BY <1>1, AlwaysSound, PTL

(* The class named by sharedCLOS counts as used: GetSharedCLOS never names *)
(* a class that it has not reserved, and ReturnClos takes the last used    *)
(* entry of a class away only when it is not the shared one.               *)
THEOREM SharedAlwaysReserved == PoolSpec => []SharedReserved
<1>1. PoolSound => SharedReserved
  BY DEF PoolSound, Sound, SharedReserved
<1> QED BY <1>1, AlwaysSound, PTL

-----------------------------------------------------------------------------
(* The workload database.                                                  *)

(* Every workload is stored under its own id, so that deleting or updating *)
(* a workload that was read meets its own row.                             *)
RowsKeyed == \A i \in RowIds(db) : db.rows[i].id = i

(* The invariant of the rows.                                              *)
DBInv == DBTypeOK /\ RowsKeyed

(* What ValidateAndCreate stores is a workload with the posted id, or      *)
(* without one.                                                            *)
LEMMA CreatedWorkload ==
  ASSUME DBTypeOK, NEW r \in Requests, NEW id \in PostIds \cup {NoId},
         NEW u \in UUIDs \cup {NoUUID}, ValidateAndCreate(r, id, u)
  PROVE  \E w \in RDTWorkLoad :
            /\ w.id = id /\ ValidateWorkload(db, w) /\ NextIdExists(db, w)
            /\ db' = CreateWorkload(db, w)
<1> DEFINE v == NewRDTWorkLoad(r, id, u, "REST")
           w == FilledByPolicy(v)
<1>1. r \in Request /\ id \in Ids \cup {NoId} /\ NoClos \in ClosName
  BY RequestsAssumption, PostIdsAssumption DEF ClosName
<1>2. v \in RDTWorkLoad /\ v.id = id
  BY <1>1 DEF NewRDTWorkLoad, Request, RDTWorkLoad
<1>3. ValidateWorkload(db, w) /\ NextIdExists(db, w) /\ db' = CreateWorkload(db, w)
  BY DEF ValidateAndCreate
<1> HIDE DEF v
<1>4. w \in RDTWorkLoad /\ w.id = id
  BY <1>2, Filled DEF SameButParams
<1> HIDE DEF w
<1> QED BY <1>3, <1>4

(* What ReadAndUpdate stores has the id and the UUID of what it read, and, *)
(* if the patch names no member, the members too.                          *)
LEMMA UpdatedWorkload ==
  ASSUME DBTypeOK, NEW id \in Ids, NEW p \in Patches, ReadAndUpdate(id, p)
  PROVE  /\ id \in RowIds(db)
         /\ \E w \in RDTWorkLoad :
               /\ db' = UpdateWorkload(db, w)
               /\ w.id = db.rows[id].id /\ w.uuid = db.rows[id].uuid
               /\ p.tasks = {} /\ p.cores = {} =>
                     w.tasks = db.rows[id].tasks /\ w.cores = db.rows[id].cores
<1>1. id \in RowIds(db)
  BY DEF ReadAndUpdate
<1>2. db.rows[id] \in RDTWorkLoad /\ p \in Request
  BY <1>1, DatabaseFields, RequestsAssumption DEF DBTypeOK
<1>3. \/ db' = UpdateWorkload(db, Patched(db.rows[id], p))
      \/ db' = UpdateWorkload(db, Merged(db.rows[id], p))
  BY DEF ReadAndUpdate
<1> DEFINE row == db.rows[id]
<1>4. CASE db' = UpdateWorkload(db, Patched(row, p))
  <2> DEFINE w == Patched(row, p)
  <2>1. /\ w \in RDTWorkLoad /\ w.id = row.id /\ w.uuid = row.uuid
        /\ w.tasks = (IF p.tasks # {} THEN p.tasks ELSE row.tasks)
        /\ w.cores = (IF p.cores # {} THEN p.cores ELSE row.cores)
    BY <1>2, PatchedParams
  <2> HIDE DEF w
  <2> QED BY <1>1, <1>4, <2>1 DEF w
<1>5. CASE db' = UpdateWorkload(db, Merged(row, p))
  <2> DEFINE w == Merged(row, p)
  <2>1. SameButParams(w, row)
    BY <1>2, MergedParams
  <2> HIDE DEF w
  <2> QED BY <1>1, <1>5, <2>1 DEF w, SameButParams
<1> QED BY <1>3, <1>4, <1>5

(* A step of DBNext is one of three transactions: creating a validated     *)
(* workload, deleting a stored one, or changing one under its id and UUID. *)
LEMMA ThreeTransactions ==
  ASSUME DBTypeOK, DBNext
  PROVE  \/ \E w \in RDTWorkLoad :
               /\ w.id \in PostIds \cup {NoId}
               /\ ValidateWorkload(db, w) /\ NextIdExists(db, w)
               /\ db' = CreateWorkload(db, w)
         \/ \E id \in RowIds(db) : db' = DeleteWorkload(db, db.rows[id])
         \/ /\ \E id \in RowIds(db), w \in RDTWorkLoad :
                  /\ db' = UpdateWorkload(db, w)
                  /\ w.id = db.rows[id].id /\ w.uuid = db.rows[id].uuid
                  /\ (\A p \in Patches : p.tasks = {} /\ p.cores = {}) =>
                        w.tasks = db.rows[id].tasks /\ w.cores = db.rows[id].cores
            /\ \E id \in Ids, p \in Patches : ReadAndUpdate(id, p)
<1>1. ASSUME NEW r \in Requests, NEW id \in PostIds \cup {NoId},
             NEW u \in UUIDs \cup {NoUUID}, ValidateAndCreate(r, id, u)
      PROVE  \E w \in RDTWorkLoad :
               /\ w.id \in PostIds \cup {NoId}
               /\ ValidateWorkload(db, w) /\ NextIdExists(db, w)
               /\ db' = CreateWorkload(db, w)
  BY <1>1, CreatedWorkload
<1>2. ASSUME NEW id \in Ids, ReadAndDelete(id)
      PROVE  \E j \in RowIds(db) : db' = DeleteWorkload(db, db.rows[j])
  BY <1>2 DEF ReadAndDelete, GetWorkloadByID
<1>3. ASSUME NEW u \in UUIDs, FindAndDelete(u)
      PROVE  \E j \in RowIds(db) : db' = DeleteWorkload(db, db.rows[j])
  <2> DEFINE j == db.mapping[u]
  <2>1. j \in Ids /\ db.rows[j] # NoRow /\ GetWorkloadByUUID(db, u) = db.rows[j]
    BY <1>3, DatabaseFields DEF FindAndDelete, GetWorkloadByUUID, DBTypeOK
  <2>2. j \in RowIds(db) /\ db' = DeleteWorkload(db, db.rows[j])
    BY <1>3, <2>1 DEF FindAndDelete, RowIds
  <2> QED BY <2>2
<1>4. ASSUME NEW id \in Ids, NEW p \in Patches, ReadAndUpdate(id, p)
      PROVE  \E j \in RowIds(db), w \in RDTWorkLoad :
                /\ db' = UpdateWorkload(db, w)
                /\ w.id = db.rows[j].id /\ w.uuid = db.rows[j].uuid
                /\ (\A q \in Patches : q.tasks = {} /\ q.cores = {}) =>
                      w.tasks = db.rows[j].tasks /\ w.cores = db.rows[j].cores
  BY <1>4, UpdatedWorkload
<1> QED BY <1>1, <1>2, <1>3, <1>4 DEF DBNext

(* The empty database satisfies the invariant.                             *)
LEMMA DBInitInv == DBInit => DBInv
<1> SUFFICES ASSUME DBInit PROVE DBInv
  OBVIOUS
<1>1. db \in Database
  BY IdsAssumption DEF DBInit, EmptyDatabase, Database
<1>2. RowIds(db) = {}
  BY DEF DBInit, EmptyDatabase, RowIds
<1> QED BY <1>1, <1>2 DEF DBInv, DBTypeOK, RowsKeyed

(* What an update under the id of a stored workload changes.               *)
LEMMA UpdateInPlace ==
  ASSUME DBInv, NEW id \in RowIds(db), NEW w \in RDTWorkLoad,
         db' = UpdateWorkload(db, w), w.id = db.rows[id].id
  PROVE  /\ db' \in Database /\ RowIds(db') = RowIds(db)
         /\ id \in Ids /\ w.id = id /\ db'.rows[id] = w
         /\ \A i \in Ids \ {id} : db'.rows[i] = db.rows[i]
         /\ db'.mapping = db.mapping /\ db'.seq = db.seq
<1>1. w.id = id /\ id \in Ids /\ db \in Database
  BY DEF DBInv, DBTypeOK, RowsKeyed, RowIds
<1>2. id # NoId
  BY <1>1, IdsAssumption DEF Ids
<1>3. /\ db' \in Database /\ RowIds(db') = RowIds(db) \cup {w.id}
      /\ db'.rows[w.id] = w
      /\ \A i \in Ids \ {w.id} : db'.rows[i] = db.rows[i]
      /\ db'.mapping = db.mapping /\ db'.seq = db.seq
  BY <1>1, <1>2, UpdateEffect
<1> QED BY <1>1, <1>3

(* Every transaction preserves it, also one that overwrites a row.         *)
LEMMA DBStepInv == DBInv /\ [DBNext]_db => DBInv'
<1> SUFFICES ASSUME DBInv, [DBNext]_db PROVE DBInv'
  OBVIOUS
<1>1. db \in Database /\ RowsKeyed
  BY DEF DBInv, DBTypeOK
<1> DEFINE Preserved == DBTypeOK' /\ RowsKeyed'
<1>2. ASSUME NEW w \in RDTWorkLoad, ValidateWorkload(db, w), NextIdExists(db, w),
             db' = CreateWorkload(db, w)
      PROVE  Preserved
  <2> DEFINE k == CreatedId(db, w)
  <2>1. /\ db' \in Database /\ k \in Ids
        /\ RowIds(db') = RowIds(db) \cup {k}
        /\ db'.rows[k].id = k
        /\ \A i \in Ids \ {k} : db'.rows[i] = db.rows[i]
    BY <1>1, <1>2, CreateEffect
  <2> HIDE DEF k
  <2>2. \A i \in RowIds(db) \ {k} : i \in Ids /\ db'.rows[i] = db.rows[i]
    BY <2>1 DEF RowIds
  <2>3. RowsKeyed'
    BY <1>1, <2>1, <2>2 DEF RowsKeyed
  <2> QED BY <2>1, <2>3 DEF DBTypeOK
<1>3. ASSUME NEW id \in RowIds(db), db' = DeleteWorkload(db, db.rows[id])
      PROVE  Preserved
  <2>1. db.rows[id] \in RDTWorkLoad
    BY <1>1, DatabaseFields
  <2>2. /\ db' \in Database /\ RowIds(db') \subseteq RowIds(db)
        /\ \A i \in RowIds(db') : db'.rows[i] = db.rows[i]
    BY <1>1, <1>3, <2>1, DeleteEffect
  <2> QED BY <1>1, <2>2 DEF DBTypeOK, RowsKeyed
<1>4. ASSUME NEW id \in RowIds(db), NEW w \in RDTWorkLoad,
             db' = UpdateWorkload(db, w), w.id = db.rows[id].id
      PROVE  Preserved
  <2>1. /\ db' \in Database /\ RowIds(db') = RowIds(db) /\ w.id = id
        /\ db'.rows[id] = w /\ \A i \in Ids \ {id} : db'.rows[i] = db.rows[i]
    BY <1>4, UpdateInPlace
  <2>2. \A i \in RowIds(db) : db'.rows[i].id = db.rows[i].id
    BY <1>4, <2>1 DEF RowIds
  <2> QED BY <1>1, <2>1, <2>2 DEF DBTypeOK, RowsKeyed
<1>5. CASE UNCHANGED db
  BY <1>1, <1>5 DEF DBInv, DBTypeOK, RowsKeyed
<1>6. CASE DBNext
  <2> HIDE DEF Preserved
  <2>1. Preserved
    BY <1>1, <1>2, <1>3, <1>4, <1>6, ThreeTransactions DEF DBTypeOK
  <2> QED BY <2>1 DEF Preserved, DBInv
<1> QED BY <1>5, <1>6

(* The database is well typed: in particular the next id of the sequence   *)
(* never leaves the ids, and what DeleteWorkload and UpdateWorkload write  *)
(* is a row.                                                               *)
THEOREM DatabaseTypeCorrect == DBSpec => []DBTypeOK
<1>1. DBInv => DBTypeOK
  BY DEF DBInv
<1> QED BY <1>1, DBInitInv, DBStepInv, PTL DEF DBSpec

-----------------------------------------------------------------------------
(* Neither creating nor deleting a workload makes two stored workloads     *)
(* share a member.                                                         *)
LEMMA SharingIsOld ==
  ASSUME DBTypeOK,
         \/ \E w \in RDTWorkLoad :
               /\ w.id \in PostIds \cup {NoId}
               /\ ValidateWorkload(db, w) /\ NextIdExists(db, w)
               /\ db' = CreateWorkload(db, w)
         \/ \E id \in RowIds(db) : db' = DeleteWorkload(db, db.rows[id]),
         NEW i \in RowIds(db'), NEW j \in RowIds(db'), i # j, Share(db', i, j)
  PROVE  {i, j} \subseteq RowIds(db) /\ Share(db, i, j)
<1>1. db \in Database /\ RowIds(db) \subseteq Ids
  BY DEF DBTypeOK, RowIds
<1>2. ASSUME NEW w \in RDTWorkLoad, ValidateWorkload(db, w), NextIdExists(db, w),
             db' = CreateWorkload(db, w)
      PROVE  {i, j} \subseteq RowIds(db) /\ Share(db, i, j)
  <2> DEFINE k == CreatedId(db, w)
  <2>1. /\ RowIds(db') = RowIds(db) \cup {k}
        /\ db'.rows[k].tasks = w.tasks /\ db'.rows[k].cores = w.cores
        /\ \A m \in Ids \ {k} : db'.rows[m] = db.rows[m]
    BY <1>1, <1>2, CreateEffect
  <2> HIDE DEF k
  <2>2. \A m \in RowIds(db) : /\ db.rows[m].tasks \cap w.tasks = {}
                              /\ db.rows[m].cores \cap w.cores = {}
    BY <1>2 DEF ValidateWorkload
  <2>3. \A m \in RowIds(db') \ {k} : m \in RowIds(db) /\ db'.rows[m] = db.rows[m]
    BY <1>1, <2>1
  <2>4. \A m \in RowIds(db') \ {k} : ~Share(db', k, m) /\ ~Share(db', m, k)
    BY <2>1, <2>2, <2>3 DEF Share
  <2>5. i # k /\ j # k
    BY <2>4
  <2> QED BY <2>3, <2>5 DEF Share
<1>3. ASSUME NEW id \in RowIds(db), db' = DeleteWorkload(db, db.rows[id])
      PROVE  {i, j} \subseteq RowIds(db) /\ Share(db, i, j)
  <2>1. db.rows[id] \in RDTWorkLoad
    BY <1>1, DatabaseFields
  <2>2. /\ RowIds(db') \subseteq RowIds(db)
        /\ \A m \in RowIds(db') : db'.rows[m] = db.rows[m]
    BY <1>1, <1>3, <2>1, DeleteEffect
  <2> QED BY <2>2 DEF Share
<1> QED BY <1>2, <1>3

(* When validating and creating are not interleaved with other requests,   *)
(* nothing but a PATCH of its members makes a stored workload share a task *)
(* or a core with another: for any requests, patches and ids, after any    *)
(* earlier PATCHes, and even if a generated id hits a row that is there.   *)
THEOREM SharingNeedsAPatch == DBSpec => SharedOnlyByPatch
<1> DEFINE Old == \/ \E id \in Ids, p \in Patches : ReadAndUpdate(id, p)
                  \/ \A i, j \in RowIds(db') :
                        i # j /\ Share(db', i, j) =>
                           {i, j} \subseteq RowIds(db) /\ Share(db, i, j)
<1>1. DBInv /\ [DBNext]_db => [Old]_db
  <2> SUFFICES ASSUME DBInv, DBNext PROVE Old
    OBVIOUS
  <2> QED BY ThreeTransactions, SharingIsOld DEF DBInv
<1> QED BY <1>1, DBInitInv, DBStepInv, PTL DEF DBSpec, SharedOnlyByPatch

(* No task and no core is ever in two stored workloads where no PATCH      *)
(* names members: then the check of validateWorkload is enough.            *)
THEOREM StoredMembersAreUnique ==
  ASSUME \A p \in Patches : p.tasks = {} /\ p.cores = {}
  PROVE  DBSpec => []MembersUnique
<1> DEFINE Inv == DBInv /\ MembersUnique
<1>1. DBInit => Inv
  <2>1. DBInit => RowIds(db) = {}
    BY DEF DBInit, EmptyDatabase, RowIds
  <2> QED BY <2>1, DBInitInv DEF MembersUnique
<1>2. Inv /\ [DBNext]_db => Inv'
  <2> SUFFICES ASSUME DBInv, MembersUnique, [DBNext]_db PROVE MembersUnique'
    BY DBStepInv
  <2>1. CASE UNCHANGED db
    BY <2>1 DEF MembersUnique, Share
  <2>2. ASSUME NEW id \in RowIds(db), NEW w \in RDTWorkLoad,
               db' = UpdateWorkload(db, w), w.id = db.rows[id].id,
               w.tasks = db.rows[id].tasks, w.cores = db.rows[id].cores
        PROVE  MembersUnique'
    <3>1. /\ RowIds(db') = RowIds(db) /\ db'.rows[id] = w
          /\ \A i \in Ids \ {id} : db'.rows[i] = db.rows[i]
      BY <2>2, UpdateInPlace
    <3>2. \A i \in RowIds(db) : /\ db'.rows[i].tasks = db.rows[i].tasks
                                /\ db'.rows[i].cores = db.rows[i].cores
      BY <2>2, <3>1 DEF RowIds
    <3> QED BY <3>1, <3>2 DEF MembersUnique, Share
  <2>3. CASE /\ ~ \E id \in RowIds(db), w \in RDTWorkLoad :
                     /\ db' = UpdateWorkload(db, w) /\ w.id = db.rows[id].id
                     /\ w.tasks = db.rows[id].tasks /\ w.cores = db.rows[id].cores
             /\ DBNext
    <3> SUFFICES ASSUME NEW i \in RowIds(db'), NEW j \in RowIds(db'), i # j,
                        Share(db', i, j)
                 PROVE  FALSE
      BY DEF MembersUnique
    <3>1. DBTypeOK
      BY DEF DBInv
    <3>2. {i, j} \subseteq RowIds(db) /\ Share(db, i, j)
      BY <2>3, <3>1, ThreeTransactions, SharingIsOld
    <3> QED BY <3>2 DEF MembersUnique
  <2> QED BY <2>1, <2>2, <2>3
<1>3. Inv => MembersUnique
  OBVIOUS
<1> QED BY <1>1, <1>2, <1>3, PTL DEF DBSpec

-----------------------------------------------------------------------------
(* Ids that no client posts are generated once: a row in the range of the  *)
(* sequence that has such an id was put there by it.                       *)
GeneratedIdsNew == \A i \in RowIds(db) \ PostIds : i <= MaxSeq => i <= db.seq

RowsOfSequence == \A i \in RowIds(db) \ PostIds : i <= MaxSeq

MappingInv == DBInv /\ GeneratedIdsNew /\ RowsOfSequence /\ MappingSound

(* Creating a workload meets a row only where a client has posted the id.  *)
LEMMA CreatedIdIsNew ==
  ASSUME DBTypeOK, GeneratedIdsNew, RowsOfSequence,
         NEW w \in RDTWorkLoad, ValidateWorkload(db, w), NextIdExists(db, w)
  PROVE  CreatedId(db, w) \in RowIds(db) => w.id = NoId /\ CreatedId(db, w) \in PostIds
<1>1. db.seq \in Nat /\ MaxSeq \in Nat
  BY DatabaseFields, IdsAssumption DEF DBTypeOK
<1>2. CASE w.id = NoId
  BY <1>1, <1>2 DEF CreatedId, NextIdExists, GeneratedIdsNew, RowsOfSequence
<1>3. CASE w.id # NoId
  BY <1>3 DEF CreatedId, ValidateWorkload
<1> QED BY <1>2, <1>3

(* The empty database.                                                     *)
LEMMA MappingInitInv == DBInit => MappingInv
<1> SUFFICES ASSUME DBInit PROVE MappingInv
  OBVIOUS
<1>1. RowIds(db) = {} /\ \A u \in UUIDs : db.mapping[u] = NoId
  BY DEF DBInit, EmptyDatabase, RowIds
<1>2. NoId \notin Ids
  BY IdsAssumption DEF Ids
<1> QED BY <1>1, <1>2, DBInitInv
        DEF MappingInv, GeneratedIdsNew, RowsOfSequence, MappingSound

(* Creating a workload keeps the two buckets in agreement.                 *)
LEMMA MappingCreateInv ==
  ASSUME MappingInv, NEW w \in RDTWorkLoad, w.id \in PostIds \cup {NoId},
         ValidateWorkload(db, w), NextIdExists(db, w), db' = CreateWorkload(db, w)
  PROVE  GeneratedIdsNew' /\ RowsOfSequence' /\ MappingSound'
<1>1. /\ db \in Database /\ DBTypeOK /\ RowsKeyed
      /\ GeneratedIdsNew /\ RowsOfSequence /\ MappingSound
  BY DEF MappingInv, DBInv, DBTypeOK
<1>2. NoId \notin Ids /\ NoUUID \notin UUIDs /\ RowIds(db) \subseteq Ids
  BY IdsAssumption, NoUUIDAssumption DEF Ids, RowIds
<1> DEFINE k == CreatedId(db, w)
<1>3. /\ RowIds(db') = RowIds(db) \cup {k} /\ k \in Ids
      /\ db'.rows[k].uuid = w.uuid
      /\ \A i \in Ids \ {k} : db'.rows[i] = db.rows[i]
      /\ \A u \in UUIDs : db'.mapping[u] = IF u = w.uuid THEN k ELSE db.mapping[u]
      /\ w.id = NoId => db'.seq = db.seq + 1 /\ k = db.seq + 1
      /\ w.id # NoId => db'.seq = db.seq
  BY <1>1, CreateEffect
<1>4. /\ k \in RowIds(db) => k \in PostIds
      /\ w.id # NoId => k = w.id /\ k \in PostIds
      /\ w.id = NoId => db.seq < MaxSeq
  BY <1>1, CreatedIdIsNew DEF CreatedId, NextIdExists
<1> HIDE DEF k
<1>5. db.seq \in Nat /\ MaxSeq \in Nat /\ k \in Nat /\ Ids \subseteq Nat
  BY <1>1, <1>3, DatabaseFields, IdsAssumption DEF Ids
<1>6. GeneratedIdsNew' /\ RowsOfSequence'
  <2> SUFFICES ASSUME NEW i \in RowIds(db') \ PostIds
               PROVE  i <= MaxSeq /\ i <= db'.seq
    BY DEF GeneratedIdsNew, RowsOfSequence
  <2>1. CASE i = k
    BY <1>3, <1>4, <1>5, <2>1
  <2>2. CASE i \in RowIds(db)
    <3>1. i \in Nat /\ i <= db.seq /\ i <= MaxSeq
      BY <1>1, <1>2, <1>5, <2>2 DEF GeneratedIdsNew, RowsOfSequence
    <3> QED BY <1>3, <1>5, <3>1
  <2> QED BY <1>3, <2>1, <2>2
<1>7. \A i \in RowIds(db) : w.uuid # NoUUID => db.rows[i].uuid # w.uuid
  BY DEF ValidateWorkload
<1>8. ASSUME NEW u \in UUIDs, NEW i \in Ids
      PROVE  /\ i \in RowIds(db') /\ db'.rows[i].uuid = u => db'.mapping[u] = i
             /\ db'.mapping[u] = i /\ i \notin PostIds =>
                   i \in RowIds(db') /\ db'.rows[i].uuid = u
  <2>1. /\ i \in RowIds(db) /\ db.rows[i].uuid = u => db.mapping[u] = i
        /\ db.mapping[u] = i /\ i \notin PostIds => i \in RowIds(db) /\ db.rows[i].uuid = u
    BY <1>1 DEF MappingSound
  <2>2. CASE i = k
    BY <1>3, <1>4, <2>1, <2>2
  <2>3. CASE i # k /\ u = w.uuid
    BY <1>2, <1>3, <1>7, <2>1, <2>3
  <2>4. CASE i # k /\ u # w.uuid
    BY <1>3, <2>1, <2>4
  <2> QED BY <2>2, <2>3, <2>4
<1> QED BY <1>6, <1>8 DEF MappingSound

(* Every transaction does.                                                 *)
LEMMA MappingStepInv == MappingInv /\ [DBNext]_db => MappingInv'
<1> SUFFICES ASSUME MappingInv, [DBNext]_db PROVE MappingInv'
  OBVIOUS
<1>1. /\ db \in Database /\ DBTypeOK /\ RowsKeyed /\ DBInv
      /\ GeneratedIdsNew /\ RowsOfSequence /\ MappingSound
  BY DEF MappingInv, DBInv, DBTypeOK
<1>2. DBInv'
  BY DBStepInv DEF MappingInv
<1>3. NoId \notin Ids /\ NoUUID \notin UUIDs /\ RowIds(db) \subseteq Ids
  BY IdsAssumption, NoUUIDAssumption DEF Ids, RowIds
<1> DEFINE Preserved == GeneratedIdsNew' /\ RowsOfSequence' /\ MappingSound'
<1>4. ASSUME NEW w \in RDTWorkLoad, w.id \in PostIds \cup {NoId},
             ValidateWorkload(db, w), NextIdExists(db, w),
             db' = CreateWorkload(db, w)
      PROVE  Preserved
  BY <1>4, MappingCreateInv
<1>5. ASSUME NEW id \in RowIds(db), db' = DeleteWorkload(db, db.rows[id])
      PROVE  Preserved
  <2> DEFINE w == db.rows[id]
  <2>1. w \in RDTWorkLoad /\ w.id = id
    BY <1>1, DatabaseFields DEF RowsKeyed
  <2>2. /\ RowIds(db') = RowIds(db) \ {w.id}
        /\ \A i \in RowIds(db') : db'.rows[i] = db.rows[i]
        /\ \A u \in UUIDs : db'.mapping[u] = IF u = w.uuid THEN NoId ELSE db.mapping[u]
        /\ db'.seq = db.seq
    BY <1>1, <1>5, <2>1, DeleteEffect
  <2>3. GeneratedIdsNew' /\ RowsOfSequence'
    BY <1>1, <2>2 DEF GeneratedIdsNew, RowsOfSequence
  <2>4. ASSUME NEW u \in UUIDs, NEW i \in Ids
        PROVE  /\ i \in RowIds(db') /\ db'.rows[i].uuid = u => db'.mapping[u] = i
               /\ db'.mapping[u] = i /\ i \notin PostIds =>
                     i \in RowIds(db') /\ db'.rows[i].uuid = u
    <3>1. \A j \in Ids :
             /\ j \in RowIds(db) /\ db.rows[j].uuid = u => db.mapping[u] = j
             /\ db.mapping[u] = j /\ j \notin PostIds =>
                   j \in RowIds(db) /\ db.rows[j].uuid = u
      BY <1>1 DEF MappingSound
    <3>2. id \in Ids /\ (u = w.uuid => db.mapping[u] = id)
      BY <1>3, <3>1
    <3>3. CASE u = w.uuid
      BY <1>3, <2>1, <2>2, <3>1, <3>2, <3>3
    <3>4. CASE u # w.uuid
      BY <2>1, <2>2, <3>1, <3>2, <3>4
    <3> QED BY <3>3, <3>4
  <2> QED BY <2>3, <2>4 DEF MappingSound
<1>6. ASSUME NEW id \in RowIds(db), NEW w \in RDTWorkLoad,
             db' = UpdateWorkload(db, w), w.id = db.rows[id].id,
             w.uuid = db.rows[id].uuid
      PROVE  Preserved
  <2>1. /\ RowIds(db') = RowIds(db) /\ db'.rows[id] = w
        /\ \A i \in Ids \ {id} : db'.rows[i] = db.rows[i]
        /\ db'.mapping = db.mapping /\ db'.seq = db.seq
    BY <1>1, <1>6, UpdateInPlace
  <2>2. \A i \in RowIds(db) : db'.rows[i].uuid = db.rows[i].uuid
    BY <1>3, <1>6, <2>1
  <2> QED BY <1>1, <2>1, <2>2 DEF GeneratedIdsNew, RowsOfSequence, MappingSound
<1>7. CASE UNCHANGED db
  BY <1>1, <1>2, <1>7 DEF MappingInv, GeneratedIdsNew, RowsOfSequence, MappingSound
<1>8. CASE DBNext
  <2> HIDE DEF Preserved
  <2>1. Preserved
    BY <1>1, <1>4, <1>5, <1>6, <1>8, ThreeTransactions
  <2> QED BY <1>2, <2>1 DEF Preserved, MappingInv
<1> QED BY <1>7, <1>8

(* Whatever ids clients post, also those the sequence generates later: the *)
(* UUID of a stored workload is mapped to it, so that a delete             *)
(* notification finds the workload of its instance, and at an id that no   *)
(* client has posted it finds no other.                                    *)
THEOREM MappingIsSound == DBSpec => []MappingSound
<1>1. MappingInv => MappingSound
  BY DEF MappingInv
<1> QED BY <1>1, MappingInitInv, MappingStepInv, PTL DEF DBSpec

(* Creating a workload replaces no stored workload but one whose id a      *)
(* client has posted, and that only with an id of the sequence: the check  *)
(* of posted ids in validateWorkload and the sequence of the bucket do for *)
(* all other ids what their comments promise.                              *)
THEOREM CreateNeverOverwrites == DBSpec => CreateKeepsOthers
<1> DEFINE Keeps ==
      \A r \in Requests, id \in PostIds \cup {NoId}, u \in UUIDs \cup {NoUUID} :
         ValidateAndCreate(r, id, u) =>
            \A i \in RowIds(db) : \/ db'.rows[i] = db.rows[i]
                                  \/ id = NoId /\ i \in PostIds
<1>1. MappingInv /\ [DBNext]_db => [Keeps]_db
  <2> SUFFICES ASSUME MappingInv, NEW r \in Requests, NEW id \in PostIds \cup {NoId},
                      NEW u \in UUIDs \cup {NoUUID}, ValidateAndCreate(r, id, u),
                      NEW i \in RowIds(db), db'.rows[i] # db.rows[i]
               PROVE  id = NoId /\ i \in PostIds
    OBVIOUS
  <2>1. db \in Database /\ DBTypeOK /\ GeneratedIdsNew /\ RowsOfSequence /\ i \in Ids
    BY DEF MappingInv, DBInv, DBTypeOK, RowIds
  <2>2. PICK w \in RDTWorkLoad :
             /\ w.id = id /\ ValidateWorkload(db, w) /\ NextIdExists(db, w)
             /\ db' = CreateWorkload(db, w)
    BY <2>1, CreatedWorkload
  <2>3. \A j \in Ids \ {CreatedId(db, w)} : db'.rows[j] = db.rows[j]
    BY <2>1, <2>2, CreateEffect
  <2>4. i = CreatedId(db, w)
    BY <2>1, <2>3
  <2> QED BY <2>1, <2>2, <2>4, CreatedIdIsNew
<1> QED BY <1>1, MappingInitInv, MappingStepInv, PTL DEF DBSpec, CreateKeepsOthers
=============================================================================
