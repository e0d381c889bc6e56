--------------------------- MODULE WorkloadDBCalls ---------------------------
(***************************************************************************)
(* The workload database used by one caller at a time, the way the         *)
(* handlers use it when they do not overlap: a workload is created right   *)
(* after it was validated, and a workload is deleted or updated right      *)
(* after it was read by its id or UUID.  (The class of service, of which   *)
(* the database knows nothing, stays empty.)                               *)
(***************************************************************************)
EXTENDS WorkloadDB

CONSTANTS PostIds,   \* the ids that clients put into their requests
          Requests,  \* what clients POST
          Patches    \* what clients PATCH

ASSUME PostIdsAssumption == PostIds \subseteq Ids
ASSUME RequestsAssumption == Requests \cup Patches \subseteq Request

VARIABLE db

DBInit == db = EmptyDatabase

(* POST with or without an id; a create notification, which has a UUID.    *)
ValidateAndCreate(r, id, uuid) ==
  LET w == FilledByPolicy(NewRDTWorkLoad(r, id, uuid, "REST"))
  IN  /\ ValidateWorkload(db, w)
      /\ NextIdExists(db, w)
      /\ db' = CreateWorkload(db, w)

(* DELETE /workloads/{id}, or the validator dropping a workload.           *)
ReadAndDelete(id) ==
  /\ id \in RowIds(db)
  /\ db' = DeleteWorkload(db, GetWorkloadByID(db, id))

(* A delete notification.                                                  *)
FindAndDelete(uuid) ==
  /\ GetWorkloadByUUID(db, uuid) # NoRow
  /\ db' = DeleteWorkload(db, GetWorkloadByUUID(db, uuid))

(* PATCH.  Members are replaced, and compared with those of no other row,  *)
(* when a parameter changes as well; a patch that changes only them is     *)
(* refused, since it is validated as if it were a POST with a stored id.   *)
ReadAndUpdate(id, p) ==
  /\ id \in RowIds(db)
  /\ LET w == db.rows[id]
     IN  \/ reEnforce(w, p) /\ db' = UpdateWorkload(db, Patched(w, p))
         \/ /\ ~reEnforce(w, p) /\ ~MembersDiffer(w, p)
            /\ db' = UpdateWorkload(db, Merged(w, p))

DBNext ==
  \/ \E r \in Requests, id \in PostIds \cup {NoId}, u \in UUIDs \cup {NoUUID} :
        ValidateAndCreate(r, id, u)
  \/ \E id \in Ids : ReadAndDelete(id)
  \/ \E u \in UUIDs : FindAndDelete(u)
  \/ \E id \in Ids, p \in Patches : ReadAndUpdate(id, p)

DBSpec == DBInit /\ [][DBNext]_db

-----------------------------------------------------------------------------
DBTypeOK == db \in Database

(* The two buckets agree: the UUID of a stored workload is mapped to its   *)
(* id, so a delete notification finds the workload of its instance; and a  *)
(* UUID that is mapped to an id is that of the workload stored there, so   *)
(* it finds no other.  (Only an id that a client has posted may be         *)
(* generated once more, for a workload that then replaces the first and    *)
(* leaves the UUID of the first behind in the mapping.)                    *)
MappingSound ==
  \A u \in UUIDs, i \in Ids :
     /\ i \in RowIds(db) /\ db.rows[i].uuid = u => db.mapping[u] = i
     /\ db.mapping[u] = i /\ i \notin PostIds => i \in RowIds(db) /\ db.rows[i].uuid = u

Share(d, i, j) == \/ d.rows[i].tasks \cap d.rows[j].tasks # {}
                  \/ d.rows[i].cores \cap d.rows[j].cores # {}

(* No task and no core belongs to two stored workloads, which is what      *)
(* validating against the database before creating is for.  (A PATCH that  *)
(* names members, update being the code that replaces them, breaks it.)    *)
MembersUnique == \A i, j \in RowIds(db) : i # j => ~Share(db, i, j)

(* Nothing but a PATCH makes two stored workloads share a task or a core:  *)
(* neither a POST, nor a notification, nor a workload that is created with *)
(* a generated id that is there already, whatever PATCHes did before.      *)
SharedOnlyByPatch ==
  [][\/ \E id \in Ids, p \in Patches : ReadAndUpdate(id, p)
     \/ \A i, j \in RowIds(db') :
           i # j /\ Share(db', i, j) => {i, j} \subseteq RowIds(db) /\ Share(db, i, j)]_db

(* Creating a workload leaves all others as they are, as the check         *)
(* "Workload with id ... already exists" of validateWorkload promises for  *)
(* ids that are posted.  The one exception is a generated id: CreateWorkload *)
(* does not look whether a client has posted it before.                    *)
CreateKeepsOthers ==
  [][\A r \in Requests, id \in PostIds \cup {NoId}, u \in UUIDs \cup {NoUUID} :
       ValidateAndCreate(r, id, u) =>
          \A i \in RowIds(db) : \/ db'.rows[i] = db.rows[i]
                                \/ id = NoId /\ i \in PostIds]_db
=============================================================================
