----------------------------- MODULE WorkloadDB -----------------------------
(***************************************************************************)
(* The workload database (internal/db/boltdb.go, db.go): a bucket from     *)
(* workload id to workload, a bucket from OpenStack UUID to workload id,   *)
(* and the sequence of the first bucket, from which ids are generated.     *)
(* Each function is one bolt transaction, so it is one operator from a     *)
(* database d = [rows, mapping, seq] to a database.  Nothing but the       *)
(* caller connects ValidateWorkload with CreateWorkload.                   *)
(***************************************************************************)
EXTENDS Workload

Database == [rows    : [Ids -> RDTWorkLoad \cup {NoRow}],
             mapping : [UUIDs -> Ids \cup {NoId}],
             seq     : 0 .. MaxSeq]

EmptyDatabase == [rows    |-> [i \in Ids |-> NoRow],
                  mapping |-> [u \in UUIDs |-> NoId],
                  seq     |-> 0]

RowIds(d) == {i \in Ids : d.rows[i] # NoRow}

(* Mutants of ValidateWorkload: cores or the id are not compared.          *)
ValidateWithoutCores(d, w) ==
  /\ w.id # NoId => w.id \notin RowIds(d)
  /\ \A i \in RowIds(d) : d.rows[i].uuid # w.uuid \/ w.uuid = NoUUID
  /\ \A i \in RowIds(d) : d.rows[i].tasks \cap w.tasks = {}

ValidateWithoutId(d, w) ==
  /\ w.id # NoId \/ w.tasks # {} \/ w.cores # {}
  /\ \A i \in RowIds(d) :
        /\ w.uuid # NoUUID => d.rows[i].uuid # w.uuid
        /\ d.rows[i].tasks \cap w.tasks = {}
        /\ d.rows[i].cores \cap w.cores = {}

(* validateWorkload: the posted id and UUID are new, and no stored         *)
(* workload has one of the tasks or cores.                                 *)
ValidateWorkload(d, w) ==
  /\ w.id # NoId \/ w.tasks # {} \/ w.cores # {}
  /\ w.id # NoId => w.id \notin RowIds(d)
  /\ \A i \in RowIds(d) :
        /\ w.uuid # NoUUID => d.rows[i].uuid # w.uuid
        /\ d.rows[i].tasks \cap w.tasks = {}
        /\ d.rows[i].cores \cap w.cores = {}

(* A workload without id gets the next number of the bucket's sequence.    *)
(* The model ends where the sequence leaves its bound.                     *)
NextIdExists(d, w) == w.id = NoId => d.seq < MaxSeq

CreatedId(d, w) == IF w.id = NoId THEN d.seq + 1 ELSE w.id

(* Mutant of CreateWorkload: a posted id uses up a number as well.         *)
CreateAlwaysCounts(d, w) ==
  [rows    |-> [d.rows EXCEPT ![CreatedId(d, w)] = [w EXCEPT !.id = CreatedId(d, w)]],
   mapping |-> IF w.uuid # NoUUID THEN [d.mapping EXCEPT ![w.uuid] = CreatedId(d, w)]
               ELSE d.mapping,
   seq     |-> d.seq + 1]

CreateWorkload(d, w) ==
  LET id == CreatedId(d, w)
  IN  [rows    |-> [d.rows EXCEPT ![id] = [w EXCEPT !.id = id]],
       mapping |-> IF w.uuid # NoUUID THEN [d.mapping EXCEPT ![w.uuid] = id]
                   ELSE d.mapping,
       seq     |-> IF w.id = NoId THEN d.seq + 1 ELSE d.seq]

(* Mutant of DeleteWorkload: the mapping bucket is left alone.             *)
DeleteRowOnly(d, w) ==
  [d EXCEPT !.rows = IF w.id # NoId THEN [d.rows EXCEPT ![w.id] = NoRow] ELSE d.rows]

(* Deleting by the workload's id and UUID, whatever is stored there; the   *)
(* empty id is the key of nothing.                                         *)
DeleteWorkload(d, w) ==
  [rows    |-> IF w.id # NoId THEN [d.rows EXCEPT ![w.id] = NoRow] ELSE d.rows,
   mapping |-> IF w.uuid # NoUUID THEN [d.mapping EXCEPT ![w.uuid] = NoId]
               ELSE d.mapping,
   seq     |-> d.seq]

UpdateWorkload(d, w) ==
  [rows |-> [d.rows EXCEPT ![w.id] = w], mapping |-> d.mapping, seq |-> d.seq]

GetWorkloadByID(d, id) == d.rows[id]

GetWorkloadByUUID(d, uuid) ==
  IF d.mapping[uuid] = NoId THEN NoRow ELSE d.rows[d.mapping[uuid]]
=============================================================================
