------------------------- MODULE NovaListenerProofs -------------------------
(***************************************************************************)
(* NoGhosts and CoresFollowRows for any instances, any length of the queue *)
(* and any number of crashes and failures of the services.                 *)
(*                                                                         *)
(* NoGhosts says something only when the queue is empty.  What holds at    *)
(* all times is GhostsAnnounced: the workload of an instance that is gone  *)
(* has its delete notification still ahead.  For this the queue must be in *)
(* the order in which Nova sends, the listener must work on the head of    *)
(* the queue, and the two buckets of the database must agree.              *)
(***************************************************************************)
EXTENDS NovaListener, PoolAndDBLemmas

Creating == {"lookup", "policy", "renew", "again", "enforce", "create"}
Deleting == {"find", "release", "delete"}

Is(j, type, u) == queue[j].type = type /\ queue[j].uuid = u

NovaTypes ==
  /\ queue \in Seq(Message)
  /\ running \subseteq launched /\ launched \subseteq UUIDs
  /\ db \in Database
  /\ hand \in RDTWorkLoad \cup {NoRow}
  /\ group \in [UUIDs -> ClosName]
  /\ crashes \in Nat

\* The listener works on the head of the queue.
HeadMatches ==
  /\ InHand => queue # <<>>
  /\ pc \in Creating => queue[1].type = "instance.create.end"
  /\ pc \in Deleting => queue[1].type = "instance.delete.end"
  /\ pc \in Creating \cup Deleting => queue[1].uuid \notin Foreign

\* What it carries is still what it has to store, or what is stored.
HandMatches ==
  /\ pc = "create" => /\ hand \in RDTWorkLoad /\ hand.id = NoId
                      /\ hand.uuid = queue[1].uuid /\ ~Stored(hand.uuid)
  /\ pc \in {"release", "delete"} =>
        hand.id \in RowIds(db) /\ hand = db.rows[hand.id] /\ hand.uuid = queue[1].uuid

RowsSound ==
  /\ \A u \in UUIDs, i \in Ids : db.mapping[u] = i <=> i \in RowIds(db) /\ db.rows[i].uuid = u
  /\ \A i \in RowIds(db) : /\ db.rows[i].id = i /\ i <= db.seq
                           /\ db.rows[i].uuid \in UUIDs \ Foreign

\* Notifications of an instance are in the order in which Nova sends them.
QueueOrdered ==
  /\ \A j \in 1 .. Len(queue) :
        /\ queue[j].uuid \in launched
        /\ queue[j].type = "instance.delete.end" => queue[j].uuid \notin running
        /\ queue[j].type = "instance.create.end" /\ queue[j].uuid \notin running =>
              \E k \in 1 .. Len(queue) : Is(k, "instance.delete.end", queue[j].uuid)
  /\ \A j, k \in 1 .. Len(queue) :
        /\ queue[j].type = "instance.create.end"
        /\ Is(k, "instance.delete.end", queue[j].uuid)
        => j < k

GhostsAnnounced ==
  \A u \in UUIDs \ Plugged : Stored(u) /\ u \notin running =>
     \E j \in 1 .. Len(queue) : Is(j, "instance.delete.end", u) /\ (pc = "ack" => j > 1)

NovaInv == /\ NovaTypes /\ HeadMatches /\ HandMatches /\ RowsSound
           /\ QueueOrdered /\ GhostsAnnounced

\* Where the cores of an instance are, before its row is written, before it is
\* deleted, and otherwise.
CoresInv ==
  crashes = 0 => \A u \in UUIDs \ Plugged :
     IF pc = "create" /\ hand.uuid = u THEN group[u] = hand.cos
     ELSE IF pc = "delete" /\ hand.uuid = u THEN group[u] = NoClos
     ELSE \A c \in PoolClos :
            group[u] = c <=> \E i \in RowIds(db) : db.rows[i].uuid = u /\ db.rows[i].cos = c

-----------------------------------------------------------------------------
(* A queue that is not empty has a head.                                   *)
LEMMA HeadOfQueue ==
  ASSUME queue \in Seq(Message), queue # <<>>
  PROVE  /\ Head(queue) = queue[1] /\ queue[1] \in Message
         /\ queue[1].uuid \in UUIDs /\ Len(queue) \in Nat /\ 1 \in 1 .. Len(queue)
         /\ queue[1].type \in {"instance.create.end", "instance.delete.end"}
<1>1. Len(queue) \in Nat /\ Len(queue) >= 1 /\ Head(queue) = queue[1] /\ queue[1] \in Message
  OBVIOUS
<1> QED BY <1>1 DEF Message

(* Each instance has at most one row, at the id to which it is mapped.     *)
LEMMA OneRow ==
  ASSUME NovaTypes, RowsSound, NEW i \in RowIds(db)
  PROVE  /\ i \in Ids /\ db.rows[i] \in RDTWorkLoad /\ db.rows[i].id = i
         /\ db.rows[i].uuid \in UUIDs
         /\ \A k \in RowIds(db) : db.rows[k].uuid = db.rows[i].uuid => k = i
<1>1. /\ i \in Ids /\ db.rows[i] \in RDTWorkLoad /\ db.rows[i].id = i
      /\ db.rows[i].uuid \in UUIDs
  BY DatabaseFields DEF NovaTypes, RowsSound
<1>2. \A k \in RowIds(db) : k \in Ids
  BY DatabaseFields DEF NovaTypes
<1>3. \A k \in RowIds(db) : db.mapping[db.rows[k].uuid] = k
  BY <1>2 DEF RowsSound
<1> QED BY <1>1, <1>3

(* Steps that only go on: to a state without a message in hand, to looking *)
(* at the head of the queue, or to acknowledging it when nothing can be    *)
(* stored for it.                                                          *)
LEMMA GoingOn ==
  ASSUME NovaInv, UNCHANGED <<queue, running, launched, group, db, hand, crashes>>,
         \/ pc' = pc
         \/ pc' \in {"down", "dial", "idle", "stopped"}
         \/ /\ queue # <<>> /\ queue[1].uuid \notin Foreign
            /\ \/ pc' \in Creating \ {"create"} /\ queue[1].type = "instance.create.end"
               \/ pc' = "find" /\ queue[1].type = "instance.delete.end"
         \/ /\ queue # <<>> /\ pc' = "ack"
            /\ \/ queue[1].type = "instance.create.end"
               \/ ~Stored(queue[1].uuid)
  PROVE  NovaInv'
<1>1. NovaTypes' /\ RowsSound' /\ \A u : Stored(u)' = Stored(u)
  BY DEF NovaInv, NovaTypes, RowsSound, Stored, RowIds
<1>2. HeadMatches' /\ HandMatches'
  BY <1>1 DEF NovaInv, HeadMatches, HandMatches, InHand, Creating, Deleting
<1>3. QueueOrdered'
  BY DEF NovaInv, QueueOrdered, Is
<1>4. GhostsAnnounced'
  <2> SUFFICES ASSUME NEW u \in UUIDs \ Plugged, Stored(u), u \notin running
               PROVE  \E j \in 1 .. Len(queue) :
                         Is(j, "instance.delete.end", u) /\ (pc' = "ack" => j > 1)
    BY <1>1 DEF GhostsAnnounced, Is
  <2>1. PICK j \in 1 .. Len(queue) : Is(j, "instance.delete.end", u) /\ (pc = "ack" => j > 1)
    BY DEF NovaInv, GhostsAnnounced
  <2>2. pc' = "ack" /\ pc # "ack" => j # 1
    BY <2>1 DEF Is, Creating
  <2>3. Len(queue) \in Nat
    BY DEF NovaInv, NovaTypes
  <2> QED BY <2>1, <2>2, <2>3
<1> QED BY <1>1, <1>2, <1>3, <1>4 DEF NovaInv

(* The workload that is made for an instance.                              *)
LEMMA InstanceType ==
  ASSUME NEW u \in UUIDs
  PROVE  Instance(u) \in RDTWorkLoad /\ Instance(u).uuid = u /\ Instance(u).id = NoId
<1>1. Pinning[u] \in SUBSET Cores
  BY InstancesAssumption
<1>2. NoClos \in ClosName /\ 1 \in WaysOrNil /\ NoMba \in Mba
  BY DEF ClosName, WaysOrNil, Mba, NoMba
<1>3. (u \in Plugged) \in BOOLEAN
  OBVIOUS
<1> QED BY <1>1, <1>2, <1>3 DEF Instance, NewRDTWorkLoad, RDTWorkLoad

(* EnforceInstance: what Validate has let through is not stored yet.       *)
LEMMA EnforceKeeps ==
  ASSUME NovaInv, EnforceInstance
  PROVE  NovaInv'
<1> DEFINE u == Head(queue).uuid
           w == Instance(u)
<1>1. /\ queue # <<>> /\ u = queue[1].uuid /\ u \in UUIDs /\ u \notin Foreign
      /\ queue[1].type = "instance.create.end" /\ u # NoUUID
  BY HeadOfQueue, NoUUIDAssumption DEF NovaInv, NovaTypes, HeadMatches, EnforceInstance, InHand, Creating
<1>2. w \in RDTWorkLoad /\ w.uuid = u /\ w.id = NoId
  BY <1>1, InstanceType
<1> HIDE DEF w
<1>3. CASE pc' = "ack" /\ UNCHANGED <<group, hand>>
  BY <1>1, <1>3, GoingOn DEF EnforceInstance, world
<1>4. ASSUME NEW c \in FreeClasses, NEW plugin \in PluginResults(w.uuid),
             ValidateWorkload(db, w),
             group' = [group EXCEPT ![w.uuid] = c],
             hand' = IF plugin THEN [w EXCEPT !.cos = c] ELSE NoRow,
             pc' = IF plugin THEN "create" ELSE "ack"
      PROVE  NovaInv'
  <2>1. UNCHANGED <<queue, db, crashes, running, launched>>
    BY DEF EnforceInstance, world
  <2>2. ~Stored(u)
    BY <1>1, <1>2, <1>4 DEF ValidateWorkload, Stored
  <2>3. c \in ClosName
    BY DEF FreeClasses, ClosName
  <2>4. /\ [w EXCEPT !.cos = c] \in RDTWorkLoad
        /\ [w EXCEPT !.cos = c].id = NoId /\ [w EXCEPT !.cos = c].uuid = u
    BY <1>2, <2>3 DEF RDTWorkLoad
  <2> DEFINE v == [w EXCEPT !.cos = c]
  <2> HIDE DEF v
  <2>5. hand' = IF plugin THEN v ELSE NoRow
    BY <1>4 DEF v
  <2>6. v \in RDTWorkLoad /\ v.id = NoId /\ v.uuid = u
    BY <2>4 DEF v
  <2>7. NovaTypes'
    BY <1>4, <2>1, <2>3, <2>5, <2>6 DEF NovaInv, NovaTypes
  <2>8. RowsSound' /\ \A x : Stored(x)' = Stored(x)
    BY <2>1 DEF NovaInv, RowsSound, Stored, RowIds
  <2>9. HeadMatches' /\ HandMatches'
    <3>1. hand' \in RDTWorkLoad /\ pc' = "create" => hand'.id = NoId /\ hand'.uuid = u
      BY <1>4, <2>5, <2>6, NoRowAssumption
    <3>2. pc' = "create" => hand' \in RDTWorkLoad
      BY <1>4, <2>5, <2>6
    <3> QED BY <1>1, <1>4, <2>1, <2>2, <2>8, <3>1, <3>2
            DEF HeadMatches, HandMatches, InHand, Creating, Deleting
  <2>10. QueueOrdered'
    BY <2>1 DEF NovaInv, QueueOrdered, Is
  <2>11. GhostsAnnounced'
    <3> SUFFICES ASSUME NEW x \in UUIDs \ Plugged, Stored(x), x \notin running
                 PROVE  \E j \in 1 .. Len(queue) :
                           Is(j, "instance.delete.end", x) /\ (pc' = "ack" => j > 1)
      BY <2>1, <2>8 DEF GhostsAnnounced, Is
    <3>1. PICK j \in 1 .. Len(queue) : Is(j, "instance.delete.end", x)
      BY DEF NovaInv, GhostsAnnounced
    <3>2. j # 1 /\ Len(queue) \in Nat
      BY <1>1, <3>1 DEF Is, NovaInv, NovaTypes
    <3> QED BY <3>1, <3>2
  <2> QED BY <2>7, <2>8, <2>9, <2>10, <2>11 DEF NovaInv
<1> QED BY <1>3, <1>4 DEF EnforceInstance, w

(* Create: the row gets a new id, and the instance, if it has ended, has   *)
(* its delete notification behind the create notification in hand.         *)
LEMMA CreateKeeps ==
  ASSUME NovaInv, Create
  PROVE  /\ NovaInv'
         /\ RowIds(db') = RowIds(db) \cup {db.seq + 1} /\ db.seq + 1 \notin RowIds(db)
         /\ db'.rows[db.seq + 1] = [hand EXCEPT !.id = db.seq + 1]
         /\ \A i \in RowIds(db) : db'.rows[i] = db.rows[i]
<1> DEFINE k == db.seq + 1
           u == hand.uuid
<1>1. /\ db \in Database /\ hand \in RDTWorkLoad /\ hand.id = NoId /\ ~Stored(u)
      /\ NextIdExists(db, hand) /\ db' = CreateWorkload(db, hand)
      /\ UNCHANGED <<queue, running, launched, group, crashes>> /\ hand' = NoRow /\ pc' = "ack"
  BY DEF NovaInv, NovaTypes, HandMatches, Create, world
<1>2. /\ queue # <<>> /\ u = queue[1].uuid /\ queue[1].type = "instance.create.end"
      /\ u \in UUIDs \ Foreign /\ u # NoUUID /\ 1 \in 1 .. Len(queue) /\ Len(queue) \in Nat
  BY HeadOfQueue, NoUUIDAssumption
     DEF NovaInv, NovaTypes, HeadMatches, HandMatches, Create, InHand, Creating
<1>3. k = CreatedId(db, hand)
  BY <1>1 DEF CreatedId
<1>4. /\ db' \in Database /\ k \in Ids
      /\ RowIds(db') = RowIds(db) \cup {k}
      /\ db'.rows[k].id = k /\ db'.rows[k].uuid = u
      /\ \A i \in Ids \ {k} : db'.rows[i] = db.rows[i]
      /\ \A x \in UUIDs : db'.mapping[x] = IF x = u THEN k ELSE db.mapping[x]
      /\ db'.seq = k
  BY <1>1, <1>3, CreateEffect
<1>5. db'.rows[k] = [hand EXCEPT !.id = k]
  BY <1>1, <1>3, CreateStores
<1>6. db.seq \in Nat /\ RowIds(db) \subseteq Ids /\ Ids \subseteq Nat
  BY <1>1, DatabaseFields, IdsAssumption DEF Ids
<1>7. k \notin RowIds(db)
  BY <1>6 DEF NovaInv, RowsSound
<1>8. \A i \in RowIds(db) : db'.rows[i] = db.rows[i]
  BY <1>4, <1>6, <1>7
<1> HIDE DEF k, u
<1>9. \A x \in UUIDs : Stored(x)' <=> Stored(x) \/ x = u
  BY <1>4, <1>7, <1>8 DEF Stored
<1>10. RowsSound'
  <2>1. ASSUME NEW x \in UUIDs, NEW i \in Ids
        PROVE  db'.mapping[x] = i <=> i \in RowIds(db') /\ db'.rows[i].uuid = x
    <3>1. db.mapping[x] = i <=> i \in RowIds(db) /\ db.rows[i].uuid = x
      BY DEF NovaInv, RowsSound
    <3>2. CASE x = u
      <4>1. ~(i \in RowIds(db) /\ db.rows[i].uuid = x)
        BY <1>1, <3>2 DEF Stored
      <4> QED BY <1>4, <3>2, <4>1
    <3>3. CASE x # u
      BY <1>4, <1>7, <3>1, <3>3
    <3> QED BY <3>2, <3>3
  <2>2. ASSUME NEW i \in RowIds(db')
        PROVE  db'.rows[i].id = i /\ i <= db'.seq /\ db'.rows[i].uuid \in UUIDs \ Foreign
    <3>1. CASE i = k
      BY <1>2, <1>4, <1>6, <3>1 DEF k
    <3>2. CASE i \in RowIds(db)
      <4>1. i \in Nat /\ i <= db.seq
        BY <1>6, <3>2 DEF NovaInv, RowsSound
      <4>2. i <= db'.seq
        BY <1>4, <1>6, <4>1 DEF k
      <4> QED BY <1>8, <3>2, <4>2 DEF NovaInv, RowsSound
    <3> QED BY <1>4, <3>1, <3>2
  <2> QED BY <2>1, <2>2 DEF RowsSound
<1>11. NovaTypes'
  BY <1>1, <1>4 DEF NovaInv, NovaTypes
<1>12. HeadMatches' /\ HandMatches'
  BY <1>1, <1>2 DEF HeadMatches, HandMatches, InHand, Creating, Deleting
<1>13. QueueOrdered'
  BY <1>1 DEF NovaInv, QueueOrdered, Is
<1>14. GhostsAnnounced'
  <2> SUFFICES ASSUME NEW x \in UUIDs \ Plugged, Stored(x) \/ x = u, x \notin running
               PROVE  \E j \in 1 .. Len(queue) : Is(j, "instance.delete.end", x) /\ j > 1
    BY <1>1, <1>9 DEF GhostsAnnounced, Is
  <2>1. \E j \in 1 .. Len(queue) : Is(j, "instance.delete.end", x)
    <3>1. CASE Stored(x)
      BY <3>1 DEF NovaInv, GhostsAnnounced
    <3>2. CASE x = u
      BY <1>2, <3>2 DEF NovaInv, QueueOrdered
    <3> QED BY <3>1, <3>2
  <2>2. PICK j \in 1 .. Len(queue) : Is(j, "instance.delete.end", x)
    BY <2>1
  <2>3. j # 1
    BY <1>2, <2>2 DEF Is
  <2> QED BY <1>2, <2>2, <2>3
<1>15. NovaInv'
  BY <1>10, <1>11, <1>12, <1>13, <1>14 DEF NovaInv
<1> QED BY <1>4, <1>5, <1>7, <1>8, <1>15 DEF k

(* Find: the workload that is found is the one row of the instance, and an *)
(* instance that is not found has none.                                    *)
LEMMA FindKeeps ==
  ASSUME NovaInv, Find
  PROVE  NovaInv'
<1> DEFINE u == queue[1].uuid
           i == db.mapping[u]
<1>1. /\ queue # <<>> /\ Head(queue) = queue[1] /\ u \in UUIDs \ Foreign
      /\ queue[1].type = "instance.delete.end"
  BY HeadOfQueue DEF NovaInv, NovaTypes, HeadMatches, Find, InHand, Deleting
<1>2. UNCHANGED <<queue, running, launched, group, db, crashes>>
  BY DEF Find, world
<1>3. CASE i = NoId
  <2>1. hand' = NoRow /\ pc' = "ack"
    BY <1>1, <1>3 DEF Find, GetWorkloadByUUID
  <2>2. ~Stored(u)
    <3>1. \A k \in RowIds(db) : k \in Ids /\ NoId \notin Ids
      BY IdsAssumption DEF RowIds, Ids
    <3> QED BY <1>1, <1>3, <3>1 DEF NovaInv, RowsSound, Stored
  <2>3. NovaTypes' /\ RowsSound' /\ \A x : Stored(x)' = Stored(x)
    BY <1>2, <2>1 DEF NovaInv, NovaTypes, RowsSound, Stored, RowIds
  <2>4. HeadMatches' /\ HandMatches' /\ QueueOrdered'
    BY <1>1, <1>2, <2>1 DEF NovaInv, HeadMatches, HandMatches, QueueOrdered, Is, InHand,
                            Creating, Deleting
  <2>5. GhostsAnnounced'
    <3> SUFFICES ASSUME NEW x \in UUIDs \ Plugged, Stored(x), x \notin running
                 PROVE  \E j \in 1 .. Len(queue) : Is(j, "instance.delete.end", x) /\ j > 1
      BY <1>2, <2>3 DEF GhostsAnnounced, Is
    <3>1. PICK j \in 1 .. Len(queue) : Is(j, "instance.delete.end", x)
      BY DEF NovaInv, GhostsAnnounced
    <3>2. j # 1 /\ Len(queue) \in Nat
      BY <2>2, <3>1 DEF Is, NovaInv, NovaTypes
    <3> QED BY <3>1, <3>2
  <2> QED BY <2>3, <2>4, <2>5 DEF NovaInv
<1>4. CASE i # NoId
  <2>1. i \in Ids
    BY <1>1, <1>4, DatabaseFields DEF NovaInv, NovaTypes
  <2>2. i \in RowIds(db) /\ db.rows[i].uuid = u
    BY <1>1, <2>1 DEF NovaInv, RowsSound
  <2>3. db.rows[i] \in RDTWorkLoad /\ db.rows[i].id = i /\ db.rows[i] # NoRow
    BY <2>2, OneRow, NoRowAssumption DEF NovaInv
  <2>4. hand' = db.rows[i] /\ pc' = "release"
    BY <1>1, <1>4, <2>3 DEF Find, GetWorkloadByUUID
  <2> HIDE DEF i
  <2>5. NovaTypes' /\ RowsSound' /\ \A x : Stored(x)' = Stored(x)
    BY <1>2, <2>3, <2>4 DEF NovaInv, NovaTypes, RowsSound, Stored, RowIds
  <2>6. HeadMatches' /\ HandMatches' /\ QueueOrdered'
    <3>1. HandMatches'
      BY <1>2, <2>2, <2>3, <2>4 DEF HandMatches, RowIds
    <3> QED BY <1>1, <1>2, <2>4, <3>1 DEF NovaInv, HeadMatches, QueueOrdered, Is, InHand,
                                          Creating, Deleting
  <2>7. GhostsAnnounced'
    BY <1>2, <2>4, <2>5 DEF NovaInv, GhostsAnnounced, Is
  <2> QED BY <2>5, <2>6, <2>7 DEF NovaInv
<1> QED BY <1>3, <1>4

(* ReleaseInstance: only a workload with plugins is acknowledged without   *)
(* being deleted.                                                          *)
LEMMA ReleaseKeeps ==
  ASSUME NovaInv, ReleaseInstance
  PROVE  NovaInv'
<1> DEFINE u == hand.uuid
<1>1. /\ queue # <<>> /\ queue[1].uuid = u /\ u \in UUIDs \ Foreign
      /\ queue[1].type = "instance.delete.end"
      /\ hand.id \in RowIds(db) /\ hand = db.rows[hand.id]
  BY HeadOfQueue DEF NovaInv, NovaTypes, HeadMatches, HandMatches, ReleaseInstance, InHand, Deleting
<1>2. UNCHANGED <<queue, running, launched, db, crashes>>
  BY DEF ReleaseInstance, world
<1>3. PICK plugin \in PluginResults(u) :
        /\ group' = IF plugin THEN [group EXCEPT ![u] = NoClos] ELSE group
        /\ hand' = IF plugin THEN hand ELSE NoRow
        /\ pc' = IF plugin THEN "delete" ELSE "ack"
  BY DEF ReleaseInstance
<1>4. plugin \/ u \in Plugged
  BY <1>3 DEF PluginResults
<1>5. NovaTypes' /\ RowsSound' /\ \A x : Stored(x)' = Stored(x)
  BY <1>1, <1>2, <1>3 DEF NovaInv, NovaTypes, RowsSound, Stored, RowIds, ClosName
<1>6. HeadMatches' /\ HandMatches' /\ QueueOrdered'
  BY <1>1, <1>2, <1>3 DEF NovaInv, HeadMatches, HandMatches, QueueOrdered, Is, InHand,
                          Creating, Deleting, RowIds
<1>7. GhostsAnnounced'
  <2> SUFFICES ASSUME NEW x \in UUIDs \ Plugged, Stored(x), x \notin running
               PROVE  \E j \in 1 .. Len(queue) :
                         Is(j, "instance.delete.end", x) /\ (pc' = "ack" => j > 1)
    BY <1>2, <1>5 DEF GhostsAnnounced, Is
  <2>1. PICK j \in 1 .. Len(queue) : Is(j, "instance.delete.end", x)
    BY DEF NovaInv, GhostsAnnounced
  <2>2. pc' = "ack" => j # 1
    BY <1>1, <1>3, <1>4, <2>1 DEF Is
  <2>3. Len(queue) \in Nat
    BY DEF NovaInv, NovaTypes
  <2> QED BY <2>1, <2>2, <2>3
<1> QED BY <1>5, <1>6, <1>7 DEF NovaInv

(* Delete: the instance has no row any more.                               *)
LEMMA DeleteKeeps ==
  ASSUME NovaInv, Delete
  PROVE  /\ NovaInv'
         /\ RowIds(db') = RowIds(db) \ {hand.id}
         /\ \A i \in RowIds(db') : db'.rows[i] = db.rows[i]
         /\ \A i \in RowIds(db) : db.rows[i].uuid = hand.uuid <=> i = hand.id
<1> DEFINE k == hand.id
           u == hand.uuid
<1>1. /\ queue # <<>> /\ queue[1].uuid = u /\ u \in UUIDs \ Foreign
      /\ queue[1].type = "instance.delete.end"
      /\ k \in RowIds(db) /\ hand = db.rows[k]
  BY HeadOfQueue DEF NovaInv, NovaTypes, HeadMatches, HandMatches, Delete, InHand, Deleting
<1>2. /\ UNCHANGED <<queue, running, launched, group, crashes>>
      /\ db' = DeleteWorkload(db, hand) /\ hand' = NoRow /\ pc' = "ack"
  BY DEF Delete, world
<1>3. /\ k \in Ids /\ hand \in RDTWorkLoad
      /\ \A i \in RowIds(db) : db.rows[i].uuid = u <=> i = k
  BY <1>1, OneRow DEF NovaInv
<1>4. /\ db' \in Database
      /\ RowIds(db') = RowIds(db) \ {k}
      /\ \A i \in RowIds(db') : db'.rows[i] = db.rows[i]
      /\ \A x \in UUIDs : db'.mapping[x] = IF x = u THEN NoId ELSE db.mapping[x]
      /\ db'.seq = db.seq
  BY <1>2, <1>3, DeleteEffect DEF NovaInv, NovaTypes
<1>5. \A x \in UUIDs : Stored(x)' <=> Stored(x) /\ x # u
  BY <1>1, <1>3, <1>4 DEF Stored
<1>6. RowsSound'
  <2>1. ASSUME NEW x \in UUIDs, NEW i \in Ids
        PROVE  db'.mapping[x] = i <=> i \in RowIds(db') /\ db'.rows[i].uuid = x
    <3>1. db.mapping[x] = i <=> i \in RowIds(db) /\ db.rows[i].uuid = x
      BY DEF NovaInv, RowsSound
    <3>2. NoId \notin Ids
      BY IdsAssumption DEF Ids
    <3>3. CASE x = u
      BY <1>3, <1>4, <3>2, <3>3
    <3>4. CASE x # u
      BY <1>1, <1>4, <3>1, <3>4
    <3> QED BY <3>3, <3>4
  <2> QED BY <1>4, <2>1 DEF NovaInv, RowsSound
<1>7. NovaTypes'
  BY <1>2, <1>4 DEF NovaInv, NovaTypes
<1>8. HeadMatches' /\ HandMatches' /\ QueueOrdered'
  BY <1>1, <1>2 DEF NovaInv, HeadMatches, HandMatches, QueueOrdered, Is, InHand, Creating, Deleting
<1>9. GhostsAnnounced'
  <2> SUFFICES ASSUME NEW x \in UUIDs \ Plugged, Stored(x), x # u, x \notin running
               PROVE  \E j \in 1 .. Len(queue) : Is(j, "instance.delete.end", x) /\ j > 1
    BY <1>2, <1>5 DEF GhostsAnnounced, Is
  <2>1. PICK j \in 1 .. Len(queue) : Is(j, "instance.delete.end", x)
    BY DEF NovaInv, GhostsAnnounced
  <2>2. j # 1 /\ Len(queue) \in Nat
    BY <1>1, <2>1 DEF Is, NovaInv, NovaTypes
  <2> QED BY <2>1, <2>2
<1>10. NovaInv'
  BY <1>6, <1>7, <1>8, <1>9 DEF NovaInv
<1> QED BY <1>3, <1>4, <1>10

(* Ack: what leaves the queue has been dealt with.                         *)
LEMMA AckKeeps ==
  ASSUME NovaInv, Ack
  PROVE  NovaInv'
<1>1. queue # <<>> /\ queue \in Seq(Message)
  BY DEF NovaInv, NovaTypes, HeadMatches, Ack, InHand
<1>2. UNCHANGED <<running, launched, group, db, hand, crashes>>
  BY DEF Ack, world
<1>3. CASE link # "up"
  BY <1>2, <1>3, GoingOn DEF Ack
<1>4. CASE link = "up"
  <2>1. queue' = Tail(queue) /\ pc' = "idle"
    BY <1>4 DEF Ack
  <2>2. /\ queue' \in Seq(Message) /\ Len(queue) \in Nat /\ Len(queue') = Len(queue) - 1
        /\ \A j \in 1 .. Len(queue') : queue'[j] = queue[j + 1] /\ j + 1 \in 1 .. Len(queue)
    BY <1>1, <2>1
  <2>3. \A j \in 1 .. Len(queue) : j # 1 => j - 1 \in 1 .. Len(queue') /\ queue'[j - 1] = queue[j]
    <3> SUFFICES ASSUME NEW j \in 1 .. Len(queue), j # 1
                 PROVE  j - 1 \in 1 .. Len(queue') /\ queue'[j - 1] = queue[j]
      OBVIOUS
    <3>1. j - 1 \in 1 .. Len(queue') /\ (j - 1) + 1 = j
      BY <2>2
    <3> QED BY <2>2, <3>1
  <2>4. NovaTypes' /\ RowsSound' /\ \A x : Stored(x)' = Stored(x)
    BY <1>2, <2>2 DEF NovaInv, NovaTypes, RowsSound, Stored, RowIds
  <2>5. HeadMatches' /\ HandMatches'
    BY <2>1 DEF HeadMatches, HandMatches, InHand, Creating, Deleting
  <2>6. QueueOrdered'
    <3>1. ASSUME NEW j \in 1 .. Len(queue'), NEW k \in 1 .. Len(queue'),
                 queue'[j].type = "instance.create.end",
                 queue'[k].type = "instance.delete.end", queue'[k].uuid = queue'[j].uuid
          PROVE  j < k
      <4>1. j + 1 < k + 1
        BY <2>2, <3>1 DEF NovaInv, QueueOrdered, Is
      <4> QED BY <2>2, <4>1
    <3>2. ASSUME NEW j \in 1 .. Len(queue'),
                 queue'[j].type = "instance.create.end", queue'[j].uuid \notin running
          PROVE  \E k \in 1 .. Len(queue') : /\ queue'[k].type = "instance.delete.end"
                                            /\ queue'[k].uuid = queue'[j].uuid
      <4>1. PICK k \in 1 .. Len(queue) : Is(k, "instance.delete.end", queue[j + 1].uuid)
        BY <2>2, <3>2 DEF NovaInv, QueueOrdered
      <4>2. j + 1 < k
        BY <2>2, <3>2, <4>1 DEF NovaInv, QueueOrdered
      <4>3. k # 1
        BY <2>2, <4>2
      <4> QED BY <2>2, <2>3, <4>1, <4>3 DEF Is
    <3>3. ASSUME NEW j \in 1 .. Len(queue')
          PROVE  /\ queue'[j].uuid \in launched
                 /\ queue'[j].type = "instance.delete.end" => queue'[j].uuid \notin running
      BY <2>2 DEF NovaInv, QueueOrdered
    <3> QED BY <1>2, <3>1, <3>2, <3>3 DEF QueueOrdered, Is
  <2>7. GhostsAnnounced'
    <3> SUFFICES ASSUME NEW x \in UUIDs \ Plugged, Stored(x), x \notin running
                 PROVE  \E j \in 1 .. Len(queue') : /\ queue'[j].type = "instance.delete.end"
                                                   /\ queue'[j].uuid = x
      BY <1>2, <2>1, <2>4 DEF GhostsAnnounced, Is
    <3>1. PICK j \in 1 .. Len(queue) : Is(j, "instance.delete.end", x) /\ j > 1
      BY DEF NovaInv, GhostsAnnounced, Ack
    <3>2. j # 1
      BY <2>2, <3>1
    <3> QED BY <2>3, <3>1, <3>2 DEF Is
  <2> QED BY <2>4, <2>5, <2>6, <2>7 DEF NovaInv
<1> QED BY <1>3, <1>4

(* A new message at the end of the queue leaves the others in place.       *)
LEMMA Appended ==
  ASSUME queue \in Seq(Message), NEW m \in Message, queue' = Append(queue, m)
  PROVE  /\ queue' \in Seq(Message) /\ Len(queue) \in Nat /\ Len(queue') = Len(queue) + 1
         /\ \A j \in 1 .. Len(queue) : queue'[j] = queue[j] /\ j \in 1 .. Len(queue')
         /\ queue'[Len(queue) + 1] = m /\ Len(queue) + 1 \in 1 .. Len(queue')
         /\ \A j \in 1 .. Len(queue') : j \in 1 .. Len(queue) \/ j = Len(queue) + 1
         /\ queue # <<>> => queue' # <<>> /\ queue'[1] = queue[1]
<1>1. /\ queue' \in Seq(Message) /\ Len(queue) \in Nat /\ Len(queue') = Len(queue) + 1
      /\ \A j \in 1 .. Len(queue) : queue'[j] = queue[j] /\ j \in 1 .. Len(queue')
      /\ queue'[Len(queue) + 1] = m /\ Len(queue) + 1 \in 1 .. Len(queue')
  OBVIOUS
<1>2. \A j \in 1 .. Len(queue') : j \in 1 .. Len(queue) \/ j = Len(queue) + 1
  BY <1>1
<1>3. queue # <<>> => 1 \in 1 .. Len(queue)
  BY HeadOfQueue
<1> QED BY <1>1, <1>2, <1>3

(* Nova's side: a create notification is the first of its instance, and a  *)
(* delete notification comes after it and for an instance that has ended.  *)
LEMMA NovaKeeps ==
  ASSUME NovaInv, Launch \/ Remove
  PROVE  NovaInv'
<1> USE DEF Message
<1>1. /\ queue \in Seq(Message) /\ running \subseteq launched /\ launched \subseteq UUIDs
      /\ UNCHANGED <<group, db, pc, hand, crashes>>
  BY DEF NovaInv, NovaTypes, Launch, Remove
<1>2. RowsSound' /\ \A x : Stored(x)' = Stored(x)
  BY <1>1 DEF NovaInv, RowsSound, Stored, RowIds
<1>3. InHand => queue # <<>>
  BY DEF NovaInv, HeadMatches
<1>4. CASE Launch
  <2>1. PICK u \in UUIDs \ launched :
          /\ launched' = launched \cup {u} /\ running' = running \cup {u}
          /\ queue' = Append(queue, [type |-> "instance.create.end", uuid |-> u])
    BY <1>4 DEF Launch
  <2> DEFINE n == Len(queue) + 1
  <2>2. /\ queue' \in Seq(Message) /\ Len(queue) \in Nat /\ n \in 1 .. Len(queue')
        /\ \A j \in 1 .. Len(queue) : queue'[j] = queue[j] /\ j \in 1 .. Len(queue')
        /\ queue'[n] = [type |-> "instance.create.end", uuid |-> u]
        /\ \A j \in 1 .. Len(queue') : j \in 1 .. Len(queue) \/ j = n
        /\ queue # <<>> => queue' # <<>> /\ queue'[1] = queue[1]
    BY <1>1, <2>1, Appended
  <2>3. queue'[n].type = "instance.create.end" /\ queue'[n].uuid = u
    BY <2>2
  <2> HIDE DEF n
  <2>4. NovaTypes'
    BY <1>1, <2>1, <2>2 DEF NovaInv, NovaTypes
  <2>5. HeadMatches' /\ HandMatches'
    BY <1>1, <1>2, <1>3, <2>2 DEF NovaInv, HeadMatches, HandMatches, InHand, Creating, Deleting
  <2>6. QueueOrdered'
    <3>1. ASSUME NEW j \in 1 .. Len(queue'), NEW k \in 1 .. Len(queue'),
                 queue'[j].type = "instance.create.end",
                 queue'[k].type = "instance.delete.end", queue'[k].uuid = queue'[j].uuid
          PROVE  j < k
      <4>1. k \in 1 .. Len(queue) /\ queue[k].uuid # u
        BY <2>1, <2>2, <2>3, <3>1 DEF NovaInv, QueueOrdered
      <4>2. j \in 1 .. Len(queue)
        BY <2>2, <2>3, <3>1, <4>1
      <4> QED BY <2>2, <3>1, <4>1, <4>2 DEF NovaInv, QueueOrdered, Is
    <3>2. ASSUME NEW j \in 1 .. Len(queue'),
                 queue'[j].type = "instance.create.end", queue'[j].uuid \notin running'
          PROVE  \E k \in 1 .. Len(queue') : /\ queue'[k].type = "instance.delete.end"
                                            /\ queue'[k].uuid = queue'[j].uuid
      <4>1. j \in 1 .. Len(queue) /\ queue[j].uuid \notin running
        BY <2>1, <2>2, <2>3, <3>2
      <4>2. PICK k \in 1 .. Len(queue) : Is(k, "instance.delete.end", queue[j].uuid)
        BY <2>2, <3>2, <4>1 DEF NovaInv, QueueOrdered
      <4> QED BY <2>2, <4>1, <4>2 DEF Is
    <3>3. ASSUME NEW j \in 1 .. Len(queue')
          PROVE  /\ queue'[j].uuid \in launched'
                 /\ queue'[j].type = "instance.delete.end" => queue'[j].uuid \notin running'
      BY <2>1, <2>2, <2>3 DEF NovaInv, QueueOrdered
    <3> QED BY <3>1, <3>2, <3>3 DEF QueueOrdered, Is
  <2>7. GhostsAnnounced'
    BY <1>1, <1>2, <2>1, <2>2 DEF NovaInv, GhostsAnnounced, Is
  <2> QED BY <1>2, <2>4, <2>5, <2>6, <2>7 DEF NovaInv
<1>5. CASE Remove
  <2>1. PICK u \in running :
          /\ launched' = launched /\ running' = running \ {u}
          /\ queue' = Append(queue, [type |-> "instance.delete.end", uuid |-> u])
    BY <1>5 DEF Remove
  <2> DEFINE n == Len(queue) + 1
  <2>2. /\ queue' \in Seq(Message) /\ Len(queue) \in Nat /\ n \in 1 .. Len(queue')
        /\ \A j \in 1 .. Len(queue) : queue'[j] = queue[j] /\ j \in 1 .. Len(queue')
        /\ queue'[n] = [type |-> "instance.delete.end", uuid |-> u]
        /\ \A j \in 1 .. Len(queue') : j \in 1 .. Len(queue) \/ j = n
        /\ queue # <<>> => queue' # <<>> /\ queue'[1] = queue[1]
    BY <1>1, <2>1, Appended
  <2>3. /\ queue'[n].type = "instance.delete.end" /\ queue'[n].uuid = u
        /\ \A j \in 1 .. Len(queue) : j < n
        /\ queue # <<>> => n > 1
    <3>1. queue # <<>> => Len(queue) >= 1
      BY <1>1, HeadOfQueue
    <3> QED BY <2>2, <3>1
  <2> HIDE DEF n
  <2>4. NovaTypes'
    BY <1>1, <2>1, <2>2 DEF NovaInv, NovaTypes
  <2>5. HeadMatches' /\ HandMatches'
    BY <1>1, <1>2, <1>3, <2>2 DEF NovaInv, HeadMatches, HandMatches, InHand, Creating, Deleting
  <2>6. QueueOrdered'
    <3>1. ASSUME NEW j \in 1 .. Len(queue'), NEW k \in 1 .. Len(queue'),
                 queue'[j].type = "instance.create.end",
                 queue'[k].type = "instance.delete.end", queue'[k].uuid = queue'[j].uuid
          PROVE  j < k
      <4>1. j \in 1 .. Len(queue)
        BY <2>2, <2>3, <3>1
      <4>2. CASE k = n
        BY <2>3, <4>1, <4>2
      <4>3. CASE k \in 1 .. Len(queue)
        BY <2>2, <3>1, <4>1, <4>3 DEF NovaInv, QueueOrdered, Is
      <4> QED BY <2>2, <4>2, <4>3
    <3>2. ASSUME NEW j \in 1 .. Len(queue'),
                 queue'[j].type = "instance.create.end", queue'[j].uuid \notin running'
          PROVE  \E k \in 1 .. Len(queue') : /\ queue'[k].type = "instance.delete.end"
                                            /\ queue'[k].uuid = queue'[j].uuid
      <4>1. j \in 1 .. Len(queue) /\ queue'[j] = queue[j]
        BY <2>2, <2>3, <3>2
      <4>2. CASE queue[j].uuid = u
        BY <2>2, <2>3, <4>1, <4>2
      <4>3. CASE queue[j].uuid # u
        <5>1. PICK k \in 1 .. Len(queue) : Is(k, "instance.delete.end", queue[j].uuid)
          BY <2>1, <3>2, <4>1, <4>3 DEF NovaInv, QueueOrdered
        <5> QED BY <2>2, <4>1, <5>1 DEF Is
      <4> QED BY <4>2, <4>3
    <3>3. ASSUME NEW j \in 1 .. Len(queue')
          PROVE  /\ queue'[j].uuid \in launched'
                 /\ queue'[j].type = "instance.delete.end" => queue'[j].uuid \notin running'
      <4>1. CASE j = n
        BY <1>1, <2>1, <2>3, <4>1
      <4>2. CASE j \in 1 .. Len(queue)
        BY <2>1, <2>2, <4>2 DEF NovaInv, QueueOrdered
      <4> QED BY <2>2, <4>1, <4>2
    <3> QED BY <3>1, <3>2, <3>3 DEF QueueOrdered, Is
  <2>7. GhostsAnnounced'
    <3> SUFFICES ASSUME NEW x \in UUIDs \ Plugged, Stored(x)', x \notin running'
                 PROVE  \E j \in 1 .. Len(queue') :
                           Is(j, "instance.delete.end", x)' /\ (pc' = "ack" => j > 1)
      BY DEF GhostsAnnounced
    <3>1. CASE x = u
      BY <1>1, <1>3, <2>2, <2>3, <3>1 DEF InHand, Is
    <3>2. CASE x # u
      <4>1. PICK j \in 1 .. Len(queue) : Is(j, "instance.delete.end", x) /\ (pc = "ack" => j > 1)
        BY <1>2, <2>1, <3>2 DEF NovaInv, GhostsAnnounced
      <4> QED BY <1>1, <2>2, <4>1 DEF Is
    <3> QED BY <3>1, <3>2
  <2> QED BY <1>2, <2>4, <2>5, <2>6, <2>7 DEF NovaInv
<1> QED BY <1>4, <1>5

-----------------------------------------------------------------------------
(* What Init establishes.                                                  *)
LEMMA NovaInitInv == Init => NovaInv /\ CoresInv
<1> SUFFICES ASSUME Init PROVE NovaInv /\ CoresInv
  OBVIOUS
<1>1. db \in Database /\ RowIds(db) = {} /\ \A u \in UUIDs : db.mapping[u] = NoId
  BY IdsAssumption DEF Init, EmptyDatabase, Database, RowIds
<1>2. NoId \notin Ids /\ NoClos \notin PoolClos /\ Len(queue) = 0
  BY IdsAssumption, NumClosAssumption, NoClosAssumption DEF Ids, PoolClos, Init
<1>3. NovaTypes
  BY <1>1 DEF NovaTypes, Init, ClosName
<1>4. HeadMatches /\ HandMatches /\ QueueOrdered
  BY <1>2 DEF HeadMatches, HandMatches, QueueOrdered, Init, InHand, Creating, Deleting
<1>5. RowsSound /\ GhostsAnnounced
  BY <1>1, <1>2 DEF RowsSound, GhostsAnnounced, Stored
<1>6. CoresInv
  BY <1>1, <1>2 DEF CoresInv, Init
<1> QED BY <1>3, <1>4, <1>5, <1>6 DEF NovaInv

(* The steps of the listener that change neither the database nor the      *)
(* groups nor what it carries.                                             *)
LEMMA MovesGoOn ==
  ASSUME NovaInv, \/ Start \/ NovaListenerStart \/ Receive \/ Lookup \/ FirstQuery
                  \/ RenewToken \/ SecondQuery \/ DeliveriesClosed
  PROVE  /\ NovaInv' /\ pc \notin {"create", "delete"} /\ pc' \notin {"create", "delete"}
         /\ UNCHANGED <<group, db, hand, crashes>>
<1>1. /\ UNCHANGED <<queue, running, launched, group, db, hand, crashes>>
      /\ pc \notin {"create", "delete"}
  BY DEF Start, NovaListenerStart, Receive, Lookup, FirstQuery, RenewToken, SecondQuery,
         DeliveriesClosed, world
<1>2. CASE Start \/ NovaListenerStart \/ DeliveriesClosed
  <2>1. pc' \in {"down", "dial", "idle", "stopped"}
    BY <1>2 DEF Start, NovaListenerStart, DeliveriesClosed
  <2> QED BY <1>1, <2>1, GoingOn
<1>3. CASE Receive
  <2>1. /\ queue # <<>> /\ Head(queue) = queue[1] /\ queue[1].uuid \in UUIDs
        /\ queue[1].type \in {"instance.create.end", "instance.delete.end"}
    BY <1>3, HeadOfQueue DEF Receive, NovaInv, NovaTypes
  <2>2. queue[1].uuid \in Foreign => ~Stored(queue[1].uuid)
    BY DEF NovaInv, RowsSound, Stored
  <2>3. pc' \in {"ack", "lookup", "find"}
    BY <1>3 DEF Receive
  <2>4. NovaInv'
    BY <1>1, <1>3, <2>1, <2>2, GoingOn DEF Receive, Creating
  <2> QED BY <1>1, <2>3, <2>4
<1>4. CASE Lookup \/ FirstQuery \/ RenewToken \/ SecondQuery
  <2>1. queue # <<>> /\ queue[1].uuid \notin Foreign /\ queue[1].type = "instance.create.end"
    BY <1>4 DEF NovaInv, HeadMatches, InHand, Creating, Lookup, FirstQuery, RenewToken, SecondQuery
  <2>2. pc' \in {"ack", "policy", "renew", "again", "enforce"}
    BY <1>4 DEF Lookup, FirstQuery, RenewToken, SecondQuery
  <2>3. NovaInv'
    BY <1>1, <2>1, <2>2, GoingOn DEF Creating
  <2> QED BY <1>1, <2>2, <2>3
<1> QED BY <1>2, <1>3, <1>4

(* A crash: the message in hand is the head of the queue again.            *)
LEMMA CrashKeeps ==
  ASSUME NovaInv, Crash
  PROVE  NovaInv' /\ crashes' # 0
<1>1. /\ UNCHANGED <<queue, running, launched, group, db>>
      /\ pc' = "down" /\ hand' = NoRow /\ crashes' = crashes + 1 /\ crashes \in Nat
  BY DEF Crash, Requeued, world, NovaInv, NovaTypes
<1>2. NovaTypes' /\ RowsSound' /\ \A x : Stored(x)' = Stored(x)
  BY <1>1 DEF NovaInv, NovaTypes, RowsSound, Stored, RowIds
<1>3. HeadMatches' /\ HandMatches' /\ QueueOrdered'
  BY <1>1 DEF NovaInv, HeadMatches, HandMatches, QueueOrdered, Is, InHand, Creating, Deleting
<1>4. GhostsAnnounced'
  BY <1>1, <1>2 DEF NovaInv, GhostsAnnounced, Is
<1> QED BY <1>1, <1>2, <1>3, <1>4 DEF NovaInv

(* The inductive step of NoGhosts.                                         *)
LEMMA NovaStepInv == NovaInv /\ [Next]_vars => NovaInv'
<1> SUFFICES ASSUME NovaInv, [Next]_vars PROVE NovaInv'
  OBVIOUS
<1>1. CASE Listener
  BY <1>1, MovesGoOn, EnforceKeeps, CreateKeeps, FindKeeps, ReleaseKeeps, DeleteKeeps, AckKeeps
     DEF Listener
<1>2. CASE Crash \/ Launch \/ Remove
  BY <1>2, CrashKeeps, NovaKeeps
<1>3. CASE Fault \/ Recover
  BY <1>3, GoingOn DEF Fault, Recover, client
<1>4. CASE UNCHANGED vars
  BY <1>4, GoingOn DEF vars
<1> QED BY <1>1, <1>2, <1>3, <1>4 DEF Next

(* The consumer of Nova's notifications leaves no workload of an instance  *)
(* that is gone, once the queue is empty: for any number of crashes        *)
(* between any two of its steps, with redelivery, expired tokens and       *)
(* services that fail.                                                     *)
THEOREM NoGhostsHolds == Spec => []NoGhosts
<1>1. NovaInv => NoGhosts
  <2> SUFFICES ASSUME NovaInv, queue = <<>>, NEW u \in UUIDs \ Plugged, Stored(u)
               PROVE  u \in running
    BY DEF NoGhosts
  <2>1. Len(queue) = 0
    OBVIOUS
  <2> QED BY <2>1 DEF NovaInv, GhostsAnnounced
<1> QED BY <1>1, NovaInitInv, NovaStepInv, PTL DEF Spec

-----------------------------------------------------------------------------
(* Without a crash, cores follow rows: a step that moves one moves the     *)
(* other before the next notification.                                     *)
LEMMA CoresStepInv == NovaInv /\ CoresInv /\ [Next]_vars => CoresInv'
<1> SUFFICES ASSUME NovaInv, CoresInv, [Next]_vars, crashes' = 0 PROVE CoresInv'
  BY DEF CoresInv
<1>0. crashes \in Nat /\ crashes = 0
  <2>1. crashes \in Nat
    BY DEF NovaInv, NovaTypes
  <2>2. CASE Crash
    BY <2>2, CrashKeeps
  <2>3. CASE ~Crash
    <3>1. CASE Listener
      <4>1. CASE EnforceInstance \/ ReleaseInstance
        BY <4>1 DEF EnforceInstance, ReleaseInstance
      <4>2. CASE Create \/ Find \/ Delete \/ Ack
        BY <4>2 DEF Create, Find, Delete, Ack
      <4>3. CASE \/ Start \/ NovaListenerStart \/ Receive \/ Lookup \/ FirstQuery
                 \/ RenewToken \/ SecondQuery \/ DeliveriesClosed
        BY <4>3, MovesGoOn
      <4> QED BY <3>1, <4>1, <4>2, <4>3 DEF Listener
    <3>2. CASE Launch \/ Remove \/ Fault \/ Recover \/ UNCHANGED vars
      <4>1. CASE Launch \/ Remove
        <5>1. crashes' = crashes
          BY <4>1 DEF Launch, Remove
        <5> QED BY <5>1, <2>1
      <4>2. CASE Fault \/ Recover
        BY <4>2 DEF Fault, Recover
      <4>3. CASE UNCHANGED vars
        BY <4>3 DEF vars
      <4> QED BY <3>2, <4>1, <4>2, <4>3
    <3> QED BY <2>3, <3>1, <3>2 DEF Next
  <2> QED BY <2>1, <2>2, <2>3
<1> DEFINE Follows(u, d, g) ==
             \A c \in PoolClos :
                g[u] = c <=> \E i \in RowIds(d) : d.rows[i].uuid = u /\ d.rows[i].cos = c
<1>1. ASSUME UNCHANGED <<group, db, hand>>,
             pc' = pc \/ (pc \notin {"create", "delete"} /\ pc' \notin {"create", "delete"})
      PROVE  CoresInv'
  BY <1>0, <1>1 DEF CoresInv, RowIds
<1>2. CASE \/ Start \/ NovaListenerStart \/ Receive \/ Lookup \/ FirstQuery
           \/ RenewToken \/ SecondQuery \/ DeliveriesClosed
  BY <1>1, <1>2, MovesGoOn
<1>3. CASE Ack \/ Launch \/ Remove \/ Fault \/ Recover \/ UNCHANGED vars
  BY <1>1, <1>3 DEF Ack, Launch, Remove, Fault, Recover, vars
<1>4. CASE Find
  <2>1. UNCHANGED <<group, db>> /\ pc = "find" /\ pc' \in {"ack", "release"}
    BY <1>4 DEF Find
  <2> QED BY <1>0, <2>1 DEF CoresInv, RowIds
<1>5. CASE EnforceInstance
  <2> DEFINE v == Head(queue).uuid
             w == Instance(v)
  <2>1. queue # <<>> /\ v \in UUIDs /\ v # NoUUID
    BY <1>5, HeadOfQueue, NoUUIDAssumption
       DEF NovaInv, NovaTypes, HeadMatches, EnforceInstance, InHand, Creating
  <2>2. w \in RDTWorkLoad /\ w.uuid = v
    BY <2>1, InstanceType
  <2> HIDE DEF w
  <2>3. CASE pc' = "ack" /\ UNCHANGED <<group, hand>>
    BY <1>1, <1>5, <2>3 DEF EnforceInstance
  <2>4. ASSUME NEW c \in FreeClasses, NEW plugin \in PluginResults(w.uuid),
               group' = [group EXCEPT ![w.uuid] = c],
               hand' = IF plugin THEN [w EXCEPT !.cos = c] ELSE NoRow,
               pc' = IF plugin THEN "create" ELSE "ack"
        PROVE  CoresInv'
    <3>1. db' = db /\ pc = "enforce" /\ group \in [UUIDs -> ClosName]
      BY <1>5 DEF EnforceInstance, NovaInv, NovaTypes
    <3>2. plugin \/ v \in Plugged
      BY <2>2, <2>4 DEF PluginResults
    <3>3. plugin => hand'.uuid = v /\ hand'.cos = c
      BY <2>2, <2>4 DEF RDTWorkLoad
    <3> SUFFICES ASSUME NEW u \in UUIDs \ Plugged
                 PROVE  IF pc' = "create" /\ hand'.uuid = u THEN group'[u] = hand'.cos
                        ELSE IF pc' = "delete" /\ hand'.uuid = u THEN group'[u] = NoClos
                        ELSE Follows(u, db', group')
      BY DEF CoresInv
    <3>4. CASE u = v
      BY <2>1, <2>2, <2>4, <3>1, <3>2, <3>3, <3>4
    <3>5. CASE u # v
      <4>1. group'[u] = group[u] /\ ~(pc' = "create" /\ hand'.uuid = u) /\ pc' # "delete"
        BY <2>2, <2>4, <3>1, <3>3, <3>5
      <4>2. Follows(u, db, group)
        BY <1>0, <3>1 DEF CoresInv
      <4> QED BY <3>1, <4>1, <4>2
    <3> QED BY <3>4, <3>5
  <2> QED BY <1>5, <2>3, <2>4 DEF EnforceInstance, w
<1>6. CASE Create
  <2> DEFINE k == db.seq + 1
  <2>1. /\ RowIds(db') = RowIds(db) \cup {k} /\ k \notin RowIds(db)
        /\ db'.rows[k] = [hand EXCEPT !.id = k]
        /\ \A i \in RowIds(db) : db'.rows[i] = db.rows[i]
    BY <1>6, CreateKeeps
  <2>2. hand \in RDTWorkLoad /\ ~Stored(hand.uuid) /\ pc = "create" /\ pc' = "ack" /\ group' = group
    BY <1>6 DEF Create, NovaInv, HandMatches
  <2>3. db'.rows[k].uuid = hand.uuid /\ db'.rows[k].cos = hand.cos
    BY <2>1, <2>2 DEF RDTWorkLoad
  <2> HIDE DEF k
  <2> SUFFICES ASSUME NEW u \in UUIDs \ Plugged, NEW c \in PoolClos
               PROVE  group[u] = c <=> \E i \in RowIds(db') : /\ db'.rows[i].uuid = u
                                                             /\ db'.rows[i].cos = c
    BY <2>2 DEF CoresInv
  <2>4. CASE u = hand.uuid
    <3>1. group[u] = hand.cos
      BY <1>0, <2>2, <2>4 DEF CoresInv
    <3>2. \A i \in RowIds(db) : db'.rows[i].uuid # u
      BY <2>1, <2>2, <2>4 DEF Stored
    <3> QED BY <2>1, <2>3, <2>4, <3>1, <3>2
  <2>5. CASE u # hand.uuid
    <3>1. Follows(u, db, group)
      BY <1>0, <2>2, <2>5 DEF CoresInv
    <3>2. \A i \in RowIds(db') : db'.rows[i].uuid = u => i \in RowIds(db)
      BY <2>1, <2>3, <2>5
    <3> QED BY <2>1, <3>1, <3>2
  <2> QED BY <2>4, <2>5
<1>7. CASE ReleaseInstance
  <2>1. /\ pc = "release" /\ hand.uuid \in UUIDs /\ db' = db /\ group \in [UUIDs -> ClosName]
    BY <1>7, OneRow DEF ReleaseInstance, NovaInv, NovaTypes, HandMatches
  <2>2. PICK plugin \in PluginResults(hand.uuid) :
          /\ group' = IF plugin THEN [group EXCEPT ![hand.uuid] = NoClos] ELSE group
          /\ hand' = IF plugin THEN hand ELSE NoRow
          /\ pc' = IF plugin THEN "delete" ELSE "ack"
    BY <1>7 DEF ReleaseInstance
  <2>3. CASE ~plugin
    BY <1>0, <2>1, <2>2, <2>3 DEF CoresInv, RowIds
  <2>4. CASE plugin
    <3> SUFFICES ASSUME NEW u \in UUIDs \ Plugged
                 PROVE  IF hand.uuid = u THEN group'[u] = NoClos ELSE Follows(u, db', group')
      BY <2>2, <2>4 DEF CoresInv
    <3>1. CASE hand.uuid = u
      BY <2>1, <2>2, <2>4, <3>1
    <3>2. CASE hand.uuid # u
      <4>1. Follows(u, db, group) /\ group'[u] = group[u]
        BY <1>0, <2>1, <2>2, <2>4, <3>2 DEF CoresInv
      <4> QED BY <2>1, <3>2, <4>1
    <3> QED BY <3>1, <3>2
  <2> QED BY <2>3, <2>4
<1>8. CASE Delete
  <2>1. /\ RowIds(db') = RowIds(db) \ {hand.id}
        /\ \A i \in RowIds(db') : db'.rows[i] = db.rows[i]
        /\ \A i \in RowIds(db) : db.rows[i].uuid = hand.uuid <=> i = hand.id
    BY <1>8, DeleteKeeps
  <2>2. pc = "delete" /\ pc' = "ack" /\ group' = group
    BY <1>8 DEF Delete
  <2>3. NoClos \notin PoolClos
    BY NumClosAssumption, NoClosAssumption DEF PoolClos
  <2> SUFFICES ASSUME NEW u \in UUIDs \ Plugged, NEW c \in PoolClos
               PROVE  group[u] = c <=> \E i \in RowIds(db') : /\ db'.rows[i].uuid = u
                                                             /\ db'.rows[i].cos = c
    BY <2>2 DEF CoresInv
  <2>4. CASE u = hand.uuid
    <3>1. group[u] = NoClos
      BY <1>0, <2>2, <2>4 DEF CoresInv
    <3> QED BY <2>1, <2>3, <2>4, <3>1
  <2>5. CASE u # hand.uuid
    <3>1. Follows(u, db, group)
      BY <1>0, <2>2, <2>5 DEF CoresInv
    <3> QED BY <2>1, <2>5, <3>1
  <2> QED BY <2>4, <2>5
<1>9. CASE Crash
  BY <1>9, CrashKeeps
<1> QED BY <1>2, <1>3, <1>4, <1>5, <1>6, <1>7, <1>8, <1>9 DEF Next, Listener

(* As long as the process has not crashed, the cores of an instance are in *)
(* the class of its stored workload, and in none without one, whenever no  *)
(* notification is in hand.                                                *)
THEOREM CoresFollowRowsHolds == Spec => []CoresFollowRows
<1>1. CoresInv => CoresFollowRows
  <2> SUFFICES ASSUME CoresInv, ~InHand, crashes = 0 PROVE CoresFollowRows
    BY DEF CoresFollowRows
  <2>1. pc # "create" /\ pc # "delete"
    BY DEF InHand
  <2> QED BY <2>1 DEF CoresInv, CoresFollowRows
<1> QED BY <1>1, NovaInitInv, NovaStepInv, CoresStepInv, PTL DEF Spec
=============================================================================
