---------------------------- MODULE NovaListener ----------------------------
(***************************************************************************)
(* The OpenStack integration of the user process (internal/openstack): the *)
(* consumer of Nova's notifications, the client that fetches policies from *)
(* Swift with a token from Keystone, and what surrounds them: the broker's *)
(* durable queue, instances that come and go, services that fail, and      *)
(* crashes of the process.                                                 *)
(*                                                                         *)
(* The queue holds what the broker has not seen acknowledged.  Messages    *)
(* are handled one at a time and in order, so the message in hand is the   *)
(* head, and after a crash the broker delivers it again.  Enforce and      *)
(* Release, modelled in full by WorkloadManager, are reduced here to the   *)
(* class into which the cores of an instance are put.                      *)
(***************************************************************************)
EXTENDS WorkloadDB, Sequences

CONSTANTS Pinning,     \* the cores to which an instance is pinned, {} if to none
          Foreign,     \* instances on other hosts
          Plugged,     \* instances whose policy uses plugins, which may fail
          MaxFaults,   \* bound of the model: failures of services, lost tokens
          MaxCrashes   \* bound of the model

ASSUME InstancesAssumption ==
  Pinning \in [UUIDs -> SUBSET Cores] /\ Foreign \subseteq UUIDs /\ Plugged \subseteq UUIDs

ASSUME FaultsAssumption == MaxFaults \in Nat /\ MaxCrashes \in Nat

VARIABLES queue,     \* the notifications in rmd-queue
          running,   \* the instances that run
          launched,  \* the instances that have been created at some time
          group,     \* the class in which the cores of an instance are
          db,        \* the workload database
          pc,        \* what the listener does with the head of the queue
          hand,      \* the workload it carries from one step to the next
          token,     \* the token of the client
          swiftURL,  \* TRUE: endpointsMap has an entry for swift
          keystone, swift, link,   \* the services, and the way to the broker
          faults, crashes

client == <<token, swiftURL>>
world  == <<running, launched, keystone, swift, link, faults>>
vars   == <<queue, running, launched, group, db, pc, hand, token, swiftURL,
            keystone, swift, link, faults, crashes>>

Message == [type : {"instance.create.end", "instance.delete.end"}, uuid : UUIDs]

InHand == pc \notin {"down", "dial", "idle", "stopped"}

Init ==
  /\ queue = <<>>
  /\ running = {} /\ launched = {}
  /\ group = [u \in UUIDs |-> NoClos]
  /\ db = EmptyDatabase
  /\ pc = "down" /\ hand = NoRow
  /\ token = "none" /\ swiftURL = FALSE
  /\ keystone = "up" /\ swift = "up" /\ link = "up"
  /\ faults = 0 /\ crashes = 0

-----------------------------------------------------------------------------
(* The client.  Keystone may answer with a token, answer without one, be   *)
(* out of reach, or accept the connection and never answer, in which case  *)
(* http.Post, which has no timeout, does not return.                       *)

Answers == keystone # "silent"

ObtainedToken == CASE keystone = "up"      -> "valid"
                   [] keystone = "failing" -> "none"
                   [] OTHER                -> token

(* obtainToken: only here is the catalog of endpoints read.                *)
obtainToken == /\ Answers
               /\ token' = ObtainedToken
               /\ swiftURL' = (swiftURL \/ keystone = "up")

getToken == IF token = "none" THEN obtainToken ELSE UNCHANGED client

(* sendSingleQuery: what Swift's answer is good for.  That it cannot be    *)
(* reached is no error to the caller: there is just nothing to unmarshal.  *)
Answer == IF swift = "down" THEN "nothing"
          ELSE IF token' = "valid" THEN "policy" ELSE "401"

(* Init in the user process.  Neither a missing token nor a failure to     *)
(* connect keeps the server from starting, and nothing tries again.        *)
Start ==
  /\ pc = "down"
  /\ getToken
  /\ pc' = "dial"
  /\ UNCHANGED <<queue, group, db, hand, crashes, world>>

NovaListenerStart ==
  /\ pc = "dial"
  /\ pc' = IF link = "up" THEN "idle" ELSE "stopped"
  /\ UNCHANGED <<queue, group, db, hand, crashes, client, world>>

-----------------------------------------------------------------------------
(* Mutant of Receive: what is of no interest is not acknowledged.          *)
ReceiveAndSkip ==
  /\ pc = "idle" /\ link = "up"
  /\ queue # <<>>
  /\ pc' = IF Head(queue).uuid \in Foreign THEN "idle"
           ELSE IF Head(queue).type = "instance.create.end" THEN "lookup" ELSE "find"
  /\ UNCHANGED <<queue, group, db, hand, crashes, client, world>>

(* handle: filter, unmarshal, and handleNovaNotification, which looks only *)
(* at the instances of this host.                                          *)
Receive ==
  /\ pc = "idle" /\ link = "up"
  /\ queue # <<>>
  /\ pc' = IF Head(queue).uuid \in Foreign THEN "ack"
           ELSE IF Head(queue).type = "instance.create.end" THEN "lookup" ELSE "find"
  /\ UNCHANGED <<queue, group, db, hand, crashes, client, world>>

(* processCreateNotification: getPIDByName and getPIDTaskSet.  An instance *)
(* that has ended by now, or is not pinned, is skipped.                    *)
Lookup ==
  /\ pc = "lookup"
  /\ LET u == Head(queue).uuid
     IN  pc' = IF u \in running /\ Pinning[u] # {} THEN "policy" ELSE "ack"
  /\ UNCHANGED <<queue, group, db, hand, crashes, client, world>>

(* getSwiftWorkloadPolicyByURL: without an endpoint nothing is asked, not  *)
(* even for a token.                                                       *)
FirstQuery ==
  /\ pc = "policy"
  /\ \/ /\ ~swiftURL
        /\ pc' = "ack"
        /\ UNCHANGED client
     \/ /\ swiftURL
        /\ getToken
        /\ pc' = CASE Answer = "policy" -> "enforce"
                   [] Answer = "401"    -> "renew"
                   [] OTHER             -> "ack"
  /\ UNCHANGED <<queue, group, db, hand, crashes, world>>

(* Mutant of RenewToken: the query is repeated with the token it was       *)
(* refused for.                                                            *)
RepeatOnly ==
  /\ pc = "renew"
  /\ pc' = "again"
  /\ UNCHANGED <<queue, group, db, hand, crashes, client, world>>

(* sendQuery: a refused token is replaced, and the query repeated once.    *)
RenewToken ==
  /\ pc = "renew"
  /\ obtainToken
  /\ pc' = "again"
  /\ UNCHANGED <<queue, group, db, hand, crashes, world>>

SecondQuery ==
  /\ pc = "again"
  /\ getToken
  /\ pc' = IF Answer = "policy" THEN "enforce" ELSE "ack"
  /\ UNCHANGED <<queue, group, db, hand, crashes, world>>

(* The workload that policy and notification make.                         *)
Instance(u) ==
  NewRDTWorkLoad([tasks |-> {}, cores |-> Pinning[u], policy |-> NoPolicy,
                  max |-> 1, min |-> 1, mba |-> NoMba, plug |-> u \in Plugged],
                 NoId, u, "OPENSTACK")

FreeClasses == PoolClos \ {db.rows[i].cos : i \in RowIds(db)}

PluginResults(u) == IF u \in Plugged THEN BOOLEAN ELSE {TRUE}

(* Validate and Enforce.  A plugin that fails does so after the cores have *)
(* been put into the class.                                                *)
EnforceInstance ==
  LET w == Instance(Head(queue).uuid)
  IN  /\ pc = "enforce"
      /\ \/ /\ ValidateWorkload(db, w) /\ FreeClasses # {}
            /\ \E c \in FreeClasses, plugin \in PluginResults(w.uuid) :
                  /\ group' = [group EXCEPT ![w.uuid] = c]
                  /\ hand' = IF plugin THEN [w EXCEPT !.cos = c] ELSE NoRow
                  /\ pc' = IF plugin THEN "create" ELSE "ack"
         \/ /\ ~ValidateWorkload(db, w) \/ FreeClasses = {}
            /\ pc' = "ack"
            /\ UNCHANGED <<group, hand>>
      /\ UNCHANGED <<queue, db, crashes, client, world>>

Create ==
  /\ pc = "create"
  /\ NextIdExists(db, hand)
  /\ db' = CreateWorkload(db, hand)
  /\ hand' = NoRow
  /\ pc' = "ack"
  /\ UNCHANGED <<queue, group, crashes, client, world>>

(* processDeleteNotification.  What OpenStack has not created it does not  *)
(* delete.  (A POST may store a UUID as well; there are none here.)        *)
Find ==
  /\ pc = "find"
  /\ hand' = GetWorkloadByUUID(db, Head(queue).uuid)
  /\ pc' = IF hand' = NoRow THEN "ack" ELSE "release"
  /\ UNCHANGED <<queue, group, db, crashes, client, world>>

(* Mutant of ReleaseInstance: the workload is only deleted.                *)
ReleaseNothing ==
  /\ pc = "release"
  /\ pc' = "delete"
  /\ UNCHANGED <<queue, group, db, hand, crashes, client, world>>

(* Release: when a plugin refuses, the notification is acknowledged and    *)
(* the workload stays.                                                     *)
ReleaseInstance ==
  /\ pc = "release"
  /\ \E plugin \in PluginResults(hand.uuid) :
        /\ group' = IF plugin THEN [group EXCEPT ![hand.uuid] = NoClos] ELSE group
        /\ hand' = IF plugin THEN hand ELSE NoRow
        /\ pc' = IF plugin THEN "delete" ELSE "ack"
  /\ UNCHANGED <<queue, db, crashes, client, world>>

Delete ==
  /\ pc = "delete"
  /\ db' = DeleteWorkload(db, hand)
  /\ hand' = NoRow
  /\ pc' = "ack"
  /\ UNCHANGED <<queue, group, crashes, client, world>>

(* d.Ack(false), whatever has become of the notification.  Without a       *)
(* connection the broker does not hear of it, the channel of deliveries is *)
(* closed, and handle ends for good.                                       *)
Ack ==
  /\ pc = "ack"
  /\ IF link = "up" THEN queue' = Tail(queue) /\ pc' = "idle"
                    ELSE UNCHANGED queue /\ pc' = "stopped"
  /\ UNCHANGED <<group, db, hand, crashes, client, world>>

DeliveriesClosed ==
  /\ pc = "idle" /\ link = "lost"
  /\ pc' = "stopped"
  /\ UNCHANGED <<queue, group, db, hand, crashes, client, world>>

Listener == \/ Start \/ NovaListenerStart
            \/ Receive \/ Lookup \/ FirstQuery \/ RenewToken \/ SecondQuery
            \/ EnforceInstance \/ Create \/ Find \/ ReleaseInstance \/ Delete
            \/ Ack \/ DeliveriesClosed

-----------------------------------------------------------------------------
(* Mutant of Requeued: the queue is consumed with noAck, so a message that *)
(* has been delivered is gone.                                             *)
RequeuedNoAck == IF InHand THEN Tail(queue) ELSE queue

(* What the broker delivers to the next consumer.                          *)
Requeued == queue

Crash ==
  /\ pc # "down"
  /\ crashes < MaxCrashes
  /\ crashes' = crashes + 1
  /\ queue' = Requeued
  /\ pc' = "down" /\ hand' = NoRow
  /\ token' = "none" /\ swiftURL' = FALSE
  /\ UNCHANGED <<group, db, world>>

(* Nova starts an instance and says so, or removes it and says so.         *)
Launch ==
  \E u \in UUIDs \ launched :
     /\ launched' = launched \cup {u} /\ running' = running \cup {u}
     /\ queue' = Append(queue, [type |-> "instance.create.end", uuid |-> u])
     /\ UNCHANGED <<group, db, pc, hand, client, keystone, swift, link, faults, crashes>>

Remove ==
  \E u \in running :
     /\ running' = running \ {u}
     /\ queue' = Append(queue, [type |-> "instance.delete.end", uuid |-> u])
     /\ UNCHANGED <<launched, group, db, pc, hand, client, keystone, swift, link, faults,
                    crashes>>

Fault ==
  /\ faults < MaxFaults
  /\ faults' = faults + 1
  /\ \/ /\ keystone' \in {"failing", "down", "silent"} \ {keystone}
        /\ UNCHANGED <<swift, link, token>>
     \/ swift = "up" /\ swift' = "down" /\ UNCHANGED <<keystone, link, token>>
     \/ link = "up" /\ link' = "lost" /\ UNCHANGED <<keystone, swift, token>>
     \/ token = "valid" /\ token' = "expired" /\ UNCHANGED <<keystone, swift, link>>
  /\ UNCHANGED <<queue, running, launched, group, db, pc, hand, swiftURL, crashes>>

(* A service comes back; a connection that was lost can be made anew, but  *)
(* only once the listener has noticed the loss.                            *)
Recover ==
  /\ \/ keystone # "up" /\ keystone' = "up" /\ UNCHANGED <<swift, link>>
     \/ swift = "down" /\ swift' = "up" /\ UNCHANGED <<keystone, link>>
     \/ link = "lost" /\ ~InHand /\ pc # "idle" /\ link' = "up" /\ UNCHANGED <<keystone, swift>>
  /\ UNCHANGED <<queue, running, launched, group, db, pc, hand, client, faults, crashes>>

Next == Listener \/ Crash \/ Launch \/ Remove \/ Fault \/ Recover

Spec == Init /\ [][Next]_vars

(* The goroutine runs, and a process that has ended is started again, by   *)
(* the operator.  Of the services nothing is assumed.                      *)
FairSpec == Spec /\ WF_vars(Listener)

-----------------------------------------------------------------------------
Stored(u) == \E i \in RowIds(db) : db.rows[i].uuid = u

(* When the queue is empty there is no workload of an instance that is     *)
(* gone, in spite of notifications that are delivered twice, tokens that   *)
(* expire and creates that are handled when the instance has already       *)
(* ended.  (A plugin that refuses the release keeps its workload.)         *)
NoGhosts ==
  queue = <<>> => \A u \in UUIDs \ Plugged : Stored(u) => u \in running

(* An instance has a stored workload if and only if its cores are in the   *)
(* class that the workload names, between notifications.  (A crash between *)
(* Enforce and Create leaves cores in a class that nobody knows of.)       *)
CoresFollowRows ==
  ~InHand /\ crashes = 0 =>
     \A u \in UUIDs \ Plugged : \A c \in PoolClos :
        group[u] = c <=> \E i \in RowIds(db) : db.rows[i].uuid = u /\ db.rows[i].cos = c

(* The queue is worked off, whatever Swift does and however often the      *)
(* process crashes, unless the listener has lost its connection, which it  *)
(* never makes anew, or waits for a Keystone that does not answer.         *)
QueueDrained ==
  []<>(queue = <<>> \/ pc = "stopped" \/ ~Answers)

(* sendQuery: "handle case when token exists but is no longer valid": once *)
(* the services work and keep working, an instance that is announced and   *)
(* keeps running gets its workload, if a class is left; but only if the    *)
(* endpoint of Swift is known, for which Keystone must have answered when  *)
(* the process was started.                                                *)
Quiet == /\ faults = MaxFaults /\ crashes = MaxCrashes
         /\ keystone = "up" /\ swift = "up" /\ link = "up" /\ swiftURL

Announced(u) ==
  /\ \E k \in 1 .. Len(queue) : /\ queue[k] = [type |-> "instance.create.end", uuid |-> u]
                                /\ InHand => k > 1
  /\ Pinning[u] # {} /\ u \notin Foreign \cup Plugged

PolicyApplied ==
  \A u \in UUIDs :
     (Quiet /\ pc # "stopped" /\ Announced(u)) ~> (Stored(u) \/ u \notin running \/ FreeClasses = {})
=============================================================================
