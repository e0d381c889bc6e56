------------------------------ MODULE Workload ------------------------------
(***************************************************************************)
(* The workload record of modules/workload/types/types.go, reduced to the  *)
(* fields that decide what RMD does with it, and the policies of the       *)
(* policy file.  A pointer that is nil has the value Nil.  The parameters  *)
(* of the loadable plugins are one flag, "some plugin is used".            *)
(***************************************************************************)
EXTENDS ClosPool

CONSTANTS Tasks,  \* task ids a workload may name
          Cores,  \* core ids a workload may name
          MaxId,  \* bound of the model: largest workload id
          MaxSeq, \* bound of the model: largest generated workload id
          UUIDs,  \* OpenStack instance ids
          PolicyName, \* policies that a client may name
          Policies,   \* what the policy file says of those that it has
          NoId, NoUUID, NoRow, NoPolicy

ASSUME MembersAssumption == Tasks \cap Cores = {}
ASSUME IdsAssumption == MaxId \in Nat /\ MaxSeq \in 0 .. MaxId /\ NoId \notin Nat
ASSUME NoUUIDAssumption == NoUUID \notin UUIDs

Ids == 1 .. MaxId

Members == Tasks \cup Cores

Nil == 0 - 1

\* The pointers Rdt.Cache.Max and Rdt.Cache.Min.
WaysOrNil == Nat \cup {Nil}

MbaMode == {"percentage", "mbps"}

\* The pointers Rdt.Mba.Percentage and Rdt.Mba.Mbps.
Mba == [MbaMode -> Nat \cup {Nil}]

NoMba == [unit \in MbaMode |-> Nil]

(* The parameters of a policy.  (Its bandwidth is read as an int, which no *)
(* number of a TOML file is, so a policy never has one.)                   *)
Policy == [max : WaysOrNil, min : WaysOrNil, plug : BOOLEAN]

ASSUME PoliciesAssumption ==
  /\ NoPolicy \notin PolicyName
  /\ DOMAIN Policies \subseteq PolicyName
  /\ \A name \in DOMAIN Policies : Policies[name] \in Policy

(* What a client sends: the members of the workload and what it wants.     *)
Request == [tasks : SUBSET Tasks, cores : SUBSET Cores,
            policy : PolicyName \cup {NoPolicy},
            max : WaysOrNil, min : WaysOrNil, mba : Mba, plug : BOOLEAN]

RDTWorkLoad ==
  [id : Ids \cup {NoId}, tasks : SUBSET Tasks, cores : SUBSET Cores,
   policy : PolicyName \cup {NoPolicy},
   max : WaysOrNil, min : WaysOrNil, mba : Mba, plug : BOOLEAN, cos : ClosName,
   uuid : UUIDs \cup {NoUUID}, origin : {"REST", "OPENSTACK"}]

ASSUME NoRowAssumption == NoRow \notin RDTWorkLoad

(* The workload a request becomes.  (cos_name, a result that a POST may    *)
(* give as well, is taken to be empty.)                                    *)
NewRDTWorkLoad(r, id, uuid, origin) ==
  [id |-> id, tasks |-> r.tasks, cores |-> r.cores, policy |-> r.policy,
   max |-> r.max, min |-> r.min, mba |-> r.mba, plug |-> r.plug, cos |-> NoClos,
   uuid |-> uuid, origin |-> origin]

-----------------------------------------------------------------------------
CacheTogether(w) == w.max = Nil <=> w.min = Nil

(* fillWorkloadByPolicy: the cache values of the policy, if it has both,   *)
(* and its plugins replace those of the workload; the bandwidth stays.  It *)
(* fails, before it comes to the plugins, for a policy that is not there   *)
(* and where the cache values do not come together.                        *)
FilledByPolicy(w) ==
  LET p      == Policies[w.policy]
      cache  == p.max # Nil /\ p.min # Nil
      filled == [w EXCEPT !.max = IF cache THEN p.max ELSE @,
                          !.min = IF cache THEN p.min ELSE @]
  IN  IF w.policy \notin DOMAIN Policies THEN w
      ELSE IF CacheTogether(filled) THEN [filled EXCEPT !.plug = @ \/ p.plug]
      ELSE filled

CanFill(w) == w.policy \in DOMAIN Policies /\ CacheTogether(FilledByPolicy(w))

(* The members of a patch replace those of the workload.                   *)
WithMembers(w, p) ==
  [w EXCEPT !.tasks = IF p.tasks # {} THEN p.tasks ELSE w.tasks,
            !.cores = IF p.cores # {} THEN p.cores ELSE w.cores]

MembersDiffer(w, p) == p.tasks # w.tasks \/ p.cores # w.cores

(* update: what becomes of the parameters of workload w under patch p.     *)
(* Another policy replaces them; a cache value or bandwidth ends the       *)
(* policy, whose cache values the workload keeps where p has none.         *)
Merged(w, p) ==
  LET f == FilledByPolicy(w)
  IN  IF p.policy = w.policy /\ w.policy # NoPolicy THEN w
      ELSE IF p.policy # NoPolicy THEN FilledByPolicy([w EXCEPT !.policy = p.policy])
      ELSE [f EXCEPT
              !.policy = IF p.max = Nil /\ p.min = Nil /\ p.mba = NoMba THEN @ ELSE NoPolicy,
              !.max    = IF p.max = Nil THEN @ ELSE p.max,
              !.min    = IF p.min = Nil THEN @ ELSE p.min,
              !.mba    = [unit \in MbaMode |-> IF p.mba[unit] = Nil THEN f.mba[unit]
                                                ELSE p.mba[unit]]]

MbaChanged(w, p) == Merged(w, p).mba # w.mba

reEnforce(w, p) ==
  LET f == FilledByPolicy(w)
  IN  \/ p.policy \notin {NoPolicy, w.policy}
      \/ /\ p.policy = NoPolicy
         /\ \/ Merged(w, p).max # f.max
            \/ Merged(w, p).min # f.min
            \/ MbaChanged(w, p)
            \/ p.plug /\ ~f.plug

\* The workload that is enforced again: with the plugins of the patch only.
Patched(w, p) == [WithMembers(Merged(w, p), p) EXCEPT !.plug = p.plug]

(* The cache values that count: those of the policy, or the workload's.    *)
CacheOf(w) == IF w.policy \in DOMAIN Policies
              THEN [max |-> Policies[w.policy].max, min |-> Policies[w.policy].min]
              ELSE [max |-> w.max, min |-> w.min]

(* A bandwidth counts only without a policy.                               *)
UsesMba(w) == w.mba # NoMba /\ w.policy = NoPolicy
=============================================================================
