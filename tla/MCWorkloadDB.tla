---------------------------- MODULE MCWorkloadDB ----------------------------
(* Instances of WorkloadDBCalls: two tasks, one core, workloads that name  *)
(* one task, both tasks or the core, and PATCHes that name them as well.   *)
EXTENDS WorkloadDBCalls

CONSTANT gold

Req(tasks, cores, max) ==
  [tasks |-> tasks, cores |-> cores, policy |-> NoPolicy, max |-> max, min |-> max,
   mba |-> NoMba, plug |-> FALSE]

MCPolicies == [p \in PolicyName |-> [max |-> 2, min |-> 2, plug |-> FALSE]]

MCRequests == {Req({t}, {}, 1) : t \in Tasks} \cup {Req(Tasks, {}, 1)}
              \cup {Req({}, {c}, 1) : c \in Cores}

\* A change of the cache, of cache and members, of members only, a policy.
MCPatches == {Req({}, {}, 2), Req({}, Cores, 2)} \cup {Req({t}, {}, Nil) : t \in Tasks}
             \cup {[Req({}, {}, Nil) EXCEPT !.policy = gold]}
=============================================================================
