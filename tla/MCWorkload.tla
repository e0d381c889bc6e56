---------------------------- MODULE MCWorkload ----------------------------
(***************************************************************************)
(* Small hosts, and requests for them, on which TLC checks the workload    *)
(* manager.  A host has two or three classes of service to give away, and  *)
(* so few ways that requests have to be refused.                           *)
(***************************************************************************)
EXTENDS WorkloadProperties, TLC

CONSTANTS t1, t2, t3, k1, k2, u1, gold, silver, lost

\* Policy lost is not in the policy file.
MCPolicies == gold :> [max |-> 1, min |-> 1, plug |-> FALSE]
           @@ silver :> [max |-> 2, min |-> 1, plug |-> TRUE]

Req(tasks, cores, max, min, plug) ==
  [tasks |-> tasks, cores |-> cores, policy |-> NoPolicy, max |-> max, min |-> min,
   mba |-> NoMba, plug |-> plug]

Guaranteed(tasks, cores, n) == Req(tasks, cores, n, n, FALSE)

Besteffort(tasks, cores, max, min) == Req(tasks, cores, max, min, FALSE)

Shared(tasks, cores) == Req(tasks, cores, 0, 0, FALSE)

PluginOnly(tasks, cores) == Req(tasks, cores, Nil, Nil, TRUE)

WithPlugin(r) == [r EXCEPT !.plug = TRUE]

ByPolicy(tasks, cores, name) ==
  [Req(tasks, cores, Nil, Nil, FALSE) EXCEPT !.policy = name]

Limited(r, value) == [r EXCEPT !.mba["percentage"] = value]

InMbps(r, value) == [r EXCEPT !.mba["mbps"] = value]

None == {}

\* Nothing distinguishes one REST client from another.
ClientSymmetry == Permutations(Clients)

OneSocket == {0}
TwoSockets == {0, 1}

\* t1, t3 and k1 run on cache 0; t2 and k2 on the last cache.
OneSocketAffinity == [m \in Members |-> {0}]
TwoSocketAffinity == [m \in Members |-> IF m \in {t2, k2} THEN {1} ELSE {0}]

CrashRequests == {Guaranteed({t1}, {}, 1), Besteffort({t2}, {}, 2, 1),
                  WithPlugin(Guaranteed({}, {k1}, 1)), PluginOnly({t1}, {}),
                  Guaranteed({t2}, {}, 3), Req({t1}, {}, 2, 0, FALSE),
                  Req({t1}, {}, 1, 2, FALSE), Shared({t1}, {}), Shared({t2}, {}),
                  Limited(Guaranteed({t1}, {}, 1), 1), InMbps(Guaranteed({t2}, {}, 1), 1),
                  InMbps(ByPolicy({t1}, {}, gold), 1), ByPolicy({t2}, {}, lost)}

(* Clients that each work on their own members, and a virtual machine.     *)
ConcurrentRequests == {Guaranteed({t1}, {}, 1), Besteffort({t2}, {}, 2, 1),
                       Guaranteed({t2, t3}, {}, 2), Shared({t3}, {}), Shared({t1}, {})}
ConcurrentNova == {Guaranteed({}, {k1}, 1)}

(* Requests that overlap in every way, on one or two ways per pool.        *)
WildRequests == {WithPlugin(Guaranteed({t1}, {}, 1)), Besteffort({t1, t2}, {}, 2, 1)}
WildPatches == {Shared({t1}, {}), ByPolicy({t2}, {}, silver), Req({}, {}, 1, Nil, TRUE)}

(* For liveness: few states.                                               *)
LiveRequests == {Guaranteed({t1}, {}, 1), Guaranteed({t1}, {}, 3), PluginOnly({t1}, {})}
LivePatches == {Guaranteed({}, {}, 2), Limited(Req({}, {}, Nil, Nil, FALSE), 1),
                Limited(Req({}, {}, Nil, Nil, FALSE), 3)}

(* Workloads that run on both caches.                                      *)
SpanningRequests == {Guaranteed({t1, t2}, {}, 1), Besteffort({t1, t2}, {}, 3, 1),
                     Guaranteed({}, {k1, k2}, 1), Guaranteed({}, {k1, k2}, 2),
                     Besteffort({}, {k1, k2}, 2, 1),
                     Limited(Guaranteed({t1, t2}, {}, 1), 1),
                     Limited(Guaranteed({t1, t2}, {}, 1), 3),
                     Limited(Besteffort({}, {k1, k2}, 2, 1), 2),
                     Limited(Besteffort({}, {k1, k2}, 2, 1), 1),
                     Limited(ByPolicy({t1, t2}, {}, gold), 1)}

-----------------------------------------------------------------------------
(* The requests of the counterexamples.                                    *)
TwoShared == {Shared({t1}, {}), Shared({t2}, {})}
TwoLimits == {Limited(Guaranteed({t1}, {}, 1), 1), Limited(Guaranteed({t2}, {}, 1), 2)}
=============================================================================
