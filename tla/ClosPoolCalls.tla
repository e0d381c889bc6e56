--------------------------- MODULE ClosPoolCalls ---------------------------
(***************************************************************************)
(* The CLOS pool under any sequence of calls, by callers that obey no      *)
(* protocol: this is all that package pqos can rely on, since none of its  *)
(* functions takes a lock or remembers who holds a CLOS.                   *)
(***************************************************************************)
EXTENDS ClosPool

CONSTANT MaxEntries \* bound of the model: occurrences of a name in a list

ASSUME MaxEntriesAssumption == MaxEntries \in Nat

VARIABLE pool

Within(p) == /\ Len(p.avail) <= MaxEntries
             /\ \A c \in PoolClos : p.used[c] <= MaxEntries

PoolInit == pool = InitCLOSPool

CallUse == /\ pool' = UseAvailableCLOS(pool).pool
           /\ Within(pool')

CallReturn(name) == /\ pool' = ReturnClos(pool, name)
                    /\ Within(pool')

CallGetShared == /\ pool' = GetSharedCLOS(pool).pool
                 /\ Within(pool')

CallMark(name) == /\ pool' = MarkCLOSasUsed(pool, name).pool
                  /\ Within(pool')

ProcessRestart == pool' = InitCLOSPool

PoolNext == \/ CallUse
            \/ \E c \in ClosName : CallReturn(c)
            \/ CallGetShared
            \/ \E c \in PoolClos : CallMark(c)
            \/ ProcessRestart

PoolSpec == PoolInit /\ [][PoolNext]_pool

-----------------------------------------------------------------------------
PoolTypeOK == pool \in Pool

(* No CLOS is ever lost, whatever the callers do: the two lists together   *)
(* always hold every CLOS that InitCLOSPool put into the pool.             *)
PoolConserved == NoneLost(pool)

(* While sharedCLOS names a group, that CLOS counts as used: GetSharedCLOS *)
(* and ReturnClos keep the name and the used list in step.                 *)
SharedReserved == SharedStaysUsed(pool)
=============================================================================
