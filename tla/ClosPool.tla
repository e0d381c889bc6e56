------------------------------ MODULE ClosPool ------------------------------
(***************************************************************************)
(* The pool of classes of service (CLOS) of package pqos: the lists        *)
(* availableCLOSes and usedCLOSes, the name sharedCLOS, and the functions  *)
(* that move names between them (utils/pqos/pqos.go).  A CLOS name "COSn"  *)
(* is the number n.  availableCLOSes is a queue: names are taken from its  *)
(* head and returned at its end.  The order of usedCLOSes is never         *)
(* observed, only whether a name occurs in it, and a name may occur more   *)
(* than once, so it is a bag: used[c] is the number of occurrences of c.   *)
(*                                                                         *)
(* The functions are operators from a pool to a result, because the        *)
(* workload manager calls several of them in one critical section.         *)
(* ClosPoolCalls lets any caller call any of them in any order.            *)
(***************************************************************************)
EXTENDS Naturals, Sequences

CONSTANTS NumClos,   \* resctrl.GetNumOfCLOS(true, true): min of L3 and MBA
          NoClos     \* the empty CLOS name ""

ASSUME NumClosAssumption == NumClos \in Nat /\ NumClos >= 3
ASSUME NoClosAssumption == NoClos \notin Nat

\* COS0 (the OS group) and COS1 (the infra group) are reserved.
PoolClos == 2 .. (NumClos - 1)

ClosName == PoolClos \cup {NoClos}

Pool == [avail : Seq(PoolClos), used : [PoolClos -> Nat], shared : ClosName]

\* A pool given by its three variables.
PoolOf(avail, used, shared) == [avail |-> avail, used |-> used, shared |-> shared]

Available(p) == {p.avail[i] : i \in DOMAIN p.avail}

Used(p) == {c \in PoolClos : p.used[c] > 0}

(* A new process: InitCLOSPool fills the available list with COS2, COS3... *)
(* in this order; sharedCLOS is the zero value of a fresh process.         *)
InitCLOSPool ==
  PoolOf([i \in 1 .. (NumClos - 2) |-> i + 1], [c \in PoolClos |-> 0], NoClos)

UseAvailableCLOS(p) ==
  IF p.avail = <<>>
  THEN [ok |-> FALSE, clos |-> NoClos, pool |-> p]
  ELSE [ok   |-> TRUE,
        clos |-> Head(p.avail),
        pool |-> PoolOf(Tail(p.avail), [p.used EXCEPT ![Head(p.avail)] = @ + 1],
                        p.shared)]

(* Mutants of ReturnClos: the used list is not searched first; the shared  *)
(* CLOS is taken off the used list but not made available; the name of the *)
(* shared CLOS is not forgotten.                                           *)
ReturnUnchecked(p, name) ==
  IF name = NoClos
  THEN p
  ELSE IF name = p.shared
  THEN PoolOf(Append(p.avail, name), p.used, NoClos)
  ELSE PoolOf(Append(p.avail, name), [p.used EXCEPT ![name] = @ - 1], p.shared)

ReturnLosesShared(p, name) ==
  IF name = NoClos \/ name \notin Used(p)
  THEN p
  ELSE IF name = p.shared
  THEN PoolOf(p.avail, [p.used EXCEPT ![name] = @ - 1], NoClos)
  ELSE PoolOf(Append(p.avail, name), [p.used EXCEPT ![name] = @ - 1], p.shared)

ReturnKeepsShared(p, name) ==
  IF name = NoClos \/ name \notin Used(p)
  THEN p
  ELSE PoolOf(Append(p.avail, name), [p.used EXCEPT ![name] = @ - 1], p.shared)

(* The shared CLOS is appended to the available list and forgotten, but    *)
(* its entry in the used list stays.  Any other name must be in the used   *)
(* list, from which one occurrence is removed.                             *)
ReturnClos(p, name) ==
  IF name = NoClos
  THEN p
  ELSE IF name = p.shared
  THEN PoolOf(Append(p.avail, name), p.used, NoClos)
  ELSE IF name \in Used(p)
  THEN PoolOf(Append(p.avail, name), [p.used EXCEPT ![name] = @ - 1], p.shared)
  ELSE p

(* Mutant of GetSharedCLOS: a class is reserved for every caller.          *)
GetSharedAlwaysNew(p) ==
  LET r == UseAvailableCLOS(p)
  IN  [ok |-> r.ok, clos |-> r.clos,
       pool |-> PoolOf(r.pool.avail, r.pool.used, r.clos)]

GetSharedCLOS(p) ==
  IF p.shared # NoClos
  THEN [ok |-> TRUE, clos |-> p.shared, pool |-> p]
  ELSE LET r == UseAvailableCLOS(p)
       IN  [ok |-> r.ok, clos |-> r.clos,
            pool |-> PoolOf(r.pool.avail, r.pool.used, r.clos)]

IsSharedCLOS(p, name) == name = p.shared

(* The position of the first occurrence of name in the available list.     *)
IndexInAvailable(p, name) ==
  CHOOSE i \in DOMAIN p.avail :
    p.avail[i] = name /\ \A j \in DOMAIN p.avail : p.avail[j] = name => i <= j

(* Mutant of MarkCLOSasUsed: the name is only looked up.                   *)
MarkOnlyLooks(p, name) == [ok |-> name \in Available(p), pool |-> p]

MarkCLOSasUsed(p, name) ==
  IF name \notin Available(p)
  THEN [ok |-> FALSE, pool |-> p]
  ELSE LET i == IndexInAvailable(p, name)
       IN  [ok   |-> TRUE,
            pool |-> PoolOf(SubSeq(p.avail, 1, i - 1)
                              \o SubSeq(p.avail, i + 1, Len(p.avail)),
                            [p.used EXCEPT ![name] = @ + 1], p.shared)]

-----------------------------------------------------------------------------
(* Every CLOS of the platform except the two reserved ones is in at least  *)
(* one of the two lists.                                                   *)
NoneLost(p) == Available(p) \cup Used(p) = PoolClos

(* The CLOS of a reserved shared group counts as used.                     *)
SharedStaysUsed(p) == p.shared # NoClos => p.shared \in Used(p)
=============================================================================
