-------------------------- MODULE LifecycleProofs --------------------------
(***************************************************************************)
(* OneRoot holds for any number of launches and of faults.  What makes it  *)
(* hold: only one launch at a time is between its start and the end of     *)
(* CreatePID, and from CheckPID to WritePID no process is named by the pid *)
(* file, because nobody else may write it.                                 *)
(***************************************************************************)
EXTENDS Lifecycle, TLAPS

\* Before or in CreatePID.
Starting == {"init", "check", "open", "write"}

Leftovers == {"none", "empty", "stale", "reused"}

RootTypes == /\ root \in [Slots -> {"gone"} \cup Starting \cup Owner]
             /\ pidfile \in Slots \cup Leftovers

OneStarting == \A j, k \in Slots : root[j] \in Starting /\ root[k] \in Starting => j = k

FileNamesOwner == \A k \in Slots : pidfile = k <=> root[k] \in Owner

WriterUnopposed == \A k \in Slots : root[k] \in {"open", "write"} => pidfile \in Leftovers

RootInv == RootTypes /\ OneStarting /\ FileNamesOwner /\ WriterUnopposed

-----------------------------------------------------------------------------
(* RootEnds, in whichever state the process is: the pid file, with the     *)
(* content that the caller leaves in it, names no process that has ended.  *)
LEMMA RootEndsKeeps ==
  ASSUME NEW k \in Slots, NEW content, RootInv, RootEnds(k, content),
         \/ content = pidfile
         \/ content = ClosePID(k)
  PROVE  RootInv'
<1> USE SlotNames DEF RootInv, Starting, Leftovers, Owner
<1>1. /\ root' = [root EXCEPT ![k] = "gone"]
      /\ pidfile' = IF pidfile = k THEN pidfile' ELSE pidfile
      /\ pidfile = k => pidfile' \in {"stale", "none"}
  BY DEF RootEnds, AfterRoot, ClosePID, RootTypes
<1>2. RootTypes'
  BY <1>1 DEF RootTypes
<1>3. OneStarting'
  BY <1>1 DEF RootTypes, OneStarting
<1>4. FileNamesOwner'
  BY <1>1 DEF RootTypes, FileNamesOwner
<1>5. WriterUnopposed'
  BY <1>1 DEF RootTypes, WriterUnopposed
<1> QED
  BY <1>2, <1>3, <1>4, <1>5

(* The steps of the root process keep the invariant.                       *)
LEMMA RootStepKeeps ==
  ASSUME NEW k \in Slots, RootInv, Launch(k) \/ Step(k) \/ RootFails(k)
  PROVE  RootInv'
<1> USE SlotNames DEF Starting, Leftovers, Owner, Others, RootGoes
<1> USE DEF RootInv
<1>1. CASE Launch(k)
  BY <1>1 DEF Launch, RootTypes, OneStarting, FileNamesOwner, WriterUnopposed
<1>2. CASE Initialized(k)
  BY <1>2 DEF Initialized, RootTypes, OneStarting, FileNamesOwner, WriterUnopposed
<1>3. CASE CheckPID(k)
  <2>1. CASE ~AlreadyRunning /\ RootGoes(k, "check", "open") /\ UNCHANGED <<pidfile, faults, Others>>
    BY <2>1 DEF AlreadyRunning, RootTypes, OneStarting, FileNamesOwner, WriterUnopposed
  <2>2. CASE AlreadyRunning /\ root[k] = "check" /\ RootEnds(k, pidfile) /\ UNCHANGED faults
    BY <2>2, RootEndsKeeps
  <2> QED
    BY <1>3, <2>1, <2>2 DEF CheckPID
<1>4. CASE OpenPID(k)
  <2>1. \A j \in Slots : root[j] \notin Owner
    BY <1>4 DEF OpenPID, WriterUnopposed, FileNamesOwner
  <2> QED
    BY <1>4, <2>1 DEF OpenPID, RootTypes, OneStarting, FileNamesOwner, WriterUnopposed
<1>5. CASE WritePID(k)
  <2>1. \A j \in Slots : root[j] \notin Owner
    BY <1>5 DEF WritePID, WriterUnopposed, FileNamesOwner
  <2>2. \A j \in Slots \ {k} : root[j] \notin {"open", "write"}
    BY <1>5 DEF WritePID, OneStarting
  <2> QED
    BY <1>5, <2>1, <2>2 DEF WritePID, RootTypes, OneStarting, FileNamesOwner, WriterUnopposed
<1>6. CASE Spawn(k)
  BY <1>6 DEF Spawn, RootTypes, OneStarting, FileNamesOwner, WriterUnopposed
<1>7. CASE Serve(k)
  BY <1>7 DEF Serve, RootTypes, OneStarting, FileNamesOwner, WriterUnopposed
<1>8. CASE ChildWaited(k)
  BY <1>8, RootEndsKeeps DEF ChildWaited
<1>9. CASE RootFails(k)
  BY <1>9, RootEndsKeeps DEF RootFails
<1> QED
  BY <1>1, <1>2, <1>3, <1>4, <1>5, <1>6, <1>7, <1>8, <1>9 DEF Step

(* The steps of a child, its end included, touch neither a root process    *)
(* nor the pid file: Hangup's ClosePID finds the pid of another process.   *)
LEMMA ChildStepKeeps ==
  ASSUME NEW k \in Slots, RootTypes, ChildStep(k) \/ ChildFails(k)
  PROVE  UNCHANGED <<root, pidfile>>
<1> USE SlotNames DEF ChildEnds, ChildGoes
<1>1. CASE Hangup(k)
  BY <1>1 DEF Hangup, ClosePID, RootTypes, Leftovers
<1>2. CASE OSGroup(k)
  BY <1>2 DEF OSGroup
<1>3. CASE SetDeathSignal(k) \/ Connect(k) \/ OpenDB(k) \/ Listen(k)
  BY <1>3 DEF SetDeathSignal, Connect, OpenDB, Listen
<1>4. CASE ChildFails(k)
  BY <1>4 DEF ChildFails
<1> QED
  BY <1>1, <1>2, <1>3, <1>4 DEF ChildStep

(* The inductive step.                                                     *)
LEMMA NextKeepsRootInv ==
  RootInv /\ [Next]_vars => RootInv'
<1> SUFFICES ASSUME RootInv, [Next]_vars
             PROVE  RootInv'
  OBVIOUS
<1>1. CASE UNCHANGED <<root, pidfile>>
  BY <1>1 DEF RootInv, RootTypes, OneStarting, FileNamesOwner, WriterUnopposed
<1>2. CASE PidReused \/ PidFree
  BY <1>2, SlotNames DEF PidReused, PidFree, Others, RootInv, RootTypes, OneStarting,
                         FileNamesOwner, WriterUnopposed, Leftovers
<1>3. ASSUME NEW k \in Slots, Launch(k) \/ Step(k) \/ RootFails(k)
      PROVE  RootInv'
  BY <1>3, RootStepKeeps
<1>4. ASSUME NEW k \in Slots, ChildStep(k) \/ ChildFails(k)
      PROVE  RootInv'
  BY <1>1, <1>4, ChildStepKeeps DEF RootInv
<1>5. CASE UNCHANGED vars
  BY <1>1, <1>5 DEF vars
<1> QED
  BY <1>2, <1>3, <1>4, <1>5 DEF Next

(* CreatePID and ClosePID: whatever is killed at whatever moment, at most  *)
(* one root process is past CreatePID, and the pid file names it.          *)
THEOREM OneRootHolds == Spec => []OneRoot
<1>1. Init => RootInv
  BY SlotNames DEF Init, RootInv, RootTypes, OneStarting, FileNamesOwner, WriterUnopposed,
                   Starting, Owner, Leftovers
<1>2. RootInv => OneRoot
  BY DEF RootInv, FileNamesOwner, OneRoot
<1> QED
  BY <1>1, <1>2, NextKeepsRootInv, PTL DEF Spec
=============================================================================
