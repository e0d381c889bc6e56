----------------------------- MODULE Lifecycle -----------------------------
(***************************************************************************)
(* How RMD starts and ends (cmd/rmd): a root process that guards itself    *)
(* with a pid file and starts a child without privileges, which opens the  *)
(* database, sets up the OS group through the root process and serves the  *)
(* REST API.  Either of them may end at any moment; the child asks the     *)
(* kernel for a SIGHUP when its parent ends, and the root process waits    *)
(* for its child.                                                          *)
(*                                                                         *)
(* A slot is one launch of the program, from its start until both of its   *)
(* processes have ended.  The pid file is described by what its content    *)
(* means: nothing, the root process of a slot, a process that has ended    *)
(* ("stale"), or one that has ended and whose pid another program has got  *)
(* ("reused").                                                             *)
(***************************************************************************)
EXTENDS Naturals, FiniteSets

CONSTANTS Slots,     \* bound of the model: launches at the same time
          MaxFaults  \* bound of the model: kills, failed steps, reused pids

ASSUME SlotsAssumption == Slots # {} /\ IsFiniteSet(Slots) /\ MaxFaults \in Nat
ASSUME SlotNames == Slots \cap {"none", "empty", "stale", "reused", "child"} = {}

VARIABLES root,      \* the step of the root process of a slot
          child,     \* the step of its child
          deathSig,  \* slots whose child gets a SIGHUP when its parent ends
          hup,       \* slots whose child has got it
          pidfile,   \* what /var/run/rmd.pid names
          dbLock,    \* the slot that has the lock of the database file
          port,      \* the slot that listens
          faults

vars == <<root, child, deathSig, hup, pidfile, dbLock, port, faults>>

NoSlot == "none"

\* Past CreatePID.
Owner == {"spawn", "openstack", "serve"}

RootLives(k) == root[k] # "gone"

ChildLives(k) == child[k] \notin {"gone", "failed"}

Init ==
  /\ root = [k \in Slots |-> "gone"]
  /\ child = [k \in Slots |-> "gone"]
  /\ deathSig = {} /\ hup = {}
  /\ pidfile = "none"
  /\ dbLock = NoSlot /\ port = NoSlot
  /\ faults = 0

Fault == faults < MaxFaults /\ faults' = faults + 1

-----------------------------------------------------------------------------
(* The end of a process.  The kernel gives back its locks and its port,    *)
(* and sends SIGHUP to a child that has asked for it.                      *)

AfterRoot(k, content) == IF content = k THEN "stale" ELSE content

RootEnds(k, content) ==
  /\ root' = [root EXCEPT ![k] = "gone"]
  /\ pidfile' = AfterRoot(k, content)
  /\ hup' = IF k \in deathSig /\ ChildLives(k) THEN hup \cup {k} ELSE hup
  /\ child' = IF child[k] = "failed" THEN [child EXCEPT ![k] = "gone"] ELSE child
  /\ UNCHANGED <<deathSig, dbLock, port>>

\* Nobody waits for a child whose parent has ended.
ChildEnds(k) ==
  /\ child' = [child EXCEPT ![k] = IF RootLives(k) THEN "failed" ELSE "gone"]
  /\ deathSig' = deathSig \ {k} /\ hup' = hup \ {k}
  /\ dbLock' = IF dbLock = k THEN NoSlot ELSE dbLock
  /\ port' = IF port = k THEN NoSlot ELSE port
  /\ UNCHANGED root

-----------------------------------------------------------------------------
(* The root process.                                                       *)

RootGoes(k, from, to) == root[k] = from /\ root' = [root EXCEPT ![k] = to]

Others == <<child, deathSig, hup, dbLock, port>>

(* Nobody starts two at the same moment: CreatePID is not atomic.          *)
Launch(k) ==
  /\ child[k] = "gone"
  /\ \A j \in Slots : root[j] \notin {"init", "check", "open", "write"}
  /\ RootGoes(k, "gone", "init")
  /\ UNCHANGED <<pidfile, faults, Others>>

(* libpqos, configuration, log, plugins, resctrl, MBA mode, the rmd user.  *)
Initialized(k) == RootGoes(k, "init", "check") /\ UNCHANGED <<pidfile, faults, Others>>

(* Mutant of AlreadyRunning: only whether there is a pid file.             *)
PidFileExists == pidfile # "none"

(* CreatePID: Glob("/proc/" + pid) finds something.  An empty file makes   *)
(* it look for "/proc/" itself.                                            *)
AlreadyRunning == pidfile \in Slots \cup {"empty", "reused"}

CheckPID(k) ==
  \/ ~AlreadyRunning /\ RootGoes(k, "check", "open") /\ UNCHANGED <<pidfile, faults, Others>>
  \/ AlreadyRunning /\ root[k] = "check" /\ RootEnds(k, pidfile) /\ UNCHANGED faults

(* O_TRUNC, and only then Write.                                           *)
OpenPID(k) == /\ RootGoes(k, "open", "write")
              /\ pidfile' = "empty"
              /\ UNCHANGED <<faults, Others>>

WritePID(k) == /\ RootGoes(k, "write", "spawn")
               /\ pidfile' = k
               /\ UNCHANGED <<faults, Others>>

(* DropRunAs.                                                              *)
Spawn(k) ==
  /\ RootGoes(k, "spawn", "openstack")
  /\ child' = [child EXCEPT ![k] = "start"]
  /\ UNCHANGED <<deathSig, hup, pidfile, dbLock, port, faults>>

(* openstack.Init, and RegisterAndServe, which never returns: the root     *)
(* process keeps the child's ends of the pipes open.                       *)
Serve(k) == RootGoes(k, "openstack", "serve") /\ UNCHANGED <<pidfile, faults, Others>>

(* Every step before "serve" can fail: os.Exit(1), with the child running  *)
(* and the pid file in place.  And the process can be killed.              *)
RootFails(k) == Fault /\ RootLives(k) /\ RootEnds(k, pidfile)

(* Mutant of ClosePID: the file is removed, whoever it names.              *)
RemoveAnyPID(own) == "none"

(* ClosePID: only a pid file with the caller's own pid is removed.         *)
ClosePID(own) == IF pidfile = own THEN "none" ELSE pidfile

(* The goroutine that waits for the child.  (It does nothing about a child *)
(* that exits with 0, which is one that has a Unix socket configured and   *)
(* cannot listen on it; there is none here.)                               *)
ChildWaited(k) ==
  /\ root[k] \in {"openstack", "serve"}
  /\ child[k] = "failed"
  /\ RootEnds(k, ClosePID(k))
  /\ UNCHANGED faults

-----------------------------------------------------------------------------
(* The child.                                                              *)

ChildGoes(k, from, to) == child[k] = from /\ child' = [child EXCEPT ![k] = to]

(* Mutant of SetDeathSignal.                                               *)
NoDeathSignal(k) ==
  /\ ChildGoes(k, "start", "connect")
  /\ UNCHANGED <<root, deathSig, hup, pidfile, dbLock, port, faults>>

(* prctl(PR_SET_PDEATHSIG): of no use when the parent has already ended.   *)
SetDeathSignal(k) ==
  /\ ChildGoes(k, "start", "connect")
  /\ deathSig' = IF RootLives(k) THEN deathSig \cup {k} ELSE deathSig
  /\ UNCHANGED <<root, hup, pidfile, dbLock, port, faults>>

(* ConnectRPCServer; nothing is sent.                                      *)
Connect(k) == /\ ChildGoes(k, "connect", "db")
              /\ UNCHANGED <<root, deathSig, hup, pidfile, dbLock, port, faults>>

(* DBCheck.  bolt.Open waits for the lock of the file, for ever.           *)
OpenDB(k) ==
  /\ dbLock = NoSlot
  /\ ChildGoes(k, "db", "osgroup")
  /\ dbLock' = k
  /\ UNCHANGED <<root, deathSig, hup, pidfile, port, faults>>

(* SetOSGroup, the first call of the root process, which answers once it   *)
(* has come to RegisterAndServe.                                           *)
OSGroup(k) ==
  \/ /\ root[k] = "serve"
     /\ ChildGoes(k, "osgroup", "listen")
     /\ UNCHANGED <<root, deathSig, hup, pidfile, dbLock, port, faults>>
  \/ /\ ~RootLives(k) /\ child[k] = "osgroup"
     /\ ChildEnds(k)
     /\ UNCHANGED <<pidfile, faults>>

(* RunServer: Initialize, then ListenAndServeTLS, or log.Fatal.            *)
Listen(k) ==
  /\ port = NoSlot
  /\ ChildGoes(k, "listen", "serving")
  /\ port' = k
  /\ UNCHANGED <<root, deathSig, hup, pidfile, dbLock, faults>>

(* The handler of SIGHUP.  The pid file never names the child.             *)
Hangup(k) ==
  /\ k \in hup
  /\ pidfile' = ClosePID("child")
  /\ ChildEnds(k)
  /\ UNCHANGED faults

ChildFails(k) == Fault /\ ChildLives(k) /\ ChildEnds(k) /\ UNCHANGED pidfile

-----------------------------------------------------------------------------
(* The pid of a process that has ended is given to another program, which  *)
(* ends at some time.                                                      *)
PidReused == /\ pidfile = "stale"
             /\ Fault
             /\ pidfile' = "reused"
             /\ UNCHANGED <<root, Others>>

PidFree == /\ pidfile = "reused"
           /\ pidfile' = "stale"
           /\ UNCHANGED <<root, faults, Others>>

Step(k) == \/ Initialized(k) \/ CheckPID(k) \/ OpenPID(k) \/ WritePID(k)
           \/ Spawn(k) \/ Serve(k) \/ ChildWaited(k)

ChildStep(k) == \/ SetDeathSignal(k) \/ Connect(k) \/ OpenDB(k)
                \/ OSGroup(k) \/ Listen(k) \/ Hangup(k)

Next ==
  \/ \E k \in Slots : \/ Launch(k) \/ Step(k) \/ ChildStep(k)
                      \/ RootFails(k) \/ ChildFails(k)
  \/ PidReused \/ PidFree

Spec == Init /\ [][Next]_vars

NoneRuns == \A k \in Slots : ~RootLives(k)

(* Processes run; and when RMD does not run, somebody starts it.  (The     *)
(* unit rmd.service has no Restart, so this is the operator.)              *)
FairSpec ==
  /\ Spec
  /\ \A k \in Slots : WF_vars(Step(k)) /\ WF_vars(ChildStep(k))
  /\ WF_vars(NoneRuns /\ \E k \in Slots : Launch(k))

-----------------------------------------------------------------------------
(* CreatePID: two root processes never control the platform at the same    *)
(* time, if they are not started at the same moment; and the pid file      *)
(* names the one that does, whatever is left of earlier launches.          *)
OneRoot ==
  \A k \in Slots : root[k] \in Owner =>
     pidfile = k /\ \A j \in Slots \ {k} : root[j] \notin Owner

(* rmd.go: "shutdown RMD for root process exit": a child whose root        *)
(* process has ended does not stay, even if that happened before it asked  *)
(* for a signal.  (In that case it may have to wait for the lock of the    *)
(* database, without which it does nothing, while another RMD runs.)       *)
OrphansEnd ==
  \A k \in Slots :
     (ChildLives(k) /\ ~RootLives(k))
       ~> (~ChildLives(k) \/ (child[k] = "db" /\ dbLock # NoSlot))

(* RMD comes to serve again, whatever was killed at what moment; but not   *)
(* while the pid file is empty, because of a root process killed between   *)
(* opening and writing it, or names the pid of another program.            *)
ServesAgain ==
  []<>(\/ \E k \in Slots : root[k] \in Owner /\ child[k] = "serving"
       \/ pidfile \in {"empty", "reused"})
=============================================================================
