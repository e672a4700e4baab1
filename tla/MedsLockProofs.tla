--------------------------- MODULE MedsLockProofs ---------------------------
(***************************************************************************)
(* HSMPresLock: who holds it, and what its holder can rely on.             *)
(***************************************************************************)
EXTENDS MedsProofs

(***************************************************************************)
(* The inductive invariant.  BootSync must find no lock held by a sync, so *)
(* the HSM watcher must not run before it; the verdicts of the second loop *)
(* must start from an empty set of visited objects.                        *)
(***************************************************************************)
BootOK == mainPc = "boot" => syncPc = "off"
SeenOK == syncPc = "get" => syncSeen = {}
LockInv == LockDiscipline /\ BootOK /\ SeenOK /\ SyncVerdictStands

\* No lock is held at the beginning ...
LEMMA LockInit == Init => LockInv
BY DEF Init, LockInv, LockDiscipline, BootOK, SeenOK, SyncVerdictStands

\* ... nor in a new process.
LEMMA LockRestart == Restart => LockInv'
BY DEF Restart, LockInv, LockDiscipline, BootOK, SeenOK, SyncVerdictStands

\* A poll writes the presence of an object only while it holds its lock, and
\* leaves the lock when it is done.
LEMMA LockWatch ==
    ASSUME TypeInv, LockInv, NEW p \in Endpoint, WatchNext(p) PROVE LockInv'
<1>1. UNCHANGED WatchKeeps
  BY PollStepShape, Zenon DEF WatchNext, Tick, PollLock
<1>2. BootOK' /\ SeenOK'
  BY <1>1 DEF WatchKeeps, LockInv, BootOK, SeenOK, syncVars, mainVars
<1>3. CASE Tick(p)
  BY <1>1, <1>2, <1>3 DEF Tick, WatchKeeps, LockInv, LockDiscipline, SyncVerdictStands, syncVars
<1>4. CASE PollLock(p)
  BY <1>1, <1>2, <1>4 DEF PollLock, WatchKeeps, LockInv, LockDiscipline, SyncVerdictStands, syncVars,
     TypeInv, TypeOK, PollTypeOK
<1>5. CASE PollMoves(p)
  BY <1>1, <1>2, <1>5 DEF PollMoves, WatchKeeps, LockInv, LockDiscipline, SyncVerdictStands, syncVars,
     TypeInv, TypeOK, PollTypeOK
<1>6. CASE PollEnds(p)
  BY <1>1, <1>2, <1>6 DEF PollEnds, WatchKeeps, LockInv, LockDiscipline, SyncVerdictStands, syncVars,
     TypeInv, TypeOK, PollTypeOK
<1> QED
  BY <1>3, <1>4, <1>5, <1>6, PollStepShape DEF WatchNext

\* queryHSMState releases what it locked on every path, and takes a lock only
\* when no poll has it.
LEMMA LockSync == ASSUME TypeInv, LockInv, SyncNext PROVE LockInv'
<1> USE DEF SyncKeeps, mainVars, LockInv, LockDiscipline, BootOK, SeenOK, SyncVerdictStands,
            TypeInv, TypeOK, PollTypeOK, SyncTypeOK
<1>1. CASE SyncStart
  BY <1>1 DEF SyncStart
<1>2. ASSUME NEW o \in Endpoint, SyncPick(o) PROVE LockInv'
  BY <1>2 DEF SyncPick, Visit
<1>3. CASE SyncLock
  BY <1>3 DEF SyncLock
<1>4. CASE SyncLocked
  BY <1>4 DEF SyncLocked
<1>5. CASE SyncGet
  BY <1>5 DEF SyncGet
<1>6. CASE SyncGetFails
  BY <1>6 DEF SyncGetFails, SyncReturns
<1>7. ASSUME NEW o \in Endpoint, SyncApply(o) PROVE LockInv'
  BY <1>7 DEF SyncApply, Visit
<1>8. CASE SyncFinish
  BY <1>8 DEF SyncFinish, SyncReturns
<1> QED
  BY <1>1, <1>2, <1>3, <1>4, <1>5, <1>6, <1>7, <1>8 DEF SyncNext, SyncStep

\* main takes no HSMPresLock; a new object is one that nobody has locked.
LEMMA LockMain == ASSUME TypeInv, LockInv, MainNext PROVE LockInv'
<1> USE DEF MainKeeps, MainAt, LoopKeeps, KeepMaps, KeepObjects, LockInv, LockDiscipline, BootOK, SeenOK,
            SyncVerdictStands, TypeInv, TypeOK, PollTypeOK, SyncTypeOK
<1>1. CASE BootSync
  BY <1>1 DEF BootSync
<1>2. CASE BootSyncRetry
  BY <1>2 DEF BootSyncRetry, syncVars
<1>3. CASE Wake \/ WakeFails \/ MainRLock \/ InitReturns \/ ScanDone \/ RefreshDone
  BY <1>3 DEF Wake, WakeFails, MainRLock, InitReturns, ScanDone, RefreshDone
<1>4. ASSUME NEW cab \in Cabinet, ScanCabinet(cab) PROVE LockInv'
  BY <1>4 DEF ScanCabinet
<1>5. ASSUME NEW c \in Chassis, ScanKnown(c) \/ ScanNew(c) \/ Remove(c) PROVE LockInv'
  BY <1>5 DEF ScanKnown, ScanNew, Remove
<1>6. ASSUME NEW o \in Endpoint, InitPresence(o) PROVE LockInv'
  BY <1>6 DEF InitPresence, Unused
<1>7. ASSUME NEW o \in Endpoint, Quit(o) PROVE LockInv'
  BY <1>7 DEF Quit
<1>8. CASE Publish
  BY <1>8 DEF Publish
<1>9. CASE Unlink
  BY <1>9 DEF Unlink
<1>10. CASE RemoveReturns
  BY <1>10 DEF RemoveReturns
<1> QED
  BY <1>1, <1>2, <1>3, <1>4, <1>5, <1>6, <1>7, <1>8, <1>9, <1>10 DEF MainNext

\* The environment and the CA roll leave the locks alone.
LEMMA LockEnv == ASSUME TypeInv, LockInv, EnvNext PROVE LockInv'
<1>1. CASE Crash \/ BootFatal
  BY <1>1, LockRestart DEF Crash, BootFatal
<1>2. ASSUME UNCHANGED <<pollVars, syncVars, mainPc>> PROVE LockInv'
  BY <1>2 DEF LockInv, LockDiscipline, BootOK, SeenOK, SyncVerdictStands, pollVars, syncVars
<1> QED
  BY <1>1, <1>2, Zenon DEF EnvNext, CARollBegins, CARollEnds, AdminDisables, AdminDeletes, AdminSets, Power,
     SlsEdit, KeepProgram, mainVars

\* Every step of the system preserves the invariant of the locks.
LEMMA LockNext == ASSUME TypeInv, LockInv, [Next]_vars PROVE LockInv'
<1>1. CASE UNCHANGED vars
  BY <1>1 DEF vars, pollVars, syncVars, mainVars, LockInv, LockDiscipline, BootOK, SeenOK, SyncVerdictStands
<1> QED
  BY <1>1, LockWatch, LockSync, LockMain, LockEnv DEF Next

\* The invariant of the locks.
LEMMA LockInvariant == Spec => []LockInv
<1>1. Init => LockInv
  BY LockInit
<1>2. TypeInv /\ TypeInv' /\ LockInv /\ [Next]_vars => LockInv'
  BY LockNext
<1> QED
  BY <1>1, <1>2, TypeInvariant, PTL DEF Spec

\* No path out of a poll, of queryHSMState or of a process leaves HSMPresLock
\* behind, and the lock excludes the two of them from each other.
THEOREM LockDisciplineHolds == Spec => []LockDiscipline
<1>1. LockInv => LockDiscipline
  BY DEF LockInv
<1> QED
  BY <1>1, LockInvariant, PTL

\* What queryHSMState stores in an endpoint it has locked, no poll and no
\* init_chassis changes before it returns.
THEOREM SyncVerdictHolds == Spec => []SyncVerdictStands
<1>1. LockInv => SyncVerdictStands
  BY DEF LockInv
<1> QED
  BY <1>1, LockInvariant, PTL

(***************************************************************************)
(* queryHSMState does not wait for itself.  Inductively: what it has       *)
(* locked or is locking, and can come across, it has visited.  main may    *)
(* unlink an object that is locked; it cannot put the object back before   *)
(* the lock is free, for until then the object is in use.                  *)
(***************************************************************************)
Reachable(o) == o \in Registered \/ (mainPc = "publish" /\ new = o)

LockedVisited ==
    syncPc = "lock" =>
        \A o \in Endpoint :
            (presLock[o] = "sync" \/ o = syncAt) /\ Reachable(o) => o \in syncSeen

WaitsInLoop == syncAt # Nil => syncPc = "lock"

SelfInv == SyncNeverWaitsForItself /\ LockedVisited /\ WaitsInLoop

\* Where main's step leaves the sync alone, what can be reached was reachable or
\* is an unused object.
LEMMA SelfMain ==
    ASSUME TypeInv, LockInv, SelfInv, MainNext PROVE SelfInv'
<1>1. UNCHANGED <<presLock, syncAt>>
  BY DEF MainNext, BootSync, BootSyncRetry, Wake, WakeFails, MainRLock, ScanCabinet, ScanKnown, ScanNew,
     InitPresence, Publish, InitReturns, ScanDone, Remove, Quit, Unlink, RemoveReturns, RefreshDone,
     LoopKeeps, MainKeeps, syncVars
<1> USE <1>1 DEF SelfInv, SyncNeverWaitsForItself, LockedVisited, WaitsInLoop, Reachable, Registered
<1>2. CASE BootSync
  BY <1>2 DEF BootSync, MainAt, LockInv, BootOK
<1>3. CASE UNCHANGED <<syncPc, syncSeen, activeEndpoints>> /\ (mainPc' # "publish" \/ BootSyncRetry)
  BY <1>3 DEF BootSyncRetry
<1>4. ASSUME NEW o \in Endpoint, InitPresence(o) PROVE SelfInv'
  BY <1>4 DEF InitPresence, MainAt, KeepMaps, LoopKeeps, Unused
<1>5. CASE Publish
  <2>1. new \in Endpoint /\ mainPc = "publish" /\ UNCHANGED <<syncPc, syncSeen>>
    BY <1>5 DEF Publish, MainAt, LoopKeeps, TypeInv, NewOK
  <2>2. \A o \in Endpoint : Reachable(o)' => Reachable(o)
    BY <1>5, <2>1, ConstantsAssumption DEF Publish, MainAt, TypeInv, TypeOK, MapTypeOK
  <2> QED
    BY <2>1, <2>2
<1>6. CASE Unlink
  <2>1. new \in Endpoint /\ XnameOf(new) \in Xname /\ syncPc' = syncPc /\ syncSeen' = syncSeen \ {new}
    BY <1>6, ConstantsAssumption DEF Unlink, MainAt, LoopKeeps, TypeInv, NewOK, Endpoint, XnameOf
  <2>2. \A o \in Endpoint : Reachable(o)' => Reachable(o) /\ o # new
    BY <1>6, <2>1, ConstantsAssumption DEF Unlink, MainAt, TypeInv, TypeOK, MapTypeOK
  <2> QED
    BY <2>1, <2>2
<1> QED
  BY <1>2, <1>3, <1>4, <1>5, <1>6 DEF MainNext, BootSyncRetry, Wake, WakeFails, MainRLock, ScanCabinet,
     ScanKnown, ScanNew, InitReturns, ScanDone, Remove, Quit, RemoveReturns, RefreshDone, MainAt,
     LoopKeeps, KeepMaps, mapVars, syncVars

\* queryHSMState itself: it begins without a lock, and visits before it locks.
LEMMA SelfSync == ASSUME TypeInv, LockInv, SelfInv, SyncNext PROVE SelfInv'
<1>0. UNCHANGED <<activeEndpoints, mainPc, new>>
  BY Zenon DEF SyncNext, SyncStep, SyncStart, SyncPick, SyncLock, SyncLocked, SyncGet, SyncGetFails,
     SyncApply, SyncFinish, SyncReturns, SyncKeeps, mainVars
<1> USE <1>0, ConstantsAssumption DEF SelfInv, SyncNeverWaitsForItself, LockedVisited, WaitsInLoop,
        Reachable, Registered, TypeInv, TypeOK, SyncTypeOK, PollTypeOK
<1>1. CASE SyncStart
  BY <1>1 DEF SyncStart, LockInv, LockDiscipline
<1>2. ASSUME NEW o \in Endpoint, SyncPick(o) PROVE SelfInv'
  BY <1>2 DEF SyncPick, Visit
<1>3. CASE SyncLock
  BY <1>3 DEF SyncLock
<1>4. CASE SyncLocked \/ SyncGet
  BY <1>4 DEF SyncLocked, SyncGet
<1>5. CASE SyncGetFails \/ SyncFinish
  BY <1>5 DEF SyncGetFails, SyncFinish, SyncReturns
<1>6. ASSUME NEW o \in Endpoint, SyncApply(o) PROVE SelfInv'
  BY <1>6 DEF SyncApply, Visit
<1> QED
  BY <1>1, <1>2, <1>3, <1>4, <1>5, <1>6 DEF SyncNext, SyncStep

\* A poll takes no lock for the sync.
LEMMA SelfWatch ==
    ASSUME TypeInv, SelfInv, NEW o \in Endpoint, WatchNext(o) PROVE SelfInv'
<1>1. UNCHANGED <<syncPc, syncAt, syncSeen, activeEndpoints, mainPc, new>>
  BY PollStepShape, Zenon DEF WatchNext, Tick, PollLock, WatchKeeps, mapVars, syncVars, mainVars
<1>2. \A q \in Endpoint : presLock'[q] = "sync" => presLock[q] = "sync"
  BY PollStepShape DEF WatchNext, Tick, PollLock, PollMoves, PollEnds, TypeInv, TypeOK, PollTypeOK
<1> QED
  BY <1>1, <1>2 DEF SelfInv, SyncNeverWaitsForItself, LockedVisited, WaitsInLoop, Reachable, Registered,
     TypeInv, TypeOK, SyncTypeOK

\* Neither does the environment; a new process has none.
LEMMA SelfEnv == ASSUME TypeInv, SelfInv, EnvNext \/ UNCHANGED vars PROVE SelfInv'
<1>1. CASE Crash \/ BootFatal
  BY <1>1 DEF Crash, BootFatal, Restart, SelfInv, SyncNeverWaitsForItself, LockedVisited, WaitsInLoop
<1>2. ASSUME UNCHANGED <<presLock, syncVars, activeEndpoints, mainPc, new>> PROVE SelfInv'
  BY <1>2 DEF SelfInv, SyncNeverWaitsForItself, LockedVisited, WaitsInLoop, Reachable, Registered, syncVars
<1> QED
  BY <1>1, <1>2, Zenon DEF EnvNext, CARollBegins, CARollEnds, AdminDisables, AdminDeletes, AdminSets, Power,
     SlsEdit, KeepProgram, vars, mapVars, pollVars, mainVars

\* queryHSMState never waits for a lock it holds itself, for any number of
\* endpoints and whatever main does to the map it ranges over.  With
\* LockDiscipline and QuitReceived this leaves no circle of goroutines that
\* wait for one another: a sync waits for a poll, a poll or main for the CA roll,
\* the CA roll for readers, and of those only main waits, for a watcher that
\* waits for nobody.
THEOREM SyncNeverWaitsHolds == Spec => []SyncNeverWaitsForItself
<1>1. Init => SelfInv
  BY DEF Init, SelfInv, SyncNeverWaitsForItself, LockedVisited, WaitsInLoop
<1>2. TypeInv /\ LockInv /\ SelfInv /\ [Next]_vars => SelfInv'
  BY SelfMain, SelfSync, SelfWatch, SelfEnv DEF Next
<1>3. SelfInv => SyncNeverWaitsForItself
  BY DEF SelfInv
<1> QED
  BY <1>1, <1>2, <1>3, TypeInvariant, LockInvariant, PTL DEF Spec
=============================================================================
