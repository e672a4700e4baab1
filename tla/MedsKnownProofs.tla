--------------------------- MODULE MedsKnownProofs ---------------------------
(***************************************************************************)
(* What MEDS takes for known to HSM, and whom it announces to it.          *)
(***************************************************************************)
EXTENDS MedsProofs

\* A poll in one of these places has found its BMC and announces it to HSM
\* unless something fails.
AnnouncingPc == {"creds", "nwp", "post", "patch"}

\* The poll has HSM enable the BMC, and may mark its object PRESENT.
Tells(o) ==
    /\ poll[o] \in AnnouncingPc
    /\ Enable(o)
    /\ presence' = presence \/ presence' = [presence EXCEPT ![o] = "PRESENT"]

\* The steps of a poll, as far as HSM and the presence are concerned: it decides
\* to announce only what is not PRESENT, it tells HSM only when it has decided
\* to, and it marks an object PRESENT only when it has told.
LEMMA PollStepTells ==
    ASSUME NEW o \in Endpoint, poll \in [Endpoint -> PollPc], PollStep(o)
    PROVE  /\ poll'[o] \in AnnouncingPc =>
                  poll[o] \in AnnouncingPc \/ presence[o] = "NOT_PRESENT"
           /\ UNCHANGED <<hsm, presence>> \/ Tells(o)
<1> USE DEF PollAt, PollReturns, PollFails, PollSucceeds, AnnouncingPc, Tells
<1>1. CASE PollRLock(o)
  BY <1>1 DEF PollRLock
<1>2. CASE ProbeAnswered(o)
  BY <1>2 DEF ProbeAnswered
<1>3. CASE ProbeUnanswered(o) \/ CredsMissing(o)
  BY <1>3 DEF ProbeUnanswered, CredsMissing
<1>4. CASE CredsFound(o) \/ SetNWP(o)
  BY <1>4 DEF CredsFound, SetNWP
<1>5. CASE PostCreated(o)
  BY <1>5 DEF PostCreated
<1>6. CASE PostConflict(o) \/ PostRefused(o)
  BY <1>6 DEF PostConflict, PostRefused
<1>7. CASE PostReplyLost(o)
  BY <1>7 DEF PostReplyLost
<1>8. CASE PatchDone(o)
  BY <1>8 DEF PatchDone
<1>9. CASE PatchNotFound(o) \/ PatchRefused(o)
  BY <1>9 DEF PatchNotFound, PatchRefused
<1> QED
  BY <1>1, <1>2, <1>3, <1>4, <1>5, <1>6, <1>7, <1>8, <1>9 DEF PollStep

(***************************************************************************)
(* Nothing but HSM's own word makes an endpoint PRESENT, as long as nobody *)
(* deletes records.  Inductively: neither the cache, nor an answer that is *)
(* being applied, nor any object, registered or not, knows a record that   *)
(* HSM does not have.                                                      *)
(***************************************************************************)
CacheRecorded == \A n \in Xname : cache[n] # "absent" => hsm[n] # "absent"
AnswerRecorded == \A n \in Xname : snapshot[n] # "absent" => hsm[n] # "absent"
PresentRecorded == \A o \in Endpoint : presence[o] = "PRESENT" => hsm[XnameOf(o)] # "absent"

RecordInv == CacheRecorded /\ AnswerRecorded /\ PresentRecorded

\* Nothing is known in a fresh process.
LEMMA RecordInit == Init => RecordInv
BY DEF Init, RecordInv, CacheRecorded, AnswerRecorded, PresentRecorded, NothingKnown

\* The name of an object is one of the names.
LEMMA NameOfEndpoint == \A o \in Endpoint : XnameOf(o) \in Xname
BY DEF Endpoint, XnameOf

\* A step that writes neither record nor belief preserves the invariant.
LEMMA RecordKeeps ==
    ASSUME RecordInv, UNCHANGED <<hsm, cache, snapshot, presence>> PROVE RecordInv'
BY DEF RecordInv, CacheRecorded, AnswerRecorded, PresentRecorded

\* A poll marks an object PRESENT only in the step that has HSM enable it.
LEMMA RecordWatch ==
    ASSUME TypeInv, RecordInv, NEW o \in Endpoint, WatchNext(o) PROVE RecordInv'
<1>1. CASE Tick(o) \/ PollLock(o)
  BY <1>1, RecordKeeps DEF Tick, PollLock, WatchKeeps, mapVars, syncVars
<1>2. CASE PollStep(o)
  <2>1. UNCHANGED <<cache, snapshot>>
    BY <1>2, PollStepShape DEF WatchKeeps, mapVars, syncVars
  <2>2. /\ hsm' = hsm \/ Enable(o)
        /\ \/ presence' = presence
           \/ Enable(o) /\ presence' = [presence EXCEPT ![o] = "PRESENT"]
    BY <1>2, PollStepTells DEF Tells, TypeInv, TypeOK, PollTypeOK
  <2>3. \A n \in Xname : hsm[n] # "absent" => hsm'[n] # "absent"
    BY <2>2, NameOfEndpoint DEF Enable, TypeInv, TypeOK, EnvTypeOK
  <2>4. PresentRecorded'
    BY <2>2, <2>3, NameOfEndpoint
       DEF Enable, RecordInv, PresentRecorded, TypeInv, TypeOK, EnvTypeOK, PollTypeOK
  <2> QED
    BY <2>1, <2>3, <2>4 DEF RecordInv, CacheRecorded, AnswerRecorded
<1> QED
  BY <1>1, <1>2 DEF WatchNext

\* A sync believes HSM's answer.
LEMMA RecordSync == ASSUME TypeInv, RecordInv, SyncNext PROVE RecordInv'
<1>1. CASE UNCHANGED <<hsm, cache, snapshot, presence>>
  BY <1>1, RecordKeeps
<1>2. CASE SyncGet
  BY <1>2 DEF SyncGet, SyncKeeps, RecordInv, CacheRecorded, AnswerRecorded, PresentRecorded
<1>3. CASE SyncGetFails \/ SyncFinish
  BY <1>3 DEF SyncGetFails, SyncFinish, SyncReturns, SyncKeeps, NothingKnown, RecordInv,
     CacheRecorded, AnswerRecorded, PresentRecorded
<1>4. ASSUME NEW o \in Endpoint, SyncApply(o) PROVE RecordInv'
  BY <1>4, NameOfEndpoint DEF SyncApply, SyncKeeps, StatusIn, RecordInv, CacheRecorded,
     AnswerRecorded, PresentRecorded, TypeInv, TypeOK, PollTypeOK
<1> QED
  BY <1>1, <1>2, <1>3, <1>4 DEF SyncNext, SyncStep, SyncStart, SyncPick, SyncLock, SyncLocked, SyncKeeps

\* init_chassis believes the cache.
LEMMA RecordMain == ASSUME TypeInv, RecordInv, MainNext PROVE RecordInv'
<1>1. CASE UNCHANGED <<hsm, cache, snapshot, presence>>
  BY <1>1, RecordKeeps
<1>2. CASE BootSync
  BY <1>2 DEF BootSync, MainKeeps, RecordInv, CacheRecorded, AnswerRecorded, PresentRecorded
<1>3. ASSUME NEW o \in Endpoint, InitPresence(o) PROVE RecordInv'
  BY <1>3, NameOfEndpoint DEF InitPresence, LoopKeeps, MainKeeps, RecordInv, CacheRecorded,
     AnswerRecorded, PresentRecorded, TypeInv, TypeOK, PollTypeOK
<1> QED
  BY <1>1, <1>2, <1>3 DEF MainNext, BootSyncRetry, Wake, WakeFails, MainRLock, ScanCabinet, ScanKnown,
     ScanNew, Publish, InitReturns, ScanDone, Remove, Quit, Unlink, RemoveReturns, RefreshDone,
     LoopKeeps, KeepObjects, MainKeeps, mapVars, syncVars

\* A restart forgets; an administrator who disables leaves the record.
LEMMA RecordEnv ==
    ASSUME "delete" \notin Hazards, TypeInv, RecordInv, EnvNext PROVE RecordInv'
<1>1. CASE UNCHANGED <<hsm, cache, snapshot, presence>>
  BY <1>1, RecordKeeps
<1>2. CASE Crash \/ BootFatal
  BY <1>2 DEF Crash, BootFatal, Restart, NothingKnown, RecordInv, CacheRecorded, AnswerRecorded,
     PresentRecorded
<1>3. ASSUME NEW n \in Xname, AdminDisables(n) PROVE RecordInv'
  BY <1>3, NameOfEndpoint DEF AdminDisables, AdminSets, mapVars, syncVars, pollVars, RecordInv,
     CacheRecorded, AnswerRecorded, PresentRecorded, TypeInv, TypeOK, EnvTypeOK
<1>4. ASSUME NEW n \in Xname, AdminDeletes(n) PROVE FALSE
  BY <1>4 DEF AdminDeletes, Happens
<1> QED
  BY <1>1, <1>2, <1>3, <1>4 DEF EnvNext, CARollBegins, CARollEnds, Power, SlsEdit, KeepProgram,
     envVars, mapVars, pollVars, syncVars

\* No step makes MEDS believe in a record HSM does not have.
LEMMA RecordNext ==
    ASSUME "delete" \notin Hazards, TypeInv, RecordInv, [Next]_vars PROVE RecordInv'
<1>1. CASE UNCHANGED vars
  BY <1>1, RecordKeeps DEF vars, envVars, mapVars, pollVars, syncVars
<1> QED
  BY <1>1, RecordWatch, RecordSync, RecordMain, RecordEnv DEF Next

\* The invariant of the records.
LEMMA RecordInvariant == ASSUME "delete" \notin Hazards PROVE Spec => []RecordInv
<1>1. Init => RecordInv
  BY RecordInit
<1>2. TypeInv /\ RecordInv /\ [Next]_vars => RecordInv'
  BY RecordNext
<1> QED
  BY <1>1, <1>2, TypeInvariant, PTL DEF Spec

\* As long as nobody deletes records, an endpoint MEDS counts as present has
\* one in HSM, through every failure, lost reply, restart and race of a sync
\* with a poll: else MEDS would never announce the BMC.
THEOREM PresentMeansRecordedHolds ==
    ASSUME "delete" \notin Hazards PROVE Spec => []PresentMeansRecorded
<1>1. RecordInv => PresentMeansRecorded
  BY DEF RecordInv, PresentRecorded, PresentMeansRecorded, Registered
<1> QED
  BY <1>1, RecordInvariant, PTL

(***************************************************************************)
(* A BMC that HSM had enabled when the process started is not announced    *)
(* again.  Nothing in the step that decides looks at what was known at the *)
(* start: presence carries it there.  Inductively: HSM, the cache and an   *)
(* answer being applied all still have it enabled, hence every object that *)
(* a goroutine works for is PRESENT, also one whose chassis has been taken *)
(* away and come back; and before the initial sync nothing is at work.     *)
(***************************************************************************)
InUse(o) ==
    \/ watching[o] \/ queued[o] > 0 \/ poll[o] # "idle"
    \/ mainPc = "publish" /\ new = o

KnownEnabled ==
    \A n \in knownAtBoot :
        /\ hsm[n] = "enabled" /\ cache[n] = "enabled"
        /\ syncPc = "apply" => snapshot[n] = "enabled"

KnownPresent ==
    \A o \in Endpoint : XnameOf(o) \in knownAtBoot /\ InUse(o) => presence[o] = "PRESENT"

BootFresh ==
    mainPc = "boot" =>
        /\ knownAtBoot = {}
        /\ \A n \in Xname : activeEndpoints[n] = Nil
        /\ \A o \in Endpoint : ~InUse(o)

KnownInv == KnownEnabled /\ KnownPresent /\ BootKnownNeverNotified /\ BootFresh

\* A fresh process knows nothing and nothing is at work in it.
LEMMA KnownInit == Init => KnownInv
BY DEF Init, KnownInv, KnownEnabled, KnownPresent, BootKnownNeverNotified, BootFresh, InUse

\* So it is after a restart.
LEMMA KnownRestart == Restart => KnownInv'
BY DEF Restart, KnownInv, KnownEnabled, KnownPresent, BootKnownNeverNotified, BootFresh, InUse

\* What the invariant is about.
KnownVars == <<hsm, cache, syncPc, snapshot, presence, watching, queued, poll, activeEndpoints,
               mainPc, new, knownAtBoot>>

\* A step that leaves all of it alone preserves the invariant.
LEMMA KnownKeeps == ASSUME KnownInv, UNCHANGED KnownVars PROVE KnownInv'
BY DEF KnownVars, KnownInv, KnownEnabled, KnownPresent, BootKnownNeverNotified, BootFresh, InUse

\* A poll puts no object to use that was not in use.
LEMMA WatchUses ==
    ASSUME TypeInv, NEW o \in Endpoint, WatchNext(o)
    PROVE  InUse(o) /\ \A q \in Endpoint : InUse(q)' => InUse(q)
<1> USE DEF InUse, TypeInv, TypeOK, PollTypeOK, WatchKeeps, mainVars
<1>1. CASE Tick(o)
  BY <1>1 DEF Tick
<1>2. CASE PollLock(o)
  BY <1>2 DEF PollLock
<1>3. CASE PollStep(o)
  BY <1>3, PollStepShape DEF PollMoves, PollEnds
<1> QED
  BY <1>1, <1>2, <1>3 DEF WatchNext

\* A poll of an object that is PRESENT does not come to announce it, and what
\* it tells HSM enables a BMC.
LEMMA KnownWatch ==
    ASSUME TypeInv, KnownInv, NEW o \in Endpoint, WatchNext(o) PROVE KnownInv'
<1>0. UNCHANGED <<cache, syncPc, snapshot, activeEndpoints, mainPc, new, knownAtBoot>>
  BY PollStepShape, Zenon DEF WatchNext, Tick, PollLock, WatchKeeps, mapVars, syncVars, mainVars
<1>1. InUse(o) /\ \A q \in Endpoint : InUse(q)' => InUse(q)
  BY WatchUses
<1>2. /\ hsm' = hsm \/ Enable(o)
      /\ presence' = presence \/ presence' = [presence EXCEPT ![o] = "PRESENT"]
  BY PollStepTells DEF Tells, WatchNext, Tick, PollLock, TypeInv, TypeOK, PollTypeOK
<1>3. KnownEnabled'
  BY <1>0, <1>2, NameOfEndpoint DEF Enable, KnownInv, KnownEnabled, TypeInv, TypeOK, EnvTypeOK, MainTypeOK
<1>4. KnownPresent'
  BY <1>0, <1>1, <1>2 DEF KnownInv, KnownPresent, TypeInv, TypeOK, PollTypeOK
<1>5. BootFresh'
  BY <1>0, <1>1 DEF KnownInv, BootFresh
<1>6. BootKnownNeverNotified'
  <2>1. \A q \in Endpoint : poll'[q] \in AnnouncingPc =>
           poll[q] \in AnnouncingPc \/ (q = o /\ presence[o] = "NOT_PRESENT")
    <3>1. CASE Tick(o)
      BY <3>1 DEF Tick
    <3>2. CASE PollLock(o)
      BY <3>2 DEF PollLock, AnnouncingPc, TypeInv, TypeOK, PollTypeOK
    <3>3. CASE PollStep(o)
      BY <3>3, PollStepTells, PollStepShape DEF PollMoves, PollEnds, TypeInv, TypeOK, PollTypeOK
    <3> QED
      BY <3>1, <3>2, <3>3 DEF WatchNext
  <2> QED
    BY <1>0, <1>1, <2>1 DEF KnownInv, KnownPresent, BootKnownNeverNotified, AnnouncingPc
<1> QED
  BY <1>3, <1>4, <1>5, <1>6 DEF KnownInv

\* HSM's answer still has enabled what it had enabled at the start.
LEMMA KnownSync == ASSUME TypeInv, KnownInv, SyncNext PROVE KnownInv'
<1>0. UNCHANGED <<hsm, watching, queued, poll, activeEndpoints, mainPc, new, knownAtBoot>>
  BY Zenon DEF SyncNext, SyncStep, SyncStart, SyncPick, SyncLock, SyncLocked, SyncGet, SyncGetFails,
     SyncApply, SyncFinish, SyncReturns, SyncKeeps, mainVars
<1>1. BootFresh' /\ BootKnownNeverNotified'
  BY <1>0 DEF KnownInv, BootFresh, BootKnownNeverNotified, InUse
<1>2. KnownEnabled'
  BY <1>0 DEF KnownInv, KnownEnabled, SyncNext, SyncStep, SyncStart, SyncPick, SyncLock, SyncLocked,
     SyncGet, SyncGetFails, SyncApply, SyncFinish, SyncReturns
<1>3. KnownPresent'
  <2>1. CASE UNCHANGED presence
    BY <1>0, <2>1 DEF KnownInv, KnownPresent, InUse
  <2>2. ASSUME NEW o \in Endpoint, SyncApply(o) PROVE KnownPresent'
    BY <1>0, <2>2 DEF SyncApply, StatusIn, KnownInv, KnownEnabled, KnownPresent, InUse, TypeInv, TypeOK,
       PollTypeOK
  <2> QED
    BY <2>1, <2>2 DEF SyncNext, SyncStep, SyncStart, SyncPick, SyncLock, SyncLocked, SyncGet,
       SyncGetFails, SyncFinish, SyncReturns
<1> QED
  BY <1>1, <1>2, <1>3 DEF KnownInv

\* The initial sync finds nothing at work, and a new object of a known BMC has
\* its presence from the cache.
LEMMA KnownMain == ASSUME TypeInv, KnownInv, MainNext PROVE KnownInv'
<1> USE DEF KnownInv, KnownEnabled, KnownPresent, BootKnownNeverNotified, BootFresh, InUse
<1>1. CASE BootSync
  BY <1>1 DEF BootSync, MainAt, MainKeeps, AnnouncingPc
<1>2. CASE BootSyncRetry
  BY <1>2 DEF BootSyncRetry, MainKeeps, mapVars, syncVars
<1> USE DEF MainAt, LoopKeeps, KeepMaps, KeepObjects, MainKeeps
<1>3. CASE Wake \/ WakeFails \/ MainRLock \/ InitReturns \/ ScanDone \/ RefreshDone
  BY <1>3 DEF Wake, WakeFails, MainRLock, InitReturns, ScanDone, RefreshDone
<1>4. ASSUME NEW cab \in Cabinet, ScanCabinet(cab) PROVE KnownInv'
  BY <1>4 DEF ScanCabinet
<1>5. ASSUME NEW c \in Chassis, ScanKnown(c) \/ ScanNew(c) \/ Remove(c) PROVE KnownInv'
  BY <1>5 DEF ScanKnown, ScanNew, Remove
<1>6. ASSUME NEW o \in Endpoint, InitPresence(o) PROVE KnownInv'
  BY <1>6 DEF InitPresence, TypeInv, TypeOK, PollTypeOK
<1>7. CASE Publish
  BY <1>7 DEF Publish, TypeInv, TypeOK, PollTypeOK
<1>8. ASSUME NEW o \in Endpoint, Quit(o) PROVE KnownInv'
  BY <1>8 DEF Quit, TypeInv, TypeOK, PollTypeOK
<1>9. CASE Unlink \/ RemoveReturns
  BY <1>9 DEF Unlink, RemoveReturns
<1> QED
  BY <1>1, <1>2, <1>3, <1>4, <1>5, <1>6, <1>7, <1>8, <1>9 DEF MainNext

\* An administrator who disables or deletes a record ends the promise for it.
LEMMA KnownEnv == ASSUME TypeInv, KnownInv, EnvNext PROVE KnownInv'
<1>1. CASE Crash \/ BootFatal
  BY <1>1, KnownRestart DEF Crash, BootFatal
<1>2. ASSUME NEW n \in Xname, NEW record, AdminSets(n, record) PROVE KnownInv'
  BY <1>2 DEF AdminSets, mapVars, syncVars, pollVars, KnownInv, KnownEnabled, KnownPresent,
     BootKnownNeverNotified, BootFresh, InUse, TypeInv, TypeOK, EnvTypeOK, MainTypeOK
<1>3. CASE UNCHANGED KnownVars
  BY <1>3, KnownKeeps
<1> QED
  BY <1>1, <1>2, <1>3 DEF EnvNext, AdminDisables, AdminDeletes, CARollBegins, CARollEnds, Power, SlsEdit,
     KeepProgram, KnownVars, envVars, mapVars, pollVars, syncVars, mainVars

\* Every step keeps the promise to what was known at the start.
LEMMA KnownNext == ASSUME TypeInv, KnownInv, [Next]_vars PROVE KnownInv'
<1>1. CASE UNCHANGED vars
  BY <1>1, KnownKeeps DEF KnownVars, vars, envVars, mapVars, pollVars, syncVars, mainVars
<1> QED
  BY <1>1, KnownWatch, KnownSync, KnownMain, KnownEnv DEF Next

\* The invariant of what was known at the start.
LEMMA KnownInvariant == Spec => []KnownInv
<1>1. Init => KnownInv
  BY KnownInit
<1>2. TypeInv /\ KnownInv /\ [Next]_vars => KnownInv'
  BY KnownNext
<1> QED
  BY <1>1, <1>2, TypeInvariant, PTL DEF Spec

\* A BMC that was enabled in HSM when this process started, and whose record
\* nobody has disabled or deleted since, is never announced again, for any
\* number of chassis, hazards and removals and returns of its chassis.
THEOREM BootKnownHolds == Spec => []BootKnownNeverNotified
<1>1. KnownInv => BootKnownNeverNotified
  BY DEF KnownInv
<1> QED
  BY <1>1, KnownInvariant, PTL
=============================================================================
