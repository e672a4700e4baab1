----------------------------- MODULE MedsProofs -----------------------------
(***************************************************************************)
(* Proofs about Meds, for every set of endpoints, chassis and cabinets,    *)
(* every bound and every kind of hazard.                                   *)
(***************************************************************************)
EXTENDS Meds, TLAPS

(***************************************************************************)
(* Type correctness.  Publish puts new into sets of objects, so the typing *)
(* needs to know that new is an object by then.                            *)
(***************************************************************************)
NewOK == mainPc \in {"publish", "unlink"} => new \in Endpoint

TypeInv == TypeOK /\ NewOK

\* A hazard stays within the bound on hazards.
LEMMA HappensType ==
    ASSUME NEW kind, TypeOK, Happens(kind) PROVE hazards' \in 0..MaxHazards
BY ConstantsAssumption DEF TypeOK, EnvTypeOK, Happens

\* The objects' variables of a fresh process have their types.
LEMMA InitType == ASSUME Init PROVE TypeInv
<1>1. hsm \in [Xname -> HsmRecord] /\ hazards \in 0..MaxHazards
  BY ConstantsAssumption DEF Init
<1>2. EnvTypeOK
  BY <1>1 DEF Init, EnvTypeOK
<1>3. MapTypeOK
  BY DEF Init, MapTypeOK, NothingKnown, HsmRecord
<1>4. presence \in [Endpoint -> Presence] /\ poll \in [Endpoint -> PollPc]
  BY DEF Init, Presence, PollPc
<1>5. presLock \in [Endpoint -> {"free", "poll", "sync"}]
  BY DEF Init
<1>6. watching \in [Endpoint -> BOOLEAN] /\ nstError \in [Endpoint -> BOOLEAN] /\ caRoll \in BOOLEAN
  BY DEF Init
<1>7. queued \in [Endpoint -> 0..MaxQueued]
  BY ConstantsAssumption DEF Init
<1>8. PollTypeOK
  BY <1>4, <1>5, <1>6, <1>7 DEF PollTypeOK
<1>9. SyncTypeOK /\ MainTypeOK /\ NewOK
  BY ConstantsAssumption DEF Init, SyncTypeOK, MainTypeOK, NewOK, NothingKnown, HsmRecord, SyncPc, MainPc
<1> QED
  BY <1>2, <1>3, <1>6, <1>8, <1>9 DEF TypeInv, TypeOK

\* So have they after a restart.
LEMMA RestartType ==
    ASSUME TypeInv, Restart, hazards' \in 0..MaxHazards PROVE TypeInv'
<1>2. EnvTypeOK'
  BY DEF Restart, TypeInv, TypeOK, EnvTypeOK
<1>3. MapTypeOK'
  BY DEF Restart, MapTypeOK, NothingKnown, HsmRecord
<1>4. presence' \in [Endpoint -> Presence] /\ poll' \in [Endpoint -> PollPc]
  BY DEF Restart, Presence, PollPc
<1>5. presLock' \in [Endpoint -> {"free", "poll", "sync"}]
  BY DEF Restart
<1>6. watching' \in [Endpoint -> BOOLEAN] /\ nstError' \in [Endpoint -> BOOLEAN] /\ caRoll' \in BOOLEAN
  BY DEF Restart
<1>7. queued' \in [Endpoint -> 0..MaxQueued]
  BY ConstantsAssumption DEF Restart
<1>8. PollTypeOK'
  BY <1>4, <1>5, <1>6, <1>7 DEF PollTypeOK
<1>9. SyncTypeOK' /\ MainTypeOK' /\ NewOK'
  BY ConstantsAssumption DEF Restart, SyncTypeOK, MainTypeOK, NewOK, NothingKnown, HsmRecord, SyncPc, MainPc
<1> QED
  BY <1>2, <1>3, <1>6, <1>8, <1>9 DEF TypeInv, TypeOK

(***************************************************************************)
(* What each step of a poll does to the poll's own variables: it moves on, *)
(* or returns and unlocks.                                                 *)
(***************************************************************************)
PollMoves(o) ==
    /\ poll[o] # "idle"
    /\ \E to \in PollPc \ {"idle"} : poll' = [poll EXCEPT ![o] = to]
    /\ UNCHANGED <<presence, presLock, watching, queued>>
    /\ nstError' = nstError \/ nstError' = [nstError EXCEPT ![o] = TRUE]

PollEnds(o) ==
    /\ poll[o] # "idle"
    /\ poll' = [poll EXCEPT ![o] = "idle"]
    /\ presLock' = [presLock EXCEPT ![o] = "free"]
    /\ nstError' = [nstError EXCEPT ![o] = FALSE]
    /\ presence' = presence \/ presence' = [presence EXCEPT ![o] = "PRESENT"]
    /\ UNCHANGED <<watching, queued>>

LEMMA PollStepShape ==
    ASSUME NEW o \in Endpoint, PollStep(o)
    PROVE  /\ UNCHANGED WatchKeeps
           /\ PollMoves(o) \/ PollEnds(o)
           /\ hsm' = hsm \/ Enable(o)
           /\ hazards' = hazards \/ \E kind \in HazardKind : Happens(kind)
<1>1. CASE PollRLock(o)
  BY <1>1, Zenon DEF PollRLock, PollAt, PollMoves, PollPc
<1>2. CASE ProbeAnswered(o)
  BY <1>2 DEF ProbeAnswered, PollAt, PollFails, PollReturns, PollMoves, PollEnds, PollPc
<1>3. CASE ProbeUnanswered(o)
  BY <1>3 DEF ProbeUnanswered, PollFails, PollReturns, PollEnds, HazardKind
<1>4. CASE CredsFound(o)
  BY <1>4 DEF CredsFound, PollAt, PollMoves, PollPc
<1>5. CASE CredsMissing(o)
  BY <1>5 DEF CredsMissing, PollFails, PollReturns, PollEnds, HazardKind
<1>6. CASE SetNWP(o)
  BY <1>6 DEF SetNWP, PollAt, PollMoves, PollPc, HazardKind
<1>7. CASE PostCreated(o)
  BY <1>7 DEF PostCreated, PollSucceeds, PollReturns, PollEnds
<1>8. CASE PostConflict(o)
  BY <1>8 DEF PostConflict, PollAt, PollMoves, PollPc
<1>9. CASE PostRefused(o)
  BY <1>9 DEF PostRefused, PollFails, PollReturns, PollEnds, HazardKind
<1>10. CASE PostReplyLost(o)
  BY <1>10 DEF PostReplyLost, PollAt, PollFails, PollReturns, PollMoves, PollEnds, PollPc, HazardKind
<1>11. CASE PatchDone(o)
  BY <1>11 DEF PatchDone, PollSucceeds, PollReturns, PollEnds
<1>12. CASE PatchNotFound(o)
  BY <1>12 DEF PatchNotFound, PollFails, PollReturns, PollEnds
<1>13. CASE PatchRefused(o)
  BY <1>13 DEF PatchRefused, PollFails, PollReturns, PollEnds, HazardKind
<1> QED
  BY <1>1, <1>2, <1>3, <1>4, <1>5, <1>6, <1>7, <1>8, <1>9, <1>10, <1>11, <1>12, <1>13 DEF PollStep

\* The steps of a watcher and its polls preserve the types.
LEMMA WatchType ==
    ASSUME TypeInv, NEW o \in Endpoint, WatchNext(o) PROVE TypeInv'
<1>1. UNCHANGED WatchKeeps
  BY PollStepShape, Zenon DEF WatchNext, Tick, PollLock
<1>2. MapTypeOK' /\ SyncTypeOK' /\ MainTypeOK' /\ NewOK' /\ caRoll' \in BOOLEAN
  BY <1>1 DEF WatchKeeps, TypeInv, TypeOK, MapTypeOK, SyncTypeOK, MainTypeOK, NewOK,
              mapVars, syncVars, mainVars
<1>3. EnvTypeOK'
  <2>1. hazards' \in 0..MaxHazards
    BY PollStepShape, HappensType DEF WatchNext, Tick, PollLock, TypeInv, TypeOK, EnvTypeOK
  <2>2. hsm' \in [Xname -> HsmRecord]
    BY PollStepShape DEF WatchNext, Tick, PollLock, TypeInv, TypeOK, EnvTypeOK, Enable, HsmRecord
  <2> QED
    BY <1>1, <2>1, <2>2 DEF WatchKeeps, TypeInv, TypeOK, EnvTypeOK
<1>4. PollTypeOK'
  <2>0. PollTypeOK
    BY DEF TypeInv, TypeOK
  <2>1. CASE Tick(o)
    BY <2>0, <2>1, ConstantsAssumption DEF Tick, PollTypeOK
  <2>2. CASE PollLock(o)
    BY <2>0, <2>2, ConstantsAssumption DEF PollLock, PollTypeOK, PollPc
  <2>3. CASE PollMoves(o)
    BY <2>0, <2>3 DEF PollMoves, PollTypeOK
  <2>4. CASE PollEnds(o)
    BY <2>0, <2>4 DEF PollEnds, PollTypeOK, PollPc, Presence
  <2> QED
    BY <2>1, <2>2, <2>3, <2>4, PollStepShape DEF WatchNext
<1> QED
  BY <1>2, <1>3, <1>4 DEF TypeInv, TypeOK

\* The steps of queryHSMState preserve the types.
LEMMA SyncType == ASSUME TypeInv, SyncNext PROVE TypeInv'
<1>1. UNCHANGED SyncKeeps
  BY Zenon DEF SyncNext, SyncStep, SyncStart, SyncPick, SyncLock, SyncLocked, SyncGet,
               SyncGetFails, SyncApply, SyncFinish, SyncReturns
<1>2. MainTypeOK' /\ NewOK' /\ caRoll' \in BOOLEAN
  BY <1>1 DEF SyncKeeps, TypeInv, TypeOK, MainTypeOK, NewOK, mainVars
<1>3. EnvTypeOK'
  <2>1. hazards' = hazards \/ Happens("hsmFail")
    BY Zenon DEF SyncNext, SyncStep, SyncStart, SyncPick, SyncLock, SyncLocked, SyncGet,
                 SyncGetFails, SyncApply, SyncFinish
  <2> QED
    BY <1>1, <2>1, HappensType DEF SyncKeeps, TypeInv, TypeOK, EnvTypeOK
<1>4. MapTypeOK' /\ PollTypeOK' /\ SyncTypeOK'
  <2> USE <1>1 DEF SyncKeeps, TypeInv, TypeOK, MapTypeOK, PollTypeOK, SyncTypeOK, SyncPc
  <2>0. Registered \subseteq Endpoint
    BY DEF Registered
  <2>1. CASE SyncStart
    BY <2>0, <2>1 DEF SyncStart
  <2>2. ASSUME NEW o \in Endpoint, SyncPick(o)
        PROVE  MapTypeOK' /\ PollTypeOK' /\ SyncTypeOK'
    BY <2>2 DEF SyncPick, Visit
  <2>3. CASE SyncLock
    BY <2>3 DEF SyncLock
  <2>4. CASE SyncLocked
    BY <2>4 DEF SyncLocked
  <2>5. CASE SyncGet
    BY <2>0, <2>5 DEF SyncGet, EnvTypeOK
  <2>6. CASE SyncGetFails
    BY <2>6 DEF SyncGetFails, SyncReturns, NothingKnown, HsmRecord
  <2>7. ASSUME NEW o \in Endpoint, SyncApply(o)
        PROVE  MapTypeOK' /\ PollTypeOK' /\ SyncTypeOK'
    BY <2>7 DEF SyncApply, Visit, StatusIn, Presence
  <2>8. CASE SyncFinish
    BY <2>8 DEF SyncFinish, SyncReturns, NothingKnown, HsmRecord
  <2> QED
    BY <2>1, <2>2, <2>3, <2>4, <2>5, <2>6, <2>7, <2>8 DEF SyncNext, SyncStep
<1> QED
  BY <1>2, <1>3, <1>4 DEF TypeInv, TypeOK

\* The steps of main preserve the types.
LEMMA MainType == ASSUME TypeInv, MainNext PROVE TypeInv'
<1>1. UNCHANGED MainKeeps /\ (hazards' = hazards \/ \E kind \in HazardKind : Happens(kind))
  BY DEF MainNext, BootSync, BootSyncRetry, Wake, WakeFails, MainRLock, ScanCabinet, ScanKnown,
         ScanNew, InitPresence, Publish, InitReturns, ScanDone, Remove, Quit, Unlink,
         RemoveReturns, RefreshDone, LoopKeeps, HazardKind
<1>2. EnvTypeOK' /\ caRoll' \in BOOLEAN
  BY <1>1, HappensType DEF MainKeeps, TypeInv, TypeOK, EnvTypeOK
<1>3. MapTypeOK' /\ PollTypeOK' /\ SyncTypeOK' /\ MainTypeOK' /\ NewOK'
  <2> DEFINE OK == MapTypeOK /\ PollTypeOK /\ SyncTypeOK /\ MainTypeOK /\ NewOK
  <2> USE <1>1, ConstantsAssumption DEF MainKeeps, TypeInv, TypeOK, MapTypeOK, PollTypeOK, SyncTypeOK,
          MainTypeOK, NewOK, MainPc, MainAt, LoopKeeps, KeepMaps, KeepObjects
  <2>1. CASE BootSync
    BY <2>1 DEF BootSync, EnvTypeOK, SyncPc
  <2>2. CASE BootSyncRetry
    BY <2>2 DEF BootSyncRetry, mapVars, syncVars
  <2>3. CASE Wake
    BY <2>3 DEF Wake, CabinetsOf, EnvTypeOK
  <2>4. CASE WakeFails
    BY <2>4 DEF WakeFails
  <2>5. CASE MainRLock
    BY <2>5 DEF MainRLock
  <2>6. ASSUME NEW cab \in Cabinet, ScanCabinet(cab) PROVE OK'
    BY <2>6 DEF ScanCabinet, ChassisIn, EnvTypeOK
  <2>7. ASSUME NEW c \in Chassis, ScanKnown(c) PROVE OK'
    BY <2>7 DEF ScanKnown
  <2>8. ASSUME NEW c \in Chassis, ScanNew(c) PROVE OK'
    BY <2>8 DEF ScanNew
  <2>9. ASSUME NEW o \in Endpoint, InitPresence(o) PROVE OK'
    BY <2>9 DEF InitPresence, Presence
  <2>10. CASE Publish
    BY <2>10 DEF Publish
  <2>11. CASE InitReturns
    BY <2>11 DEF InitReturns
  <2>12. CASE ScanDone
    BY <2>12 DEF ScanDone
  <2>13. ASSUME NEW c \in Chassis, Remove(c) PROVE OK'
    BY <2>13 DEF Remove
  <2>14. ASSUME NEW o \in Endpoint, Quit(o) PROVE OK'
    BY <2>14 DEF Quit
  <2>15. CASE Unlink
    BY <2>15 DEF Unlink
  <2>16. CASE RemoveReturns
    BY <2>16 DEF RemoveReturns
  <2>17. CASE RefreshDone
    BY <2>17 DEF RefreshDone
  <2> QED
    BY <2>1, <2>2, <2>3, <2>4, <2>5, <2>6, <2>7, <2>8, <2>9, <2>10, <2>11, <2>12, <2>13, <2>14, <2>15, <2>16, <2>17 DEF MainNext
<1> QED
  BY <1>2, <1>3 DEF TypeInv, TypeOK

\* The steps of the environment preserve the types.
LEMMA EnvType == ASSUME TypeInv, EnvNext PROVE TypeInv'
<1>1. CASE Crash \/ BootFatal
  BY <1>1, RestartType, HappensType DEF Crash, BootFatal, TypeInv
<1>2. CASE CARollBegins \/ CARollEnds
  <2>1. hazards' \in 0..MaxHazards
    BY <1>2, HappensType DEF CARollBegins, CARollEnds, TypeInv, TypeOK, EnvTypeOK, envVars
  <2> QED
    BY <1>2, <2>1 DEF CARollBegins, CARollEnds, KeepProgram, TypeInv, TypeOK, NewOK, EnvTypeOK,
       MapTypeOK, PollTypeOK, SyncTypeOK, MainTypeOK, envVars, mapVars, pollVars, syncVars, mainVars
<1>3. ASSUME NEW n \in Xname, AdminDisables(n) \/ AdminDeletes(n) PROVE TypeInv'
  <2>1. hazards' \in 0..MaxHazards
    BY <1>3, HappensType DEF AdminDisables, AdminDeletes, TypeInv
  <2>2. PICK record \in HsmRecord : AdminSets(n, record)
    BY <1>3 DEF AdminDisables, AdminDeletes, HsmRecord
  <2> QED
    BY <2>1, <2>2 DEF AdminSets, TypeInv, TypeOK, NewOK, EnvTypeOK,
       MapTypeOK, PollTypeOK, SyncTypeOK, MainTypeOK, mapVars, pollVars, syncVars
<1>4. ASSUME NEW n \in Xname, Power(n) PROVE TypeInv'
  BY <1>4, HappensType DEF Power, KeepProgram, TypeInv, TypeOK, NewOK, EnvTypeOK,
       MapTypeOK, PollTypeOK, SyncTypeOK, MainTypeOK, mapVars, pollVars, syncVars, mainVars
<1>5. ASSUME NEW c \in Chassis, SlsEdit(c) PROVE TypeInv'
  BY <1>5, HappensType DEF SlsEdit, KeepProgram, TypeInv, TypeOK, NewOK, EnvTypeOK,
       MapTypeOK, PollTypeOK, SyncTypeOK, MainTypeOK, mapVars, pollVars, syncVars, mainVars
<1> QED
  BY <1>1, <1>2, <1>3, <1>4, <1>5 DEF EnvNext

\* A step that changes no variable preserves the types.
LEMMA StutterType == ASSUME TypeInv, UNCHANGED vars PROVE TypeInv'
BY DEF TypeInv, TypeOK, NewOK, EnvTypeOK, MapTypeOK, PollTypeOK, SyncTypeOK, MainTypeOK,
       vars, envVars, mapVars, pollVars, syncVars, mainVars

\* Every step of the system preserves the types.
LEMMA NextType == ASSUME TypeInv, [Next]_vars PROVE TypeInv'
BY WatchType, SyncType, MainType, EnvType, StutterType DEF Next

\* The type invariant, strengthened.
LEMMA TypeInvariant == Spec => []TypeInv
<1>1. Init => TypeInv
  BY InitType
<1>2. TypeInv /\ [Next]_vars => TypeInv'
  BY NextType
<1> QED
  BY <1>1, <1>2, PTL DEF Spec

\* Every variable keeps its type, in every interleaving of the goroutines of
\* meds.go and whatever the environment does.
THEOREM TypeCorrect == Spec => []TypeOK
<1>1. TypeInv => TypeOK
  BY DEF TypeInv
<1> QED
  BY <1>1, TypeInvariant, PTL
=============================================================================
