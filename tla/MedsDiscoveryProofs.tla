------------------------- MODULE MedsDiscoveryProofs -------------------------
(***************************************************************************)
(* Meds implements Discovery, as long as nobody deletes records: every     *)
(* step of every goroutine is, through the mapping of MedsDiscovery, a     *)
(* step of Discovery or none.  The steps rest on three invariants: the     *)
(* registry (whose view a write of a presence changes, if anybody's), the  *)
(* records (what MEDS believes, HSM has), and what was known at the start  *)
(* (whom a poll may decide to announce).                                   *)
(***************************************************************************)
EXTENDS MedsDiscovery, MedsRegistryProofs, MedsKnownProofs

MappedInv == TypeInv /\ RegInv /\ RecordInv /\ KnownInv

MappedView == [n \in Xname |-> View(n)]

(***************************************************************************)
(* How the mapped variables move with those of Meds.                       *)
(***************************************************************************)
\* What MEDS thinks of the BMCs is a matter of two variables ...
LEMMA ViewKeeps ==
    ASSUME UNCHANGED <<activeEndpoints, presence>> PROVE MappedView' = MappedView
BY DEF MappedView, View

\* ... and a write of a presence shows when the object is registered.
LEMMA PresenceShows ==
    ASSUME TypeInv, RegInv, NEW o \in Endpoint, NEW v, UNCHANGED activeEndpoints,
           presence' = [presence EXCEPT ![o] = v]
    PROVE  IF o \in Registered
           THEN MappedView' = [MappedView EXCEPT ![XnameOf(o)] =
                                  IF v = "PRESENT" THEN "known" ELSE "unknown"]
           ELSE MappedView' = MappedView
<1>1. \A n \in Xname : activeEndpoints[n] = o => n = XnameOf(o)
  BY ConstantsAssumption DEF RegInv, Filed
<1>2. \A q \in Endpoint : presence'[q] = IF q = o THEN v ELSE presence[q]
  BY DEF TypeInv, TypeOK, PollTypeOK
<1>3. \A n \in Xname : activeEndpoints[n] \in Endpoint \cup {Nil}
  BY DEF TypeInv, TypeOK, MapTypeOK
<1>4. CASE o \in Registered
  <2>1. \A n \in Xname : View(n)' =
          IF n = XnameOf(o) THEN IF v = "PRESENT" THEN "known" ELSE "unknown" ELSE View(n)
    BY <1>1, <1>2, <1>3, <1>4, ConstantsAssumption DEF View, Registered
  <2> QED
    BY <1>4, <2>1 DEF MappedView
<1>5. CASE o \notin Registered
  <2>1. \A n \in Xname : View(n)' = View(n)
    BY <1>1, <1>2, <1>3, <1>5 DEF View, Registered
  <2> QED
    BY <1>5, <2>1 DEF MappedView
<1> QED
  BY <1>4, <1>5

\* Who is announced is a matter of the polls ...
LEMMA AnnouncingKeeps == ASSUME UNCHANGED poll PROVE Announcing' = Announcing
BY DEF Announcing, Announces

\* ... and a step of one adds the name of its object or may take it away.
LEMMA PollAnnounces ==
    ASSUME TypeInv, NEW o \in Endpoint, NEW to, poll' = [poll EXCEPT ![o] = to]
    PROVE  IF to \in AnnouncingPc
           THEN Announcing' = Announcing \cup {XnameOf(o)}
           ELSE Announcing' \in {Announcing, Announcing \ {XnameOf(o)}}
<1>1. \A q \in Endpoint : poll'[q] = IF q = o THEN to ELSE poll[q]
  BY DEF TypeInv, TypeOK, PollTypeOK
<1>2. \A q \in Endpoint : Announces(q)' <=> IF q = o THEN to \in AnnouncingPc ELSE Announces(q)
  BY <1>1 DEF Announces, AnnouncingPc
<1>3. Announcing' = {n \in Xname : \E q \in Endpoint : XnameOf(q) = n /\ Announces(q)'}
  BY DEF Announcing
<1>4. CASE to \in AnnouncingPc
  BY <1>2, <1>3, <1>4, NameOfEndpoint DEF Announcing
<1>5. CASE to \notin AnnouncingPc
  <2>1. \A n \in Xname \ {XnameOf(o)} : n \in Announcing' <=> n \in Announcing
    BY <1>2, <1>3 DEF Announcing
  <2>2. XnameOf(o) \in Announcing' => XnameOf(o) \in Announcing
    BY <1>2, <1>3, <1>5 DEF Announcing
  <2>3. Announcing \subseteq Xname /\ Announcing' \subseteq Xname
    BY <1>3 DEF Announcing
  <2> QED
    BY <1>5, <2>1, <2>2, <2>3
<1> QED
  BY <1>4, <1>5

(***************************************************************************)
(* The steps.                                                              *)
(***************************************************************************)
\* A step that leaves the mapped variables alone is a stutter.
LEMMA Stutters ==
    ASSUME UNCHANGED <<hsm, activeEndpoints, presence, poll, knownAtBoot>>
    PROVE  UNCHANGED D!vars
<1>1. MappedView' = MappedView /\ Announcing' = Announcing
  BY ViewKeeps, AnnouncingKeeps
<1> QED
  BY <1>1 DEF D!vars, MappedView

\* A poll decides to announce a BMC, announces it, gives up, or does what HSM and
\* MEDS's view of it have no part in.
LEMMA WatchImplements ==
    ASSUME MappedInv, MappedInv', NEW o \in Endpoint, WatchNext(o)
    PROVE  D!Next \/ UNCHANGED D!vars
<1> USE DEF MappedInv
<1> DEFINE n == XnameOf(o)
<1>0. n \in Xname
  BY NameOfEndpoint
<1>1. CASE Tick(o)
  BY <1>1, Stutters DEF Tick, WatchKeeps, mapVars, mainVars
<1>2. UNCHANGED <<activeEndpoints, knownAtBoot>>
  BY PollStepShape DEF WatchNext, Tick, PollLock, WatchKeeps, mapVars, mainVars
<1>3. ASSUME UNCHANGED <<hsm, presence>>, NEW to, poll' = [poll EXCEPT ![o] = to]
      PROVE  D!Next \/ UNCHANGED D!vars
  <2>1. MappedView' = MappedView
    BY <1>2, <1>3, ViewKeeps
  <2>2. CASE to \in AnnouncingPc
    <3>1. Announcing' = Announcing \cup {n}
      BY <1>3, <2>2, PollAnnounces
    <3>2. n \notin knownAtBoot
      BY <1>2, <1>3, <2>2 DEF KnownInv, BootKnownNeverNotified, AnnouncingPc, TypeInv, TypeOK, PollTypeOK
    <3>3. D!Decide(n)
      BY <1>2, <1>3, <2>1, <3>1, <3>2 DEF D!Decide, MappedView
    <3> QED
      BY <1>0, <3>3 DEF D!Next
  <2>3. CASE to \notin AnnouncingPc
    <3>1. Announcing' \in {Announcing, Announcing \ {n}}
      BY <1>3, <2>3, PollAnnounces
    <3>2. D!GiveUp(n) \/ UNCHANGED D!vars
      BY <1>2, <1>3, <2>1, <3>1 DEF D!GiveUp, D!vars, MappedView
    <3> QED
      BY <1>0, <3>2 DEF D!Next
  <2> QED
    BY <2>2, <2>3
<1>4. CASE PollLock(o)
  BY <1>3, <1>4 DEF PollLock
<1>5. CASE PollStep(o)
  <2>1. PICK to : poll' = [poll EXCEPT ![o] = to]
    BY <1>5, PollStepShape DEF PollMoves, PollEnds
  <2>2. UNCHANGED <<hsm, presence>> \/ Tells(o)
    BY <1>5, PollStepTells DEF TypeInv, TypeOK, PollTypeOK
  <2>3. CASE Tells(o)
    <3>1. n \in Announcing
      BY <1>0, <2>3 DEF Tells, Announcing, Announces, AnnouncingPc
    <3>2. Announcing' \in {Announcing, Announcing \ {n}}
      BY <2>1, <3>1, PollAnnounces
    <3>3. \/ MappedView' = MappedView
          \/ o \in Registered /\ MappedView' = [MappedView EXCEPT ![n] = "known"]
      BY <1>2, <2>3, ViewKeeps, PresenceShows DEF Tells
    <3>4. o \in Registered => MappedView[n] # "unwatched"
      BY <1>0, ConstantsAssumption DEF MappedView, View, Registered
    <3>5. D!Announce(n)
      BY <1>2, <2>3, <3>1, <3>2, <3>3, <3>4 DEF Tells, Enable, D!Announce, MappedView
    <3> QED
      BY <1>0, <3>5 DEF D!Next
  <2> QED
    BY <1>3, <2>1, <2>2, <2>3
<1> QED
  BY <1>1, <1>4, <1>5 DEF WatchNext

\* A sync learns of a BMC, or doubts it, when it applies HSM's answer.
LEMMA SyncImplements ==
    ASSUME MappedInv, SyncNext PROVE D!Next \/ UNCHANGED D!vars
<1> USE DEF MappedInv
<1>1. ASSUME NEW o \in Endpoint, SyncApply(o) PROVE D!Next
  <2> DEFINE n == XnameOf(o)
             s == StatusIn(snapshot[n])
  <2>0. n \in Xname
    BY NameOfEndpoint
  <2>1. UNCHANGED <<hsm, activeEndpoints, poll, knownAtBoot>> /\ o \in Registered
    BY <1>1 DEF SyncApply, SyncKeeps, Visit, mainVars
  <2>2. Announcing' = Announcing
    BY <2>1, AnnouncingKeeps
  <2>3. MappedView[n] # "unwatched"
    BY <2>0, <2>1, ConstantsAssumption DEF MappedView, View, Registered
  <2>4. MappedView' = [MappedView EXCEPT ![n] = IF s = "PRESENT" THEN "known" ELSE "unknown"]
    BY <1>1, <2>1, PresenceShows DEF SyncApply
  <2>5. CASE s = "PRESENT"
    <3>1. hsm[n] # "absent"
      BY <2>0, <2>5 DEF StatusIn, RecordInv, AnswerRecorded
    <3>2. D!Learn(n)
      BY <2>1, <2>2, <2>3, <2>4, <2>5, <3>1 DEF D!Learn, D!Sees, MappedView
    <3> QED
      BY <2>0, <3>2 DEF D!Next
  <2>6. CASE s # "PRESENT"
    <3>1. D!Doubt(n)
      BY <2>1, <2>2, <2>3, <2>4, <2>6 DEF D!Doubt, D!Sees, MappedView
    <3> QED
      BY <2>0, <3>1 DEF D!Next
  <2> QED
    BY <2>5, <2>6
<1>2. ASSUME ~ \E o \in Endpoint : SyncApply(o) PROVE UNCHANGED D!vars
  BY <1>2, Stutters DEF SyncNext, SyncStep, SyncStart, SyncPick, SyncLock, SyncLocked, SyncGet,
     SyncGetFails, SyncFinish, SyncReturns, SyncKeeps, mainVars
<1> QED
  BY <1>1, <1>2

\* The initial sync starts Discovery; main watches a BMC when it publishes an
\* object of it, and no longer when it unlinks the object.
LEMMA MainImplements ==
    ASSUME MappedInv, MainNext PROVE D!Next \/ UNCHANGED D!vars
<1> USE DEF MappedInv
<1>1. CASE BootSync
  <2>1. mainPc = "boot" /\ UNCHANGED <<hsm, activeEndpoints, presence, poll>>
    BY <1>1 DEF BootSync, MainAt, MainKeeps
  <2>2. MappedView = D!NothingWatched
    BY <2>1 DEF KnownInv, BootFresh, MappedView, View, D!NothingWatched
  <2>3. Announcing = {}
    BY <2>1 DEF KnownInv, BootFresh, InUse, Announcing, Announces
  <2>4. MappedView' = MappedView /\ Announcing' = Announcing
    BY <2>1, ViewKeeps, AnnouncingKeeps
  <2>5. D!Start
    BY <1>1, <2>1, <2>2, <2>3, <2>4 DEF BootSync, D!Start, MappedView
  <2> QED
    BY <2>5 DEF D!Next
<1>2. ASSUME NEW o \in Endpoint, InitPresence(o) PROVE UNCHANGED D!vars
  <2>1. o \notin Registered
    BY <1>2 DEF InitPresence, Unused
  <2>2. UNCHANGED <<hsm, activeEndpoints, poll, knownAtBoot>>
    BY <1>2 DEF InitPresence, KeepMaps, LoopKeeps, MainKeeps
  <2>3. MappedView' = MappedView
    BY <1>2, <2>1, <2>2, PresenceShows DEF InitPresence
  <2> QED
    BY <2>2, <2>3, AnnouncingKeeps DEF D!vars, MappedView
<1>3. CASE Publish
  <2> DEFINE n == XnameOf(new)
  <2>1. new \in Endpoint /\ n \in Xname /\ activeEndpoints[n] = Nil
    BY <1>3, NameOfEndpoint DEF Publish, MainAt, TypeInv, NewOK, RegInv, StartingOK, Starting
  <2>2. UNCHANGED <<hsm, presence, poll, knownAtBoot>>
    BY <1>3 DEF Publish, LoopKeeps, MainKeeps
  <2>3. MappedView[n] = "unwatched"
    BY <2>1 DEF MappedView, View
  <2>4. PICK v \in {"known", "unknown"} :
          /\ MappedView' = [MappedView EXCEPT ![n] = v]
          /\ v = "known" => presence[new] = "PRESENT"
    <3> DEFINE w == IF presence[new] = "PRESENT" THEN "known" ELSE "unknown"
    <3>1. \A m \in Xname : activeEndpoints'[m] = IF m = n THEN new ELSE activeEndpoints[m]
      BY <1>3, <2>1 DEF Publish, TypeInv, TypeOK, MapTypeOK
    <3>2. \A m \in Xname : View(m)' = IF m = n THEN w ELSE View(m)
      BY <2>1, <2>2, <3>1, ConstantsAssumption DEF View
    <3> QED
      BY <3>2 DEF MappedView
  <2>5. v = "known" => hsm[n] # "absent"
    BY <2>1, <2>4 DEF RecordInv, PresentRecorded
  <2>6. D!Watch(n)
    BY <2>2, <2>3, <2>4, <2>5, AnnouncingKeeps DEF D!Watch, D!Sees, D!View, MappedView
  <2> QED
    BY <2>1, <2>6 DEF D!Next
<1>4. CASE Unlink
  <2> DEFINE n == XnameOf(new)
  <2>1. new \in Endpoint /\ n \in Xname
    BY <1>4, NameOfEndpoint DEF Unlink, MainAt, TypeInv, NewOK
  <2>2. UNCHANGED <<hsm, presence, poll, knownAtBoot>>
    BY <1>4 DEF Unlink, KeepObjects, LoopKeeps, MainKeeps
  <2>3. \A m \in Xname : activeEndpoints'[m] = IF m = n THEN Nil ELSE activeEndpoints[m]
    BY <1>4, <2>1 DEF Unlink, TypeInv, TypeOK, MapTypeOK
  <2>4. \A m \in Xname : View(m)' = IF m = n THEN "unwatched" ELSE View(m)
    BY <2>2, <2>3 DEF View
  <2>5. MappedView' = [MappedView EXCEPT ![n] = "unwatched"]
    BY <2>4 DEF MappedView
  <2>6. D!Unwatch(n)
    BY <2>2, <2>5, AnnouncingKeeps DEF D!Unwatch, D!Sees, MappedView
  <2> QED
    BY <2>1, <2>6 DEF D!Next
<1>5. CASE UNCHANGED <<hsm, activeEndpoints, presence, poll, knownAtBoot>>
  BY <1>5, Stutters
<1> QED
  BY <1>1, <1>2, <1>3, <1>4, <1>5 DEF MainNext, BootSyncRetry, Wake, WakeFails, MainRLock, ScanCabinet,
     ScanKnown, ScanNew, InitReturns, ScanDone, Remove, Quit, RemoveReturns, RefreshDone,
     LoopKeeps, KeepMaps, KeepObjects, MainKeeps, mapVars

\* The environment restarts the process or disables a record.
LEMMA EnvImplements ==
    ASSUME "delete" \notin Hazards, MappedInv, EnvNext PROVE D!Next \/ UNCHANGED D!vars
<1> USE DEF MappedInv
<1>1. CASE Crash \/ BootFatal
  <2>1. Restart
    BY <1>1 DEF Crash, BootFatal
  <2>2. MappedView' = D!NothingWatched
    BY <2>1 DEF Restart, MappedView, View, D!NothingWatched
  <2>3. Announcing' = {}
    BY <2>1 DEF Restart, Announcing, Announces
  <2>4. D!Restart
    BY <2>1, <2>2, <2>3 DEF Restart, D!Restart, MappedView
  <2> QED
    BY <2>4 DEF D!Next
<1>2. ASSUME NEW n \in Xname, AdminDisables(n) PROVE D!Next
  <2>1. UNCHANGED <<activeEndpoints, presence, poll>>
    BY <1>2 DEF AdminDisables, AdminSets, mapVars, pollVars
  <2>2. D!AdminDisables(n)
    BY <1>2, <2>1, ViewKeeps, AnnouncingKeeps DEF AdminDisables, AdminSets, D!AdminDisables, MappedView
  <2> QED
    BY <2>2 DEF D!Next
<1>3. ASSUME NEW n \in Xname, AdminDeletes(n) PROVE FALSE
  BY <1>3 DEF AdminDeletes, Happens
<1>4. CASE UNCHANGED <<hsm, activeEndpoints, presence, poll, knownAtBoot>>
  BY <1>4, Stutters
<1> QED
  BY <1>1, <1>2, <1>3, <1>4 DEF EnvNext, CARollBegins, CARollEnds, Power, SlsEdit, KeepProgram,
     envVars, mapVars, pollVars, mainVars

\* Every step of MEDS is one of Discovery, or none.
LEMMA NextImplements ==
    ASSUME "delete" \notin Hazards, MappedInv, MappedInv', [Next]_vars
    PROVE  [D!Next]_D!vars
<1>1. CASE UNCHANGED vars
  BY <1>1, Stutters DEF vars, envVars, mapVars, pollVars, mainVars
<1>2. D!Next \/ UNCHANGED D!vars
  BY <1>1, MainImplements, SyncImplements, WatchImplements, EnvImplements DEF Next
<1> QED
  BY <1>2

\* MEDS starts where Discovery does.
LEMMA InitImplements == Init => D!Init
<1> SUFFICES ASSUME Init PROVE D!Init
  OBVIOUS
<1>1. MappedView = D!NothingWatched /\ Announcing = {}
  BY DEF Init, MappedView, View, Announcing, Announces, D!NothingWatched
<1>2. hsm \in [Xname -> D!Record]
  BY ConstantsAssumption DEF Init, HsmRecord, D!Record
<1> QED
  BY <1>1, <1>2 DEF Init, D!Init, MappedView

\* MEDS implements Discovery, with any number of chassis, objects, polls and
\* hazards: it changes a record only by announcing, sets out to announce only
\* what was not known to it at the start, and takes for known only what HSM has.
THEOREM MedsImplementsDiscovery ==
    ASSUME "delete" \notin Hazards PROVE Spec => ImplementsDiscovery
<1>1. Init => D!Init
  BY InitImplements
<1>2. MappedInv /\ MappedInv' /\ [Next]_vars => [D!Next]_D!vars
  BY NextImplements
<1>3. Spec => []MappedInv
  BY TypeInvariant, RegInvariant, RecordInvariant, KnownInvariant, PTL DEF MappedInv
<1> QED
  BY <1>1, <1>2, <1>3, PTL DEF Spec, D!Spec, ImplementsDiscovery

(***************************************************************************)
(* What Discovery promises, of Meds.                                       *)
(***************************************************************************)
P == INSTANCE DiscoveryProofs WITH
        Name <- Xname, record <- hsm, view <- [n \in Xname |-> View(n)],
        announcing <- Announcing, spared <- knownAtBoot

\* The two instances are of the same definitions.
LEMMA SameDiscovery == ImplementsDiscovery => P!Spec
<1>1. D!Init => P!Init
  BY DEF D!Init, P!Init, D!Record, P!Record, D!NothingWatched, P!NothingWatched
<1>2. [D!Next]_D!vars => [P!Next]_P!vars
  BY DEF D!Next, P!Next, D!vars, P!vars, D!Start, P!Start, D!Restart, P!Restart, D!Watch, P!Watch,
     D!Unwatch, P!Unwatch, D!Learn, P!Learn, D!Doubt, P!Doubt, D!Decide, P!Decide, D!Announce, P!Announce,
     D!GiveUp, P!GiveUp, D!AdminDisables, P!AdminDisables, D!Sees, P!Sees, D!View, P!View,
     D!NothingWatched, P!NothingWatched
<1> QED
  BY <1>1, <1>2, PTL DEF ImplementsDiscovery, D!Spec, P!Spec

\* Whoever changes HSM's record of a BMC, it is a poll that has found the BMC, or
\* an administrator who disables it.
RecordsChangeRightly ==
    [][ \A n \in Xname : hsm'[n] # hsm[n] =>
          \/ n \in Announcing \ knownAtBoot /\ hsm'[n] = "enabled"
          \/ hsm[n] = "enabled" /\ hsm'[n] = "disabled" /\ n \notin knownAtBoot' ]_hsm

\* Records are written by patchXNameEnabled and notifyHSMXnamePresent only for
\* BMCs that were probed, and not for those HSM had enabled at the start.
THEOREM RecordsChangeRightlyHolds ==
    ASSUME "delete" \notin Hazards PROVE Spec => RecordsChangeRightly
<1> DEFINE Changes ==
       \A n \in Xname : hsm'[n] # hsm[n] =>
          \/ n \in Announcing \ knownAtBoot /\ hsm'[n] = "enabled"
          \/ hsm[n] = "enabled" /\ hsm'[n] = "disabled" /\ n \notin knownAtBoot'
<1>1. [Changes]_P!vars => [Changes]_hsm
  BY DEF P!vars
<1> HIDE DEF Changes
<1>2. P!RecordsOnlyAnnounced => [][Changes]_P!vars
  BY DEF P!RecordsOnlyAnnounced, Changes
<1>3. Spec => [][Changes]_hsm
  BY <1>1, <1>2, MedsImplementsDiscovery, SameDiscovery, P!RecordsOnlyAnnouncedHolds, PTL
<1> QED
  BY <1>3 DEF Changes, RecordsChangeRightly

\* What HSM had enabled when MEDS started stays enabled until an administrator
\* disables it, and no poll is about to tell HSM of it.
StartIsRespected == \A n \in knownAtBoot : hsm[n] = "enabled" /\ n \notin Announcing

\* watchForHardware calls onPresent for no such BMC, not even with an object
\* that has been replaced since.
THEOREM StartIsRespectedHolds ==
    ASSUME "delete" \notin Hazards PROVE Spec => []StartIsRespected
<1>1. P!SparedLeftAlone => StartIsRespected
  BY DEF P!SparedLeftAlone, StartIsRespected
<1> QED
  BY <1>1, MedsImplementsDiscovery, SameDiscovery, P!SparedLeftAloneHolds, PTL
=============================================================================
