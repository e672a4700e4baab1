------------------------- MODULE MedsRegistryProofs -------------------------
(***************************************************************************)
(* activeChassis, activeEndpoints and the watchers: the bookkeeping of     *)
(* init_chassis and deinit_chassis.                                        *)
(***************************************************************************)
EXTENDS MedsProofs

(***************************************************************************)
(* The inductive invariant: both maps file objects under the right key,    *)
(* and the running watchers are those of the objects in activeChassis,     *)
(* but for the chassis that is being stopped, of which objs are left.      *)
(***************************************************************************)
Stopping == mainPc \in {"quit", "unlink"}
Starting == mainPc \in {"init", "publish"}

Filed ==
    /\ \A n \in Xname : activeEndpoints[n] # Nil => XnameOf(activeEndpoints[n]) = n
    /\ \A c \in Chassis : \A o \in activeChassis[c] : ChassisOf[XnameOf(o)] = c

Watched ==
    \A c \in Chassis : \A o \in activeChassis[c] :
        watching[o] <=> ~(Stopping /\ cur = c) \/ o \in objs

StoppingOK ==
    Stopping =>
        /\ cur \in Chassis /\ objs \subseteq activeChassis[cur]
        /\ mainPc = "unlink" =>
              new \in activeChassis[cur] \cap Registered /\ new \notin objs

StartingOK ==
    Starting =>
        /\ cur \in Chassis
        /\ \A n \in names : ChassisOf[n] = cur /\ activeEndpoints[n] = Nil
        /\ mainPc = "publish" =>
              /\ ChassisOf[XnameOf(new)] = cur
              /\ XnameOf(new) \notin names /\ activeEndpoints[XnameOf(new)] = Nil

RegInv == RegistryOK /\ Filed /\ Watched /\ StoppingOK /\ StartingOK

\* An object is one of a name, and its chassis is a chassis.
LEMMA EndpointName ==
    ASSUME NEW o \in Endpoint PROVE XnameOf(o) \in Xname /\ ChassisOf[XnameOf(o)] \in Chassis
BY ConstantsAssumption DEF Endpoint, XnameOf

\* Nothing is registered at the beginning ...
LEMMA RegInit == Init => RegInv
BY ConstantsAssumption, EndpointName DEF Init, RegInv, RegistryOK, Registered, Filed, Watched, StoppingOK, StartingOK,
   Stopping, Starting

\* ... nor in a new process.
LEMMA RegRestart == Restart => RegInv'
BY ConstantsAssumption, EndpointName DEF Restart, RegInv, RegistryOK, Registered, Filed, Watched, StoppingOK, StartingOK,
   Stopping, Starting

\* Polls, the sync and the environment leave the registry alone.
RegVars == <<activeChassis, activeEndpoints, watching, mainPc, cur, names, objs, new>>

\* A step that leaves the registry alone preserves its invariant.
LEMMA RegKeeps == ASSUME RegInv, UNCHANGED RegVars PROVE RegInv'
BY DEF RegVars, RegInv, RegistryOK, Registered, Filed, Watched, StoppingOK, StartingOK, Stopping, Starting

\* The polls, the sync, the CA roll and the environment are such steps.
LEMMA RegOthers ==
    ASSUME SyncNext \/ (\E o \in Endpoint : WatchNext(o)) \/ UNCHANGED vars
    PROVE  UNCHANGED RegVars
<1>1. ASSUME NEW o \in Endpoint, WatchNext(o) PROVE UNCHANGED RegVars
  BY <1>1, PollStepShape DEF WatchNext, Tick, PollLock, PollMoves, PollEnds, WatchKeeps, RegVars, mapVars, mainVars
<1>2. CASE SyncNext
  BY <1>2 DEF SyncNext, SyncStep, SyncStart, SyncPick, SyncLock, SyncLocked, SyncGet,
     SyncGetFails, SyncApply, SyncFinish, SyncReturns, SyncKeeps, RegVars, mainVars
<1>3. CASE UNCHANGED vars
  BY <1>3 DEF vars, mapVars, pollVars, mainVars, RegVars
<1> QED
  BY <1>1, <1>2, <1>3

\* The environment either leaves the registry alone or restarts the process.
LEMMA RegEnv == ASSUME RegInv, EnvNext PROVE RegInv'
<1>1. CASE Crash \/ BootFatal
  BY <1>1, RegRestart DEF Crash, BootFatal
<1>2. CASE UNCHANGED RegVars
  BY <1>2, RegKeeps
<1> QED
  BY <1>1, <1>2 DEF EnvNext, CARollBegins, CARollEnds, AdminDisables, AdminDeletes, AdminSets, Power,
     SlsEdit, KeepProgram, mapVars, pollVars, mainVars, RegVars

\* The steps of main, the only goroutine that changes the registry.
LEMMA RegMain == ASSUME TypeInv, RegInv, MainNext PROVE RegInv'
<1>0. /\ Nil \notin Endpoint /\ Nil \notin Chassis
      /\ activeChassis \in [Chassis -> SUBSET Endpoint]
      /\ activeEndpoints \in [Xname -> Endpoint \cup {Nil}]
      /\ watching \in [Endpoint -> BOOLEAN]
      /\ objs \subseteq Endpoint /\ names \subseteq Xname /\ chs \subseteq Chassis
      /\ NewOK
  BY ConstantsAssumption DEF TypeInv, TypeOK, MapTypeOK, PollTypeOK, MainTypeOK
<1> USE <1>0, EndpointName
    DEF MainAt, KeepMaps, KeepObjects, NewOK, RegInv, RegistryOK, Registered, Filed, Watched,
        StoppingOK, StartingOK, Stopping, Starting
<1>1. CASE BootSync \/ BootSyncRetry
  BY <1>1 DEF BootSync, BootSyncRetry, mapVars
<1>2. CASE Wake \/ WakeFails \/ MainRLock \/ ScanDone \/ RefreshDone
  BY <1>2 DEF Wake, WakeFails, MainRLock, ScanDone, RefreshDone
<1>3. ASSUME NEW cab \in Cabinet, ScanCabinet(cab) PROVE RegInv'
  BY <1>3 DEF ScanCabinet
<1>4. ASSUME NEW c \in Chassis, ScanKnown(c) PROVE RegInv'
  BY <1>4 DEF ScanKnown
<1>5. ASSUME NEW c \in Chassis, ScanNew(c) PROVE RegInv'
  BY <1>5 DEF ScanNew
<1>6. ASSUME NEW o \in Endpoint, InitPresence(o) PROVE RegInv'
  BY <1>6 DEF InitPresence
<1>7. CASE Publish
  BY <1>7 DEF Publish
<1>8. CASE InitReturns
  BY <1>8 DEF InitReturns
<1>9. ASSUME NEW c \in Chassis, Remove(c) PROVE RegInv'
  BY <1>9 DEF Remove
<1>10. ASSUME NEW o \in Endpoint, Quit(o) PROVE RegInv'
  BY <1>10 DEF Quit
<1>11. CASE Unlink
  BY <1>11 DEF Unlink
<1>12. CASE RemoveReturns
  BY <1>12 DEF RemoveReturns
<1> QED
  BY <1>1, <1>2, <1>3, <1>4, <1>5, <1>6, <1>7, <1>8, <1>9, <1>10, <1>11, <1>12 DEF MainNext

\* Every step of the system preserves the invariant of the registry.
LEMMA RegNext == ASSUME TypeInv, RegInv, [Next]_vars PROVE RegInv'
BY RegOthers, RegKeeps, RegEnv, RegMain DEF Next

\* The invariant of the registry.
LEMMA RegInvariant == Spec => []RegInv
<1>1. Init => RegInv
  BY RegInit
<1>2. TypeInv /\ RegInv /\ [Next]_vars => RegInv'
  BY RegNext
<1> QED
  BY <1>1, <1>2, TypeInvariant, PTL DEF Spec

\* A running watcher is reachable through both maps, so no two watchers run
\* for one BMC and none is beyond the reach of deinit_chassis.
THEOREM RegistryHolds == Spec => []RegistryOK
<1>1. RegInv => RegistryOK
  BY DEF RegInv
<1> QED
  BY <1>1, RegInvariant, PTL

\* deinit_chassis always finds a watcher at the other end of QuitChannel.
THEOREM QuitReceivedHolds == Spec => []QuitReceived
<1>1. RegInv => QuitReceived
  BY DEF RegInv, StoppingOK, Stopping, Watched, QuitReceived
<1> QED
  BY <1>1, RegInvariant, PTL
=============================================================================
