------------------------------ MODULE MedsState ------------------------------
(***************************************************************************)
(* The state shared by the goroutines of MEDS (src/cmd/meds/meds.go), the  *)
(* state of the services it talks to, and the vocabulary of the modules    *)
(* WatchForHardware, HSMSync and ChassisRefresh, which hold the actions of *)
(* the three kinds of goroutine.                                           *)
(*                                                                         *)
(* A NetEndpoint is an object, not a name: init_chassis allocates new ones *)
(* every time a chassis (re)appears, while a poll of an older object of    *)
(* the same name may still be running.  The object <<n, g>> is generation  *)
(* g of the endpoint named n; a generation is used again once nothing in   *)
(* the program refers to it.                                               *)
(***************************************************************************)
EXTENDS Naturals, FiniteSets

CONSTANTS
    Xname,        \* names of the BMC endpoints
    Chassis,      \* names of the chassis
    Cabinet,      \* names of the cabinets
    ChassisOf,    \* the chassis an endpoint belongs to
    CabinetOf,    \* the cabinet a chassis belongs to
    Generation,   \* how many objects of one name may exist at a time
    Nil,          \* the nil pointer
    MaxQueued,    \* bound: polls of one object waiting for its lock
    MaxAttempts,  \* maxInitialHSMSyncAttempts
    Hazards,      \* the kinds of environment event that may happen ...
    MaxHazards,   \* ... and, as a bound, how many of them
    InitialHsm    \* what HSM may know of an endpoint at the beginning

Endpoint == Xname \X Generation
XnameOf(o) == o[1]

HazardKind == {"slsFail", "chassisFail", "initFail", "hsmFail", "lostReply",
               "probeFail", "credsFail", "nwpFail", "caRoll", "crash",
               "disable", "delete", "slsEdit", "reclass", "power"}

HsmRecord == {"absent", "disabled", "enabled"}

ASSUME ConstantsAssumption ==
    /\ ChassisOf \in [Xname -> Chassis]
    /\ CabinetOf \in [Chassis -> Cabinet]
    /\ Nil \notin Endpoint /\ Nil \notin Chassis
    /\ MaxQueued \in Nat \ {0}
    /\ MaxAttempts \in Nat \ {0}
    /\ Hazards \subseteq HazardKind
    /\ MaxHazards \in Nat
    /\ InitialHsm \subseteq HsmRecord

VARIABLES
    \* The environment.
    hsm,              \* HSM's RedfishEndpoints: what it records of each name
    sls,              \* the Mountain and Hill chassis SLS lists
    up,               \* the names that answer on the hardware network
    hazards,          \* how many hazards have happened
    \* Package variables.
    activeChassis,    \* chassis -> its objects ({}: not in the map)
    activeEndpoints,  \* name -> its object (Nil: not in the map)
    cache,            \* hsmRedfishEndpointsCache
    caRoll,           \* a setupRFHTTPStuff waiting for rfClientLock?
    \* The NetEndpoint objects and their goroutines.
    presence,         \* HSMPresence
    presLock,         \* who holds HSMPresLock
    watching,         \* a watchForHardware runs for the object
    queued,           \* its polls that wait for HSMPresLock
    poll,             \* where the poll that holds HSMPresLock is
    nstError,         \* that poll failed to set the network protocols
    \* queryHSMState, as called by watchForHSMChanges.
    syncPc,
    syncAt,           \* the object it is about to lock
    syncTodo,         \* objects the map iteration is bound to visit still
    syncSeen,         \* objects the map iteration has visited
    snapshot,         \* HSM's answer
    \* main.
    mainPc,
    attempt,          \* of the initial sync
    cabs,             \* cabinets still to handle in this refresh
    chs,              \* chassis still to handle in this cabinet
    old,              \* oldChassisList
    cur,              \* the chassis being initialised or stopped
    names,            \* its names still to publish
    objs,             \* its objects still to stop
    new,              \* the object being published or stopped
    \* Auxiliary: the names the initial sync of this process found enabled
    \* and no administrator has touched since.
    knownAtBoot

envVars  == <<hsm, sls, up, hazards>>
mapVars  == <<activeChassis, activeEndpoints, cache>>
pollVars == <<presence, presLock, watching, queued, poll, nstError>>
syncVars == <<syncPc, syncAt, syncTodo, syncSeen, snapshot>>
mainVars == <<mainPc, attempt, cabs, chs, old, cur, names, objs, new,
              knownAtBoot>>
vars     == <<envVars, mapVars, caRoll, pollVars, syncVars, mainVars>>

PollPc == {"idle", "rlock", "get", "creds", "nwp", "post", "patch"}
SyncPc == {"off", "wait", "retry", "lock", "get", "apply"}
MainPc == {"boot", "sleep", "rlock", "scan", "init", "publish", "remove",
           "quit", "unlink"}
Presence == {"PRESENT", "NOT_PRESENT"}

EnvTypeOK ==
    /\ hsm \in [Xname -> HsmRecord]
    /\ sls \in SUBSET Chassis
    /\ up \in SUBSET Xname
    /\ hazards \in 0..MaxHazards

MapTypeOK ==
    /\ activeChassis \in [Chassis -> SUBSET Endpoint]
    /\ activeEndpoints \in [Xname -> Endpoint \cup {Nil}]
    /\ cache \in [Xname -> HsmRecord]

PollTypeOK ==
    /\ presence \in [Endpoint -> Presence]
    /\ presLock \in [Endpoint -> {"free", "poll", "sync"}]
    /\ watching \in [Endpoint -> BOOLEAN]
    /\ queued \in [Endpoint -> 0..MaxQueued]
    /\ poll \in [Endpoint -> PollPc]
    /\ nstError \in [Endpoint -> BOOLEAN]

SyncTypeOK ==
    /\ syncPc \in SyncPc
    /\ syncAt \in Endpoint \cup {Nil}
    /\ syncTodo \in SUBSET Endpoint
    /\ syncSeen \in SUBSET Endpoint
    /\ snapshot \in [Xname -> HsmRecord]

MainTypeOK ==
    /\ mainPc \in MainPc
    /\ attempt \in 1..MaxAttempts
    /\ cabs \in SUBSET Cabinet
    /\ chs \in SUBSET Chassis
    /\ old \in SUBSET Chassis
    /\ cur \in Chassis \cup {Nil}
    /\ names \in SUBSET Xname
    /\ objs \in SUBSET Endpoint
    /\ new \in Endpoint \cup {Nil}
    /\ knownAtBoot \in SUBSET Xname

\* Every variable has its type.
TypeOK ==
    /\ EnvTypeOK /\ MapTypeOK /\ caRoll \in BOOLEAN
    /\ PollTypeOK /\ SyncTypeOK /\ MainTypeOK

(***************************************************************************)
(* One of the bounded number of events the environment may cause.          *)
(***************************************************************************)
Happens(kind) ==
    /\ kind \in Hazards
    /\ hazards < MaxHazards
    /\ hazards' = hazards + 1

NothingKnown == [n \in Xname |-> "absent"]

\* The objects in activeEndpoints, which both loops of queryHSMState range over.
Registered == {o \in Endpoint : activeEndpoints[XnameOf(o)] = o}

\* The presence queryHSMState derives from what HSM records of a name.
StatusIn(record) == IF record = "enabled" THEN "PRESENT" ELSE "NOT_PRESENT"

\* main holds rfClientLock for reading during the whole of a refresh.
MainReads == mainPc \in {"scan", "init", "publish", "remove", "quit", "unlink"}

\* A writer waiting for rfClientLock keeps new readers out.
MayRLock == ~caRoll
NoReaders == ~MainReads /\ \A o \in Endpoint : poll[o] \notin {"get", "nwp"}

\* Nothing in the program refers to the object: it can stand for a new one.
Unused(o) ==
    /\ o \notin Registered
    /\ \A c \in Chassis : o \notin activeChassis[c]
    /\ presLock[o] = "free"
    /\ ~watching[o]
    /\ queued[o] = 0
    /\ o # syncAt
=============================================================================
