--------------------------- MODULE ChassisRefresh ---------------------------
(***************************************************************************)
(* The goroutine of main: the initial sync with HSM, then the loop that    *)
(* asks SLS for the cabinets and their chassis, initialises the chassis it *)
(* does not know (init_chassis) and stops those it did not come across     *)
(* (deinit_chassis).  activeEndpointsLock is left out: main is the only    *)
(* one to take it, so it never excludes anything.                          *)
(***************************************************************************)
EXTENDS MedsState

MainKeeps == <<hsm, sls, up, caRoll, queued, poll, nstError, presLock>>

\* A cabinet without chassis adds nothing to a refresh, and is left out.
CabinetsOf(chassis) == {CabinetOf[c] : c \in chassis}
\* The Mountain and Hill chassis SLS has of a cabinet.
ChassisIn(cab) == {c \in sls : CabinetOf[c] = cab}

MainAt(from, to) == mainPc = from /\ mainPc' = to

(***************************************************************************)
(* The initial sync.  No endpoint is registered yet: queryHSMState only    *)
(* fills the cache.  Success starts the HSM watcher.                       *)
(***************************************************************************)
BootSync ==
    /\ MainAt("boot", "sleep")
    /\ cache' = hsm
    /\ attempt' = 1
    /\ syncPc' = "wait"
    /\ knownAtBoot' = {n \in Xname : hsm[n] = "enabled"}
    /\ UNCHANGED <<hazards, activeChassis, activeEndpoints, presence, watching,
                   syncAt, syncTodo, syncSeen, snapshot,
                   cabs, chs, old, cur, names, objs, new, MainKeeps>>

\* Mutant: one attempt too many.
BootSyncRetryOnceMore ==
    /\ mainPc = "boot"
    /\ Happens("hsmFail")
    /\ attempt <= MaxAttempts
    /\ attempt' = attempt + 1
    /\ UNCHANGED <<mapVars, presence, watching, syncVars,
                   mainPc, cabs, chs, old, cur, names, objs, new, knownAtBoot, MainKeeps>>

BootSyncRetry ==
    /\ mainPc = "boot"
    /\ Happens("hsmFail")
    /\ attempt < MaxAttempts
    /\ attempt' = attempt + 1
    /\ UNCHANGED <<mapVars, presence, watching, syncVars,
                   mainPc, cabs, chs, old, cur, names, objs, new, knownAtBoot, MainKeeps>>

(***************************************************************************)
(* The refresh loop.                                                       *)
(***************************************************************************)
\* What every step of the loop leaves alone.
LoopKeeps == UNCHANGED <<cache, attempt, knownAtBoot, syncPc, syncAt, snapshot, MainKeeps>>
KeepMaps == UNCHANGED <<activeChassis, activeEndpoints, syncTodo, syncSeen>>
KeepObjects == UNCHANGED <<presence, watching>>

\* getSLSCabInfo asks SLS for the Mountain cabinets and then for those of class
\* Hill.  A cabinet is in one of the answers, unless it is given the class
\* already asked for in between: then it is in neither.
Wake ==
    /\ MainAt("sleep", "rlock")
    /\ \/ cabs' = CabinetsOf(sls) /\ UNCHANGED hazards
       \/ Happens("reclass") /\ \E cab \in Cabinet : cabs' = CabinetsOf(sls) \ {cab}
    /\ old' = {c \in Chassis : activeChassis[c] # {}}
    /\ UNCHANGED <<chs, cur, names, objs, new>>
    /\ KeepMaps /\ KeepObjects /\ LoopKeeps

\* Either query fails: sleep again.
WakeFails ==
    /\ mainPc = "sleep"
    /\ Happens("slsFail")
    /\ UNCHANGED <<mainPc, cabs, chs, old, cur, names, objs, new>>
    /\ KeepMaps /\ KeepObjects /\ LoopKeeps

MainRLock ==
    /\ MayRLock
    /\ MainAt("rlock", "scan")
    /\ UNCHANGED <<hazards, cabs, chs, old, cur, names, objs, new>>
    /\ KeepMaps /\ KeepObjects /\ LoopKeeps

\* getSLSCabinetChassis, for the next cabinet.
ScanCabinet(cab) ==
    /\ mainPc = "scan" /\ chs = {}
    /\ cab \in cabs
    /\ cabs' = cabs \ {cab}
    /\ \/ /\ chs' = ChassisIn(cab)
          /\ UNCHANGED hazards
       \/ /\ Happens("chassisFail")
          /\ UNCHANGED chs
    /\ UNCHANGED <<mainPc, old, cur, names, objs, new>>
    /\ KeepMaps /\ KeepObjects /\ LoopKeeps

\* Mutant: a chassis that is known already stays in oldChassisList.
ScanKnownStays(c) ==
    /\ mainPc = "scan"
    /\ c \in chs /\ activeChassis[c] # {}
    /\ chs' = chs \ {c}
    /\ UNCHANGED <<hazards, mainPc, cabs, old, cur, names, objs, new>>
    /\ KeepMaps /\ KeepObjects /\ LoopKeeps

\* The next chassis is known already.
ScanKnown(c) ==
    /\ mainPc = "scan"
    /\ c \in chs /\ activeChassis[c] # {}
    /\ chs' = chs \ {c}
    /\ old' = old \ {c}
    /\ UNCHANGED <<hazards, mainPc, cabs, cur, names, objs, new>>
    /\ KeepMaps /\ KeepObjects /\ LoopKeeps

\* It is new: init_chassis gets as far as the loop that starts the watchers,
\* or fails before.
ScanNew(c) ==
    /\ mainPc = "scan"
    /\ c \in chs /\ activeChassis[c] = {}
    /\ chs' = chs \ {c}
    /\ \/ /\ mainPc' = "init"
          /\ cur' = c
          /\ names' = {n \in Xname : ChassisOf[n] = c}
          /\ UNCHANGED hazards
       \/ /\ Happens("initFail")
          /\ UNCHANGED <<mainPc, cur, names>>
    /\ UNCHANGED <<cabs, old, objs, new>>
    /\ KeepMaps /\ KeepObjects /\ LoopKeeps

\* Mutant: the cache is not consulted.
InitPresenceUncached(o) ==
    /\ MainAt("init", "publish")
    /\ XnameOf(o) \in names /\ Unused(o)
    /\ names' = names \ {XnameOf(o)}
    /\ new' = o
    /\ presence' = [presence EXCEPT ![o] = "NOT_PRESENT"]
    /\ UNCHANGED <<hazards, watching, cabs, chs, old, cur, objs>>
    /\ KeepMaps /\ LoopKeeps

\* A new object for the next endpoint, its presence taken from the cache.
InitPresence(o) ==
    /\ MainAt("init", "publish")
    /\ XnameOf(o) \in names /\ Unused(o)
    /\ names' = names \ {XnameOf(o)}
    /\ new' = o
    /\ presence' = [presence EXCEPT ![o] =
            IF cache[XnameOf(o)] # "absent" THEN "PRESENT" ELSE "NOT_PRESENT"]
    /\ UNCHANGED <<hazards, watching, cabs, chs, old, cur, objs>>
    /\ KeepMaps /\ LoopKeeps

\* Enter it in both maps and start its watcher.
Publish ==
    /\ MainAt("publish", "init")
    /\ activeChassis' = [activeChassis EXCEPT ![cur] = @ \cup {new}]
    /\ activeEndpoints' = [activeEndpoints EXCEPT ![XnameOf(new)] = new]
    /\ watching' = [watching EXCEPT ![new] = TRUE]
    /\ new' = Nil
    /\ UNCHANGED <<hazards, presence, syncTodo, syncSeen, cabs, chs, old, cur, names, objs>>
    /\ LoopKeeps

\* init_chassis returns.
InitReturns ==
    /\ MainAt("init", "scan")
    /\ names = {}
    /\ old' = old \ {cur}
    /\ cur' = Nil
    /\ UNCHANGED <<hazards, cabs, chs, names, objs, new>>
    /\ KeepMaps /\ KeepObjects /\ LoopKeeps

\* Every cabinet is handled: what is left in old is stopped.
ScanDone ==
    /\ MainAt("scan", "remove")
    /\ cabs = {} /\ chs = {}
    /\ UNCHANGED <<hazards, cabs, chs, old, cur, names, objs, new>>
    /\ KeepMaps /\ KeepObjects /\ LoopKeeps

\* deinit_chassis is called for the next of them ...
Remove(c) ==
    /\ MainAt("remove", "quit")
    /\ c \in old
    /\ old' = old \ {c}
    /\ cur' = c
    /\ objs' = activeChassis[c]
    /\ UNCHANGED <<hazards, cabs, chs, names, new>>
    /\ KeepMaps /\ KeepObjects /\ LoopKeeps

\* Mutant: the watcher is not told to quit.
QuitForgotten(o) ==
    /\ MainAt("quit", "unlink")
    /\ o \in objs
    /\ objs' = objs \ {o}
    /\ new' = o
    /\ UNCHANGED <<hazards, cabs, chs, old, cur, names>>
    /\ KeepMaps /\ KeepObjects /\ LoopKeeps

\* ... a watcher receives from its QuitChannel ...
Quit(o) ==
    /\ MainAt("quit", "unlink")
    /\ o \in objs /\ watching[o]
    /\ objs' = objs \ {o}
    /\ new' = o
    /\ watching' = [watching EXCEPT ![o] = FALSE]
    /\ UNCHANGED <<hazards, presence, cabs, chs, old, cur, names>>
    /\ KeepMaps /\ LoopKeeps

\* ... its entry is deleted, so no iteration will come to it any more ...
Unlink ==
    /\ MainAt("unlink", "quit")
    /\ activeEndpoints' = [activeEndpoints EXCEPT ![XnameOf(new)] = Nil]
    /\ syncTodo' = syncTodo \ {new}
    /\ syncSeen' = syncSeen \ {new}
    /\ new' = Nil
    /\ UNCHANGED <<hazards, activeChassis, cabs, chs, old, cur, names, objs>>
    /\ KeepObjects /\ LoopKeeps

\* Mutant: the chassis stays in activeChassis.
RemoveReturnsUndeleted ==
    /\ MainAt("quit", "remove")
    /\ objs = {}
    /\ cur' = Nil
    /\ UNCHANGED <<hazards, activeChassis, activeEndpoints, syncTodo, syncSeen,
                   cabs, chs, old, names, objs, new>>
    /\ KeepObjects /\ LoopKeeps

\* ... and deinit_chassis returns.
RemoveReturns ==
    /\ MainAt("quit", "remove")
    /\ objs = {}
    /\ activeChassis' = [activeChassis EXCEPT ![cur] = {}]
    /\ cur' = Nil
    /\ UNCHANGED <<hazards, activeEndpoints, syncTodo, syncSeen, cabs, chs, old,
                   names, objs, new>>
    /\ KeepObjects /\ LoopKeeps

\* The end of a refresh: main releases rfClientLock and sleeps.
RefreshDone ==
    /\ MainAt("remove", "sleep")
    /\ old = {}
    /\ UNCHANGED <<hazards, cabs, chs, old, cur, names, objs, new>>
    /\ KeepMaps /\ KeepObjects /\ LoopKeeps

MainNext ==
    \/ BootSync \/ BootSyncRetry
    \/ Wake \/ WakeFails \/ MainRLock
    \/ \E cab \in Cabinet : ScanCabinet(cab)
    \/ \E c \in Chassis : ScanKnown(c) \/ ScanNew(c) \/ Remove(c)
    \/ \E o \in Endpoint : InitPresence(o) \/ Quit(o)
    \/ Publish \/ InitReturns \/ ScanDone
    \/ Unlink \/ RemoveReturns \/ RefreshDone
=============================================================================
