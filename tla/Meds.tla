-------------------------------- MODULE Meds --------------------------------
(***************************************************************************)
(* MEDS as a whole: main, the HSM watcher, the hardware watchers and their *)
(* polls, the CA roll callback, and the environment they run in (HSM and   *)
(* its administrators, SLS, the BMCs, the pod that restarts the process).  *)
(***************************************************************************)
EXTENDS WatchForHardware, HSMSync, ChassisRefresh

Init ==
    /\ hsm \in [Xname -> InitialHsm]
    /\ sls = Chassis
    /\ up = Xname
    /\ hazards = 0
    /\ activeChassis = [c \in Chassis |-> {}]
    /\ activeEndpoints = [n \in Xname |-> Nil]
    /\ cache = NothingKnown
    /\ caRoll = FALSE
    /\ presence = [o \in Endpoint |-> "NOT_PRESENT"]
    /\ presLock = [o \in Endpoint |-> "free"]
    /\ watching = [o \in Endpoint |-> FALSE]
    /\ queued = [o \in Endpoint |-> 0]
    /\ poll = [o \in Endpoint |-> "idle"]
    /\ nstError = [o \in Endpoint |-> FALSE]
    /\ syncPc = "off" /\ syncAt = Nil /\ syncTodo = {} /\ syncSeen = {}
    /\ snapshot = NothingKnown
    /\ mainPc = "boot" /\ attempt = 1
    /\ cabs = {} /\ chs = {} /\ old = {} /\ cur = Nil
    /\ names = {} /\ objs = {} /\ new = Nil
    /\ knownAtBoot = {}

\* A new process: every variable of the program starts afresh.
Restart ==
    /\ activeChassis' = [c \in Chassis |-> {}]
    /\ activeEndpoints' = [n \in Xname |-> Nil]
    /\ cache' = NothingKnown
    /\ caRoll' = FALSE
    /\ presence' = [o \in Endpoint |-> "NOT_PRESENT"]
    /\ presLock' = [o \in Endpoint |-> "free"]
    /\ watching' = [o \in Endpoint |-> FALSE]
    /\ queued' = [o \in Endpoint |-> 0]
    /\ poll' = [o \in Endpoint |-> "idle"]
    /\ nstError' = [o \in Endpoint |-> FALSE]
    /\ syncPc' = "off" /\ syncAt' = Nil /\ syncTodo' = {} /\ syncSeen' = {}
    /\ snapshot' = NothingKnown
    /\ mainPc' = "boot" /\ attempt' = 1
    /\ cabs' = {} /\ chs' = {} /\ old' = {} /\ cur' = Nil
    /\ names' = {} /\ objs' = {} /\ new' = Nil
    /\ knownAtBoot' = {}
    /\ UNCHANGED <<hsm, sls, up>>

\* The process ends at an arbitrary moment: the pod is killed, or the Go
\* runtime stops the program on concurrent map access (see NoMapRace).
Crash == Happens("crash") /\ Restart

\* log.Fatal after the last attempt of the initial sync.
BootFatal ==
    /\ mainPc = "boot" /\ attempt = MaxAttempts
    /\ Happens("hsmFail")
    /\ Restart

(***************************************************************************)
(* The CA roll: setupRFHTTPStuff waits for the readers, then replaces the  *)
(* client in one go.                                                       *)
(***************************************************************************)
KeepProgram == UNCHANGED <<mapVars, pollVars, syncVars, mainVars>>

CARollBegins ==
    /\ ~caRoll
    /\ Happens("caRoll")
    /\ caRoll' = TRUE
    /\ UNCHANGED <<hsm, sls, up>> /\ KeepProgram

CARollEnds ==
    /\ caRoll /\ NoReaders
    /\ caRoll' = FALSE
    /\ UNCHANGED envVars /\ KeepProgram

(***************************************************************************)
(* The environment.                                                        *)
(***************************************************************************)
AdminSets(n, record) ==
    /\ hsm' = [hsm EXCEPT ![n] = record]
    /\ knownAtBoot' = knownAtBoot \ {n}
    /\ UNCHANGED <<sls, up, mapVars, caRoll, pollVars, syncVars,
                   mainPc, attempt, cabs, chs, old, cur, names, objs, new>>

AdminDisables(n) ==
    /\ Happens("disable")
    /\ hsm[n] = "enabled"
    /\ AdminSets(n, "disabled")

AdminDeletes(n) ==
    /\ Happens("delete")
    /\ hsm[n] # "absent"
    /\ AdminSets(n, "absent")

\* A chassis is added to SLS or taken out of it.
SlsEdit(c) ==
    /\ Happens("slsEdit")
    /\ sls' = IF c \in sls THEN sls \ {c} ELSE sls \cup {c}
    /\ UNCHANGED <<hsm, up, caRoll>> /\ KeepProgram

\* A BMC goes off the network or comes back.
Power(n) ==
    /\ Happens("power")
    /\ up' = IF n \in up THEN up \ {n} ELSE up \cup {n}
    /\ UNCHANGED <<hsm, sls, caRoll>> /\ KeepProgram

EnvNext ==
    \/ Crash \/ BootFatal
    \/ CARollBegins \/ CARollEnds
    \/ \E n \in Xname : AdminDisables(n) \/ AdminDeletes(n) \/ Power(n)
    \/ \E c \in Chassis : SlsEdit(c)

Next ==
    \/ MainNext
    \/ SyncNext
    \/ \E o \in Endpoint : WatchNext(o)
    \/ EnvNext

Spec == Init /\ [][Next]_vars

(***************************************************************************)
(* Fairness: goroutines are scheduled, timers fire and requests return or  *)
(* time out (weak fairness).  sync.Mutex hands over to a goroutine that    *)
(* has waited for a millisecond, so a lock that is free again and again is *)
(* obtained in the end (strong fairness).                                  *)
(***************************************************************************)
Fairness ==
    /\ WF_vars(MainNext)
    /\ WF_vars(SyncStep) /\ SF_vars(SyncLock)
    /\ WF_vars(CARollEnds)
    /\ \A o \in Endpoint :
          WF_vars(Tick(o)) /\ SF_vars(PollLock(o)) /\ WF_vars(PollStep(o))

FairSpec == Spec /\ Fairness

(***************************************************************************)
(* Safety.                                                                 *)
(***************************************************************************)
\* HSMPresLock: a poll at work holds the lock of its object, and whoever is
\* said to hold a lock is there to release it: no path out of queryHSMState,
\* of a poll or of a process leaves a lock behind.
LockDiscipline ==
    \A o \in Endpoint :
        /\ presLock[o] = "poll" <=> poll[o] # "idle"
        /\ presLock[o] = "sync" => syncPc \in {"lock", "get", "apply"}

\* The bookkeeping of init_chassis and deinit_chassis: a running watcher is
\* reachable through both maps (else nothing could ever stop it), and so no
\* two watchers run for one BMC.  Only the endpoint main is in the middle of
\* stopping is registered without a watcher.
RegistryOK ==
    /\ \A o \in Endpoint : watching[o] =>
           o \in Registered /\ o \in activeChassis[ChassisOf[XnameOf(o)]]
    /\ \A o \in Registered : watching[o] \/ (mainPc = "unlink" /\ new = o)

\* deinit_chassis sends on an unbuffered channel while main holds rfClientLock:
\* a watcher is always there to receive, also after several removals and
\* returns of the chassis, so main does not block there for ever.
QuitReceived == mainPc = "quit" => \A o \in objs : watching[o]

\* What queryHSMState stores in an endpoint it has locked stays there until
\* it returns: its caller can rely on the presence agreeing with HSM's answer.
SyncVerdictStands ==
    \A o \in Endpoint :
        syncPc = "apply" /\ o \in syncSeen /\ presLock[o] = "sync" =>
            presence[o] = StatusIn(snapshot[XnameOf(o)])

\* queryHSMState takes the locks of all endpoints and lets none go before it
\* returns: it never comes to wait for a lock that it holds itself, from this
\* call or an earlier one, also when main takes endpoints out of the map it
\* ranges over and puts others in.  Else it would hold all of them for ever.
SyncNeverWaitsForItself ==
    syncPc = "lock" /\ syncAt # Nil => presLock[syncAt] # "sync"

\* Nothing but HSM's own word makes an endpoint PRESENT: as long as nobody
\* deletes records, an endpoint MEDS counts as present has one.  (Else MEDS
\* would never announce the BMC.)
PresentMeansRecorded ==
    \A o \in Registered : presence[o] = "PRESENT" => hsm[XnameOf(o)] # "absent"

\* The initial sync protects HSM from a flood of discoveries when MEDS
\* starts: a BMC that was enabled in HSM when this process started, and whose
\* record nobody has disabled or deleted since, is never announced again.
BootKnownNeverNotified ==
    \A o \in Endpoint :
        poll[o] \in {"creds", "nwp", "post", "patch"} => XnameOf(o) \notin knownAtBoot

(***************************************************************************)
(* Liveness, once the hazards (a bounded number) are over.                 *)
(***************************************************************************)
\* A refresh of main ends, whatever the polls, the sync and the CA roll hold.
RefreshEnds == mainPc = "rlock" ~> mainPc \in {"sleep", "boot"}

\* queryHSMState ends, whatever it has to wait for.
SyncEnds == syncPc = "lock" ~> syncPc \in {"retry", "off"}

\* The chassis watched are in the end those SLS lists.
ChassisConverge ==
    <>[](\A c \in Chassis : activeChassis[c] # {} <=> c \in sls)

\* A BMC that answers and whose chassis is in SLS is in the end enabled in
\* HSM, and MEDS knows it.
Discovered ==
    <>[](\A n \in up : ChassisOf[n] \in sls =>
            /\ hsm[n] = "enabled"
            /\ \E o \in Registered : XnameOf(o) = n /\ presence[o] = "PRESENT")

(***************************************************************************)
(* What comments and documents of the repository say and the code does not *)
(* keep to.                                                                *)
(***************************************************************************)
\* "Anything left in oldChassisList disappeared." (meds.go:1334)
OnlyDisappearedRemoved == mainPc = "remove" => old \cap sls = {}

\* "Lock the presence field for all endpoints so other functions that might
\* modify this field won't." (meds.go:512): queryHSMState does not undo what a
\* poll found out after HSM answered.  An endpoint that HSM has enabled, and
\* that MEDS knows to be, is not taken for absent by a sync.
SyncUndoesNoPoll ==
    [][ \A o \in Registered :
          presence[o] = "PRESENT" /\ hsm[XnameOf(o)] = "enabled" =>
              presence'[o] = "PRESENT" \/ hazards' # hazards ]_vars

\* "Lock for modifying the above two structures" (meds.go:184): a write of
\* activeEndpoints does not meet an iteration over it.
NoMapRace ==
    ~ /\ mainPc \in {"publish", "unlink"}
      /\ \/ syncPc = "lock" /\ syncAt = Nil
         \/ syncPc = "apply"

\* "Sync up with HSM every 5 mins" (meds.go:725), "If we can't read from HSM try
\* again every 30 seconds" (meds.go:729): once a sync has read HSM, the watcher
\* is back to its five-minute timer.
SyncedMeansFiveMinutes ==
    [][ syncPc = "apply" /\ syncPc' # "apply" => syncPc' \in {"wait", "off"} ]_vars

\* "either "present" (set up in HSM and enabled) or "not present" (not set up
\* in HSM or disabbled in HSM)" (README.md:15): an endpoint that HSM has had
\* disabled all along is not PRESENT.
PresentMeansEnabled ==
    \A o \in Registered : presence[o] = "PRESENT" => hsm[XnameOf(o)] = "enabled"
=============================================================================
