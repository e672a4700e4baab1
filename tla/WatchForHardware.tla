-------------------------- MODULE WatchForHardware --------------------------
(***************************************************************************)
(* watchForHardware and the polls it spawns: every tick starts a goroutine *)
(* that takes the object's HSMPresLock, probes the BMC and, when the BMC   *)
(* answers and HSM is not known to have it, notifies HSM.                  *)
(*                                                                         *)
(* prevErr, the memory of the last probe's failure, is left out: it only   *)
(* decides whether notifyHSMXnameNotPresent is called, which logs a line   *)
(* and changes nothing.  A poll holds the lock from its first step to its  *)
(* last, so a poll that waits is a count and a poll that runs a pc.        *)
(***************************************************************************)
EXTENDS MedsState

WatchKeeps == <<sls, up, mapVars, caRoll, syncVars, mainVars>>

\* A tick of the watcher: spawn a poll.
Tick(o) ==
    /\ watching[o]
    /\ queued[o] < MaxQueued
    /\ queued' = [queued EXCEPT ![o] = @ + 1]
    /\ UNCHANGED <<hsm, hazards, presence, presLock, watching, poll, nstError, WatchKeeps>>

PollLock(o) ==
    /\ queued[o] > 0
    /\ presLock[o] = "free"
    /\ queued' = [queued EXCEPT ![o] = @ - 1]
    /\ presLock' = [presLock EXCEPT ![o] = "poll"]
    /\ poll' = [poll EXCEPT ![o] = "rlock"]
    /\ UNCHANGED <<hsm, hazards, presence, watching, nstError, WatchKeeps>>

\* The poll moves on without giving up its lock.
PollAt(o, from, to) ==
    /\ poll[o] = from
    /\ poll' = [poll EXCEPT ![o] = to]
    /\ UNCHANGED <<presence, presLock, watching, queued, WatchKeeps>>

\* Mutant: a poll that returns without releasing HSMPresLock.
PollReturnsLocked(o, from) ==
    /\ poll[o] = from
    /\ poll' = [poll EXCEPT ![o] = "idle"]
    /\ nstError' = [nstError EXCEPT ![o] = FALSE]
    /\ UNCHANGED <<presLock, watching, queued, WatchKeeps>>

\* The poll returns; its deferred call releases the lock.
PollReturns(o, from) ==
    /\ poll[o] = from
    /\ poll' = [poll EXCEPT ![o] = "idle"]
    /\ presLock' = [presLock EXCEPT ![o] = "free"]
    /\ nstError' = [nstError EXCEPT ![o] = FALSE]
    /\ UNCHANGED <<watching, queued, WatchKeeps>>

\* onPresent succeeded as far as HSM goes: a failure to set the network
\* protocols fails it all the same.
PollSucceeds(o, from) ==
    /\ PollReturns(o, from)
    /\ presence' = IF nstError[o] THEN presence
                   ELSE [presence EXCEPT ![o] = "PRESENT"]

PollFails(o, from) ==
    /\ PollReturns(o, from)
    /\ UNCHANGED presence

PollRLock(o) ==
    /\ MayRLock
    /\ PollAt(o, "rlock", "get")
    /\ UNCHANGED <<hsm, hazards, nstError>>

\* The BMC answers 200: notify HSM unless HSM is known to have it.
ProbeAnswered(o) ==
    /\ XnameOf(o) \in up
    /\ \/ /\ presence[o] = "NOT_PRESENT"
          /\ PollAt(o, "get", "creds")
          /\ UNCHANGED nstError
       \/ /\ presence[o] = "PRESENT"
          /\ PollFails(o, "get")
    /\ UNCHANGED <<hsm, hazards>>

\* The probe fails: the record of the endpoint is never made NOT_PRESENT here.
ProbeUnanswered(o) ==
    /\ IF XnameOf(o) \in up THEN Happens("probeFail") ELSE UNCHANGED hazards
    /\ PollFails(o, "get")
    /\ UNCHANGED hsm

\* notifyXnamePresent has credentials, and takes rfClientLock to read.
CredsFound(o) ==
    /\ MayRLock
    /\ PollAt(o, "creds", "nwp")
    /\ UNCHANGED <<hsm, hazards, nstError>>

CredsMissing(o) ==
    /\ Happens("credsFail")
    /\ PollFails(o, "creds")
    /\ UNCHANGED hsm

\* SetXNameNWPInfo: whatever comes of it, HSM is notified next.
SetNWP(o) ==
    /\ PollAt(o, "nwp", "post")
    /\ \/ /\ XnameOf(o) \in up
          /\ UNCHANGED <<hazards, nstError>>
       \/ /\ IF XnameOf(o) \in up THEN Happens("nwpFail") ELSE UNCHANGED hazards
          /\ nstError' = [nstError EXCEPT ![o] = TRUE]
    /\ UNCHANGED hsm

Enable(o) == hsm' = [hsm EXCEPT ![XnameOf(o)] = "enabled"]

PostCreated(o) ==
    /\ hsm[XnameOf(o)] = "absent"
    /\ PollSucceeds(o, "post")
    /\ Enable(o)
    /\ UNCHANGED hazards

PostConflict(o) ==
    /\ hsm[XnameOf(o)] # "absent"
    /\ PollAt(o, "post", "patch")
    /\ UNCHANGED <<hsm, hazards, nstError>>

\* Mutant: the error of the POST is ignored.
PostRefusedIgnored(o) ==
    /\ Happens("hsmFail")
    /\ PollSucceeds(o, "post")
    /\ UNCHANGED hsm

PostRefused(o) ==
    /\ Happens("hsmFail")
    /\ PollFails(o, "post")
    /\ UNCHANGED hsm

\* HSM creates the record but the answer is lost: the HTTP client sends the
\* request again or gives up.
PostReplyLost(o) ==
    /\ Happens("lostReply")
    /\ hsm[XnameOf(o)] = "absent"
    /\ Enable(o)
    /\ \/ PollAt(o, "post", "post") /\ UNCHANGED nstError
       \/ PollFails(o, "post")

PatchDone(o) ==
    /\ hsm[XnameOf(o)] # "absent"
    /\ PollSucceeds(o, "patch")
    /\ Enable(o)
    /\ UNCHANGED hazards

\* The record was deleted since the POST.
PatchNotFound(o) ==
    /\ hsm[XnameOf(o)] = "absent"
    /\ PollFails(o, "patch")
    /\ UNCHANGED <<hsm, hazards>>

PatchRefused(o) ==
    /\ Happens("hsmFail")
    /\ PollFails(o, "patch")
    /\ UNCHANGED hsm

PollStep(o) ==
    \/ PollRLock(o)
    \/ ProbeAnswered(o) \/ ProbeUnanswered(o)
    \/ CredsFound(o) \/ CredsMissing(o)
    \/ SetNWP(o)
    \/ PostCreated(o) \/ PostConflict(o) \/ PostRefused(o) \/ PostReplyLost(o)
    \/ PatchDone(o) \/ PatchNotFound(o) \/ PatchRefused(o)

WatchNext(o) == Tick(o) \/ PollLock(o) \/ PollStep(o)
=============================================================================
