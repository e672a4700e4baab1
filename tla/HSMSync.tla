------------------------------- MODULE HSMSync -------------------------------
(***************************************************************************)
(* watchForHSMChanges and the queryHSMState it calls.  queryHSMState ranges *)
(* twice over the live map activeEndpoints (endpoints is an alias of it,   *)
(* not a copy): once to take the HSMPresLock of what is there, once to     *)
(* store what HSM answered.  A Go map iteration visits every entry that    *)
(* stays in the map, and may or may not visit one inserted meanwhile.      *)
(***************************************************************************)
EXTENDS MedsState

SyncKeeps == <<sls, up, hsm, activeChassis, activeEndpoints, caRoll,
                watching, queued, poll, nstError, mainVars>>

\* The watcher waits for its five-minute tick once, in the outer loop, and for
\* a thirty-second tick ever after: the break that is to end the inner loop
\* when a sync succeeds ends its select only.
SyncStart ==
    /\ syncPc \in {"wait", "retry"}
    /\ syncPc' = "lock"
    /\ syncTodo' = Registered
    /\ syncSeen' = {}
    /\ UNCHANGED <<hazards, cache, presence, presLock, syncAt, snapshot, SyncKeeps>>

\* The next entry of an iteration over activeEndpoints.
Visit(o) ==
    /\ o \in Registered \ syncSeen
    /\ syncTodo' = syncTodo \ {o}
    /\ syncSeen' = syncSeen \cup {o}

SyncPick(o) ==
    /\ syncPc = "lock" /\ syncAt = Nil
    /\ Visit(o)
    /\ syncAt' = o
    /\ UNCHANGED <<hazards, cache, presence, presLock, syncPc, snapshot, SyncKeeps>>

SyncLock ==
    /\ syncPc = "lock" /\ syncAt # Nil
    /\ presLock[syncAt] = "free"
    /\ presLock' = [presLock EXCEPT ![syncAt] = "sync"]
    /\ syncAt' = Nil
    /\ UNCHANGED <<hazards, cache, presence, syncPc, syncTodo, syncSeen, snapshot, SyncKeeps>>

\* The end of the locking loop.
SyncLocked ==
    /\ syncPc = "lock" /\ syncAt = Nil /\ syncTodo = {}
    /\ syncPc' = "get"
    /\ syncSeen' = {}
    /\ UNCHANGED <<hazards, cache, presence, presLock, syncAt, syncTodo, snapshot, SyncKeeps>>

\* HSM answers; the second loop begins.
SyncGet ==
    /\ syncPc = "get"
    /\ snapshot' = hsm
    /\ syncTodo' = Registered
    /\ syncPc' = "apply"
    /\ UNCHANGED <<hazards, cache, presence, presLock, syncAt, syncSeen, SyncKeeps>>

\* The deferred calls release every lock taken.  A return ends the call.
SyncReturns ==
    /\ presLock' = [o \in Endpoint |-> IF presLock[o] = "sync" THEN "free" ELSE presLock[o]]
    /\ syncPc' = "retry"
    /\ syncSeen' = {}
    /\ snapshot' = NothingKnown
    /\ UNCHANGED <<presence, syncAt, SyncKeeps>>

\* Mutant: the early return leaves the locks taken.
SyncGetFailsLocked ==
    /\ syncPc = "get"
    /\ Happens("hsmFail")
    /\ syncPc' = "retry"
    /\ UNCHANGED <<cache, presence, presLock, syncAt, syncTodo, syncSeen, snapshot, SyncKeeps>>

SyncGetFails ==
    /\ syncPc = "get"
    /\ Happens("hsmFail")
    /\ SyncReturns
    /\ UNCHANGED <<cache, syncTodo>>

\* Mutant: the Enabled flag of the record is not looked at.
SyncApplyDisabledToo(o) ==
    /\ syncPc = "apply"
    /\ Visit(o)
    /\ presence' = [presence EXCEPT ![o] =
            IF snapshot[XnameOf(o)] # "absent" THEN "PRESENT" ELSE "NOT_PRESENT"]
    /\ UNCHANGED <<hazards, cache, presLock, syncPc, syncAt, snapshot, SyncKeeps>>

\* One turn of the second loop, which asks for no lock.
SyncApply(o) ==
    /\ syncPc = "apply"
    /\ Visit(o)
    /\ presence' = [presence EXCEPT ![o] = StatusIn(snapshot[XnameOf(o)])]
    /\ UNCHANGED <<hazards, cache, presLock, syncPc, syncAt, snapshot, SyncKeeps>>

\* The end of the second loop: replace the cache and return.
SyncFinish ==
    /\ syncPc = "apply" /\ syncTodo = {}
    /\ cache' = snapshot
    /\ SyncReturns
    /\ UNCHANGED <<hazards, syncTodo>>

SyncStep ==
    \/ SyncStart \/ SyncLocked \/ SyncGet \/ SyncGetFails \/ SyncFinish
    \/ \E o \in Endpoint : SyncPick(o) \/ SyncApply(o)

SyncNext == SyncStep \/ SyncLock
=============================================================================
