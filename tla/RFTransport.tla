----------------------------- MODULE RFTransport -----------------------------
(***************************************************************************)
(* The Redfish transport: the clients setupRFHTTPStuff creates, main's     *)
(* attempts to get them at startup, its fail-over to clients that ask for  *)
(* no CA bundle, and the callback that creates them anew when the bundle   *)
(* has changed.  rfClientLock is held for writing while they are replaced  *)
(* and for reading by every Redfish request of a poll.                     *)
(*                                                                         *)
(* A client is the version of the bundle it was made with, Plain (made     *)
(* without one) or Nil (the last attempt failed).  Of rfNWPStatic only the *)
(* NTP servers can differ from one InitInstance to the next (a name that   *)
(* could not be looked up is left out), so it is "full" or "partial".      *)
(*                                                                         *)
(* A CA URI is configured; without one MEDS is from the start where the    *)
(* fail-over leads.  main's own use of the lock is in Meds.                *)
(***************************************************************************)
EXTENDS Naturals

CONSTANTS
    Poll,        \* the NetEndpoint objects being polled
    Nil, Plain,
    MaxTries,    \* how often main tries to set up the transport
    MaxRolls,    \* bound: how often the CA bundle changes
    Hazards,     \* the kinds of environment event that may happen ...
    MaxHazards   \* ... and, as a bound, how many of them

HazardKind == {"fetchFail", "lookupFail", "probeFail", "vaultFail", "refused",
               "storeFail", "nwpFail", "hsmFail", "admin", "key", "reload", "crash"}

ASSUME TransportAssumption ==
    /\ Nil \notin Nat /\ Plain \notin Nat /\ Nil # Plain
    /\ MaxTries \in Nat \ {0}
    /\ MaxRolls \in Nat
    /\ Hazards \subseteq HazardKind
    /\ MaxHazards \in Nat

VARIABLES
    chain,        \* the version of the CA bundle that is published
    hazards,      \* how many hazards have happened
    hms_ca_uri,   \* TRUE: the URI of the bundle, FALSE: "" after the fail-over
    mainPc,
    ix,           \* main's attempt to set up the transport
    setupPc,      \* where the call of setupRFHTTPStuff is, main's or the callback's
    rfClientLock, \* for the writer: "free", "pending" or "held"
    rfClient,
    rfNWPStatic,
    baseChain,    \* the version the CA watcher knows (Nil: no watcher)
    poll          \* where the poll of each object is

setupVars == <<setupPc, rfClientLock, rfClient, rfNWPStatic>>
startVars == <<hms_ca_uri, mainPc, ix, baseChain>>
transportVars == <<chain, hazards, setupVars, startVars, poll>>

Bundle == 0..MaxRolls
MainPc == {"setup", "failover", "register", "sync", "run"}
SetupPc == {"out", "lock", "client", "nwp", "ok", "failed"}
PollPc == {"idle", "rlock", "get", "cred", "global", "store", "ssh", "rlock2", "nwp", "post"}

TransportTypeOK ==
    /\ chain \in Bundle
    /\ hazards \in 0..MaxHazards
    /\ hms_ca_uri \in BOOLEAN
    /\ mainPc \in MainPc
    /\ ix \in 1..MaxTries
    /\ setupPc \in SetupPc
    /\ rfClientLock \in {"free", "pending", "held"}
    /\ rfClient \in Bundle \cup {Nil, Plain}
    /\ rfNWPStatic \in {"full", "partial"}
    /\ baseChain \in Bundle \cup {Nil}
    /\ poll \in [Poll -> PollPc]

\* One of the bounded number of events the environment may cause.
Happens(kind) ==
    /\ kind \in Hazards
    /\ hazards < MaxHazards
    /\ hazards' = hazards + 1

\* A poll holds rfClientLock for reading during each of its Redfish requests.
Reading(p) == poll[p] \in {"get", "nwp"}
\* A writer that holds the lock, or waits for it, keeps new readers out.
MayRLock == rfClientLock = "free"

\* A process starts: main has called InitInstance once and ignored its error.
TransportStarts ==
    /\ hms_ca_uri = TRUE /\ mainPc = "setup" /\ ix = 1 /\ baseChain = Nil
    /\ setupPc = "lock" /\ rfClientLock = "pending"
    /\ rfClient = Nil /\ rfNWPStatic \in {"full", "partial"}
    /\ poll = [p \in Poll |-> "idle"]

TransportRestarts ==
    /\ hms_ca_uri' = TRUE /\ mainPc' = "setup" /\ ix' = 1 /\ baseChain' = Nil
    /\ setupPc' = "lock" /\ rfClientLock' = "pending"
    /\ rfClient' = Nil /\ rfNWPStatic' \in {"full", "partial"}
    /\ poll' = [p \in Poll |-> "idle"]

(***************************************************************************)
(* setupRFHTTPStuff.                                                       *)
(***************************************************************************)
SetupKeeps == UNCHANGED <<chain, startVars, poll>>

\* Mutant: the lock is not asked for.
SetupLocksAtOnce ==
    /\ setupPc = "lock"
    /\ setupPc' = "client" /\ rfClientLock' = "held"
    /\ UNCHANGED <<hazards, rfClient, rfNWPStatic>> /\ SetupKeeps

\* Every reader has released the lock.
SetupLocks ==
    /\ setupPc = "lock"
    /\ \A p \in Poll : ~Reading(p)
    /\ setupPc' = "client" /\ rfClientLock' = "held"
    /\ UNCHANGED <<hazards, rfClient, rfNWPStatic>> /\ SetupKeeps

\* Mutant: the lock is not released.
SetupReturnsLocked(result) ==
    /\ setupPc' = result /\ UNCHANGED rfClientLock

\* A return; the deferred call releases the lock.
SetupReturns(result) ==
    /\ setupPc' = result /\ rfClientLock' = "free"

\* CreateHTTPClientPair fetches the bundle, if there is one to fetch.
SetupClient ==
    /\ setupPc = "client"
    /\ rfClient' = IF hms_ca_uri THEN chain ELSE Plain
    /\ setupPc' = "nwp"
    /\ UNCHANGED <<hazards, rfClientLock, rfNWPStatic>> /\ SetupKeeps

\* The startup's failures are bounded by its attempts.
SetupHazard(kind) ==
    IF mainPc = "setup" THEN kind \in Hazards /\ UNCHANGED hazards ELSE Happens(kind)

SetupClientFails ==
    /\ setupPc = "client" /\ hms_ca_uri
    /\ SetupHazard("fetchFail")
    /\ rfClient' = Nil
    /\ SetupReturns("failed")
    /\ UNCHANGED rfNWPStatic /\ SetupKeeps

\* InitInstance looks up the names of the syslog and NTP servers.
SetupNWP ==
    /\ setupPc = "nwp"
    /\ rfNWPStatic' = "full"
    /\ SetupReturns("ok")
    /\ UNCHANGED <<hazards, rfClient>> /\ SetupKeeps

\* A lookup fails.  What InitInstance returns is assigned all the same.
SetupNWPFails ==
    /\ setupPc = "nwp"
    /\ SetupHazard("lookupFail")
    /\ rfNWPStatic' \in {"full", "partial"}
    /\ SetupReturns("failed")
    /\ UNCHANGED rfClient /\ SetupKeeps

SetupNext ==
    SetupLocks \/ SetupClient \/ SetupClientFails \/ SetupNWP \/ SetupNWPFails

(***************************************************************************)
(* main.                                                                   *)
(***************************************************************************)
CallSetup == setupPc' = "lock" /\ rfClientLock' = "pending"
MainKeeps == UNCHANGED <<chain, hazards, rfClient, rfNWPStatic, poll>>

\* The transport is there: go on to register for changes of the bundle.
TransportReady ==
    /\ mainPc \in {"setup", "failover"} /\ setupPc = "ok"
    /\ mainPc' = "register" /\ setupPc' = "out"
    /\ UNCHANGED <<hms_ca_uri, ix, baseChain, rfClientLock>> /\ MainKeeps

\* Mutant: one attempt too many.
RetryOnceMore ==
    /\ mainPc = "setup" /\ setupPc = "failed" /\ ix <= MaxTries
    /\ ix' = ix + 1
    /\ CallSetup
    /\ UNCHANGED <<hms_ca_uri, mainPc, baseChain>> /\ MainKeeps

Retry ==
    /\ mainPc = "setup" /\ setupPc = "failed" /\ ix < MaxTries
    /\ ix' = ix + 1
    /\ CallSetup
    /\ UNCHANGED <<hms_ca_uri, mainPc, baseChain>> /\ MainKeeps

\* Mutant: the fail-over forgets to set up the transport.
FailOverOnly ==
    /\ mainPc = "setup" /\ setupPc = "failed" /\ ix = MaxTries
    /\ hms_ca_uri' = FALSE
    /\ mainPc' = "register" /\ setupPc' = "out"
    /\ UNCHANGED <<ix, baseChain, rfClientLock>> /\ MainKeeps

\* All attempts failed: do without the bundle.
FailOver ==
    /\ mainPc = "setup" /\ setupPc = "failed" /\ ix = MaxTries
    /\ hms_ca_uri' = FALSE
    /\ mainPc' = "failover"
    /\ CallSetup
    /\ UNCHANGED <<ix, baseChain>> /\ MainKeeps

\* CAUpdateRegister notes the version it finds now and starts the watcher.
Register ==
    /\ mainPc = "register"
    /\ mainPc' = "sync"
    /\ \/ hms_ca_uri /\ baseChain' = chain /\ UNCHANGED hazards
       \/ hms_ca_uri /\ Happens("fetchFail") /\ UNCHANGED baseChain
       \/ ~hms_ca_uri /\ UNCHANGED <<baseChain, hazards>>
    /\ UNCHANGED <<hms_ca_uri, ix, setupVars, chain, poll>>

(***************************************************************************)
(* The CA watcher of hms_certs, and caChangeCB.                            *)
(***************************************************************************)
\* Mutant: the callback does nothing.
RollIgnored ==
    /\ mainPc \in {"sync", "run"} /\ setupPc = "out"
    /\ baseChain # Nil /\ baseChain # chain
    /\ baseChain' = chain
    /\ UNCHANGED <<hms_ca_uri, mainPc, ix, setupPc, rfClientLock>> /\ MainKeeps

\* The published bundle differs from the one known: call caChangeCB.
RollNoticed ==
    /\ mainPc \in {"sync", "run"} /\ setupPc = "out"
    /\ baseChain # Nil /\ baseChain # chain
    /\ baseChain' = chain
    /\ CallSetup
    /\ UNCHANGED <<hms_ca_uri, mainPc, ix>> /\ MainKeeps

\* caChangeCB returns, whatever setupRFHTTPStuff returned.
RollReturns ==
    /\ mainPc \in {"sync", "run"} /\ setupPc \in {"ok", "failed"}
    /\ setupPc' = "out"
    /\ UNCHANGED <<startVars, rfClientLock>> /\ MainKeeps

\* The bundle changes.
ChainRolls ==
    /\ chain < MaxRolls
    /\ chain' = chain + 1
    /\ UNCHANGED <<hazards, setupVars, startVars, poll>>

TransportNext ==
    \/ SetupNext
    \/ TransportReady \/ Retry \/ FailOver \/ Register
    \/ RollNoticed \/ RollReturns
=============================================================================
