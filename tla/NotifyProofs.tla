---------------------------- MODULE NotifyProofs ----------------------------
(***************************************************************************)
(* Proofs about NotifyPresent and the RFTransport it rests on, for every   *)
(* number of polls and BMCs, every bound and every kind of hazard.         *)
(***************************************************************************)
EXTENDS NotifyPresent, TLAPS

(***************************************************************************)
(* Type correctness, in three parts: the transport, what is outside the    *)
(* polls, and the polls.                                                   *)
(***************************************************************************)
OutsideTypeOK ==
    /\ name \in [Poll -> Xname] /\ defaults \in BOOLEAN
    /\ login \in [Xname -> Login] /\ globals \in BOOLEAN
    /\ ssh \in SUBSET Xname /\ loader \in LoaderPc
    /\ bmc \in [Xname -> Key \cup {Nil}]
    /\ hsm \in [Xname -> Login \cup {"untold"}]
    /\ lost \in SUBSET Xname

PollTypeOK ==
    /\ presence \in [Poll -> {"PRESENT", "NOT_PRESENT"}]
    /\ cred \in [Poll -> Login]
    /\ key \in [Poll -> Key]
    /\ nstError \in [Poll -> BOOLEAN]
    /\ had \in [Poll -> BOOLEAN]

LocalsFresh ==
    /\ cred = [p \in Poll |-> "none"] /\ key = [p \in Poll |-> DefaultKey]
    /\ nstError = [p \in Poll |-> FALSE] /\ had = [p \in Poll |-> FALSE]
    /\ presence = [p \in Poll |-> "NOT_PRESENT"]

\* The parts are the whole.
LEMMA TypeParts == TypeOK <=> TransportTypeOK /\ OutsideTypeOK /\ PollTypeOK
BY DEF TypeOK, OutsideTypeOK, PollTypeOK

\* A hazard stays within the bound on hazards.
LEMMA HappensType ==
    ASSUME NEW kind, hazards \in 0..MaxHazards, Happens(kind) PROVE hazards' \in 0..MaxHazards
BY TransportAssumption DEF Happens

\* The locals of a poll that has not begun have their types.
LEMMA FreshType == LocalsFresh => PollTypeOK
BY DEF LocalsFresh, PollTypeOK, Login, Key

\* A process starts with the right types ...
LEMMA StartType ==
    TransportStarts /\ chain \in Bundle /\ hazards \in 0..MaxHazards => TransportTypeOK
BY TransportAssumption DEF TransportStarts, TransportTypeOK, MainPc, SetupPc, PollPc

\* ... the system does ...
LEMMA InitType == Init => TypeOK
<1> SUFFICES ASSUME Init PROVE TypeOK
  OBVIOUS
<1>1. TransportTypeOK
  BY StartType, TransportAssumption DEF Init, Bundle
<1>2. OutsideTypeOK
  BY NotifyAssumption DEF Init, OutsideTypeOK, LoaderPc
<1>3. PollTypeOK
  BY FreshType DEF Init, LocalsFresh
<1> QED
  BY <1>1, <1>2, <1>3, TypeParts

\* ... and a new process does.
LEMMA RestartType ==
    ASSUME TypeOK, Restart, hazards' \in 0..MaxHazards PROVE TypeOK'
<1>1. TransportTypeOK'
  BY TransportAssumption DEF TypeOK, Restart, TransportRestarts, TransportTypeOK, MainPc, SetupPc, PollPc
<1>2. OutsideTypeOK'
  BY TypeParts DEF Restart, ProcessKeeps, vaultVars, toldVars, OutsideTypeOK
<1>3. PollTypeOK'
  BY DEF Restart, PollTypeOK, Login, Key
<1> QED
  BY <1>1, <1>2, <1>3 DEF TypeOK, OutsideTypeOK, PollTypeOK

\* The steps of setupRFHTTPStuff, of main and of the CA watcher.
LEMMA TransportType ==
    ASSUME TransportTypeOK, TransportNext PROVE TransportTypeOK'
<1> USE DEF TransportTypeOK, SetupPc, MainPc
<1>1. ASSUME NEW kind, SetupHazard(kind) PROVE hazards' \in 0..MaxHazards
  BY <1>1, HappensType DEF SetupHazard
<1>2. CASE SetupLocks
  BY <1>2 DEF SetupLocks, SetupKeeps, startVars
<1>3. CASE SetupClient
  BY <1>3 DEF SetupClient, SetupKeeps, startVars
<1>4. CASE SetupClientFails
  BY <1>1, <1>4 DEF SetupClientFails, SetupReturns, SetupKeeps, startVars
<1>5. CASE SetupNWP
  BY <1>5 DEF SetupNWP, SetupReturns, SetupKeeps, startVars
<1>6. CASE SetupNWPFails
  BY <1>1, <1>6 DEF SetupNWPFails, SetupReturns, SetupKeeps, startVars
<1>7. CASE TransportReady
  BY <1>7 DEF TransportReady, MainKeeps
<1>8. CASE Retry
  BY <1>8, TransportAssumption DEF Retry, CallSetup, MainKeeps
<1>9. CASE FailOver
  BY <1>9 DEF FailOver, CallSetup, MainKeeps
<1>10. CASE Register
  BY <1>10, HappensType DEF Register, setupVars
<1>11. CASE RollNoticed
  BY <1>11 DEF RollNoticed, CallSetup, MainKeeps
<1>12. CASE RollReturns
  BY <1>12 DEF RollReturns, MainKeeps, startVars
<1> QED
  BY <1>2, <1>3, <1>4, <1>5, <1>6, <1>7, <1>8, <1>9, <1>10, <1>11, <1>12 DEF TransportNext, SetupNext

(***************************************************************************)
(* What every step of a poll leaves alone, and that it moves on.           *)
(***************************************************************************)
LEMMA PollStepShape ==
    ASSUME NEW p \in Poll, PollBegins(p) \/ PollStep(p)
    PROVE  /\ PollKeeps
           /\ \E from, to \in PollPc : poll[p] = from /\ poll' = [poll EXCEPT ![p] = to]
           /\ hazards' = hazards \/ \E kind \in HazardKind : Happens(kind)
<1> USE DEF PollAt, PollReturns, PollPc, HazardKind
<1>1. CASE PollBegins(p)
  BY <1>1 DEF PollBegins
<1>2. CASE RLock(p, "rlock", "get") \/ RLock(p, "rlock2", "nwp")
  BY <1>2 DEF RLock
<1>3. CASE ProbeFinds(p) \/ ProbeEnds(p)
  BY <1>3 DEF ProbeFinds, ProbeEnds
<1>4. CASE GetCompCred(p)
  BY <1>4 DEF GetCompCred, GetCred
<1>5. CASE PollGivesUp(p)
  BY <1>5 DEF PollGivesUp
<1>6. CASE FindGlobals(p)
  BY <1>6 DEF FindGlobals
<1>7. CASE StoreCompCred(p) \/ StoreIsLost(p)
  BY <1>7 DEF StoreCompCred, StoreIsLost
<1>8. CASE FindSSH(p)
  BY <1>8 DEF FindSSH
<1>9. CASE SetNWP(p)
  BY <1>9 DEF SetNWP
<1>10. CASE Post(p) \/ PostFails(p)
  BY <1>10 DEF Post, PostFails
<1> QED
  BY <1>1, <1>2, <1>3, <1>4, <1>5, <1>6, <1>7, <1>8, <1>9, <1>10 DEF PollStep

\* The steps of a poll preserve the types.
LEMMA PollType ==
    ASSUME TypeOK, NEW p \in Poll, PollBegins(p) \/ PollStep(p) PROVE TypeOK'
<1>1. TransportTypeOK'
  <2>1. PollKeeps /\ \E to \in PollPc : poll' = [poll EXCEPT ![p] = to]
    BY PollStepShape
  <2>2. hazards' \in 0..MaxHazards
    BY PollStepShape, HappensType DEF TypeOK, TransportTypeOK
  <2> QED
    BY <2>1, <2>2 DEF TypeOK, TransportTypeOK, PollKeeps, setupVars, startVars
<1>2. UNCHANGED <<name, defaults, globals, ssh, loader>>
  BY PollStepShape DEF PollKeeps
<1>3. OutsideTypeOK' /\ PollTypeOK'
  <2> DEFINE OK == OutsideTypeOK /\ PollTypeOK
  <2>0. OutsideTypeOK /\ PollTypeOK /\ name[p] \in Xname
    BY TypeParts DEF OutsideTypeOK
  <2> USE <1>2, <2>0 DEF OutsideTypeOK, PollTypeOK, PollAt, PollReturns, toldVars, localVars, Login, Key
  <2>1. CASE PollBegins(p)
    BY <2>1 DEF PollBegins, Complete
  <2>2. CASE RLock(p, "rlock", "get") \/ RLock(p, "rlock2", "nwp")
    BY <2>2 DEF RLock
  <2>3. CASE ProbeFinds(p) \/ ProbeEnds(p)
    BY <2>3 DEF ProbeFinds, ProbeEnds
  <2>4. CASE GetCompCred(p)
    <3>1. PICK answer \in Login : GetCred(p, answer)
      BY <2>4 DEF GetCompCred
    <3>2. had' \in [Poll -> BOOLEAN]
      BY <2>4 DEF GetCompCred
    <3> QED
      BY <3>1, <3>2 DEF GetCred
  <2>5. CASE PollGivesUp(p)
    BY <2>5 DEF PollGivesUp
  <2>6. CASE FindGlobals(p)
    BY <2>6 DEF FindGlobals
  <2>7. CASE StoreCompCred(p) \/ StoreIsLost(p)
    BY <2>7 DEF StoreCompCred, StoreIsLost
  <2>8. CASE FindSSH(p)
    BY <2>8 DEF FindSSH
  <2>9. CASE SetNWP(p)
    BY <2>9 DEF SetNWP
  <2>10. CASE Post(p)
    <3>1. hsm' \in [Xname -> Login \cup {"untold"}]
      BY <2>10 DEF Post
    <3>2. presence' \in [Poll -> {"PRESENT", "NOT_PRESENT"}]
      BY <2>10 DEF Post
    <3> QED
      BY <2>10, <3>1, <3>2 DEF Post
  <2>11. CASE PostFails(p)
    BY <2>11 DEF PostFails
  <2> QED
    BY <2>1, <2>2, <2>3, <2>4, <2>5, <2>6, <2>7, <2>8, <2>9, <2>10, <2>11 DEF PollStep
<1> QED
  BY <1>1, <1>3 DEF TypeOK, OutsideTypeOK, PollTypeOK

\* Every step preserves the types.
LEMMA NextType == ASSUME TypeOK, [Next]_vars PROVE TypeOK'
<1>1. CASE Transport
  <2>1. TransportTypeOK'
    BY <1>1, TransportType DEF Transport, TypeOK
  <2> QED
    BY <1>1, <2>1 DEF Transport, ProcessKeeps, localVars, vaultVars, toldVars, TypeOK
<1>2. CASE BootSync
  BY <1>2 DEF BootSync, ProcessKeeps, setupVars, localVars, vaultVars, toldVars, TypeOK, TransportTypeOK, MainPc
<1>3. CASE Panic \/ Crash
  <2>1. hazards' \in 0..MaxHazards
    BY <1>3, HappensType DEF Panic, Crash, TypeOK, TransportTypeOK
  <2> QED
    BY <1>3, <2>1, RestartType DEF Panic, Crash
<1>4. ASSUME NEW p \in Poll, PollBegins(p) \/ PollStep(p) PROVE TypeOK'
  BY <1>4, PollType
<1>5. CASE LoaderNext
  <2>1. hazards' \in 0..MaxHazards
    BY <1>5, HappensType DEF LoaderNext, LoaderStores, LoaderStoreFails, TypeOK, TransportTypeOK
  <2> QED
    BY <1>5, <2>1 DEF LoaderNext, LoaderStores, LoaderStoreFails, StoreGlobalCredentials, OutsideKeeps,
       setupVars, startVars, localVars, toldVars, TypeOK, TransportTypeOK, LoaderPc
<1>6. CASE BundleRolls
  <2>1. chain' \in Bundle
    BY <1>6, TransportAssumption DEF BundleRolls, ChainRolls, TypeOK, TransportTypeOK, Bundle
  <2> QED
    BY <1>6, <2>1 DEF BundleRolls, ChainRolls, ProcessKeeps, setupVars, startVars, localVars, vaultVars, toldVars,
       TypeOK, TransportTypeOK
<1>7. ASSUME NEW x \in Xname, AdminSetsLogin(x) \/ AdminSetsKey(x) PROVE TypeOK'
  <2>1. hazards' \in 0..MaxHazards
    BY <1>7, HappensType DEF AdminSetsLogin, AdminSetsKey, TypeOK, TransportTypeOK
  <2> QED
    BY <1>7, <2>1 DEF AdminSetsLogin, AdminSetsKey, OutsideKeeps, setupVars, startVars, localVars, toldVars,
       TypeOK, TransportTypeOK, Login
<1>8. CASE UNCHANGED vars
  BY <1>8 DEF vars, transportVars, setupVars, startVars, vaultVars, localVars, toldVars, TypeOK, TransportTypeOK
<1> QED
  BY <1>1, <1>2, <1>3, <1>4, <1>5, <1>6, <1>7, <1>8 DEF Next, EnvNext

\* Every variable keeps its type: in particular what HSM was told of a BMC is
\* something Vault may hold, and main makes no more than its attempts.
THEOREM NotifyTypes == Spec => []TypeOK
<1>1. Init => TypeOK
  BY InitType
<1>2. TypeOK /\ [Next]_vars => TypeOK'
  BY NextType
<1> QED
  BY <1>1, <1>2, PTL DEF Spec

(***************************************************************************)
(* rfClientLock and the client it protects.  Inductively: the lock says    *)
(* where the call of setupRFHTTPStuff is, and no request is under way      *)
(* while the call holds it.                                                *)
(***************************************************************************)
ClientLock ==
    /\ setupPc = "lock" <=> rfClientLock = "pending"
    /\ setupPc \in {"client", "nwp"} <=> rfClientLock = "held"
    /\ rfClientLock = "held" => \A p \in Poll : ~Reading(p)

(***************************************************************************)
(* The startup.  Inductively: whichever attempt of whichever of the two    *)
(* ways gets past the client leaves one, and main goes on only with the    *)
(* result of an attempt that got to its end; without a CA watcher nothing  *)
(* replaces that.                                                          *)
(***************************************************************************)
WholeTransport == rfClient # Nil /\ rfNWPStatic = "full"

Startup ==
    /\ mainPc \in {"setup", "failover"} =>
          /\ setupPc = "nwp" => rfClient # Nil
          /\ setupPc = "ok" => WholeTransport
    /\ mainPc = "register" => setupPc = "out" /\ WholeTransport
    /\ mainPc \in {"sync", "run"} /\ baseChain = Nil => setupPc = "out" /\ WholeTransport

TransportInv == ClientLock /\ Startup

\* A poll begins a request only when the lock is free.
LEMMA PollReads ==
    ASSUME TypeOK, NEW p \in Poll, PollBegins(p) \/ PollStep(p)
    PROVE  \A q \in Poll : Reading(q)' => Reading(q) \/ rfClientLock = "free"
<1> USE DEF TypeOK, TransportTypeOK, Reading, PollAt, PollReturns
<1>1. CASE PollBegins(p)
  BY <1>1 DEF PollBegins
<1>2. CASE RLock(p, "rlock", "get") \/ RLock(p, "rlock2", "nwp")
  BY <1>2 DEF RLock, MayRLock
<1>3. CASE ProbeFinds(p) \/ ProbeEnds(p)
  BY <1>3 DEF ProbeFinds, ProbeEnds
<1>4. CASE GetCompCred(p)
  BY <1>4 DEF GetCompCred, GetCred
<1>5. CASE PollGivesUp(p)
  BY <1>5 DEF PollGivesUp
<1>6. CASE FindGlobals(p) \/ StoreCompCred(p) \/ StoreIsLost(p)
  BY <1>6 DEF FindGlobals, StoreCompCred, StoreIsLost
<1>7. CASE FindSSH(p) \/ SetNWP(p)
  BY <1>7 DEF FindSSH, SetNWP
<1>8. CASE Post(p) \/ PostFails(p)
  BY <1>8 DEF Post, PostFails
<1> QED
  BY <1>1, <1>2, <1>3, <1>4, <1>5, <1>6, <1>7, <1>8 DEF PollStep

\* A call of setupRFHTTPStuff, of main's or of the callback's making.
LEMMA SetupKeepsInv ==
    ASSUME TypeOK, TransportInv, TransportNext PROVE TransportInv'
<1>0. chain # Nil /\ Plain # Nil
  BY TransportAssumption DEF TypeOK, TransportTypeOK, Bundle
<1> USE <1>0 DEF TransportInv, ClientLock, Startup, WholeTransport, Reading, TypeOK, TransportTypeOK,
        SetupKeeps, SetupReturns, CallSetup, MainKeeps, setupVars, startVars
<1>1. CASE SetupLocks
  BY <1>1 DEF SetupLocks
<1>2. CASE SetupClient
  BY <1>2 DEF SetupClient
<1>3. CASE SetupClientFails
  BY <1>3 DEF SetupClientFails
<1>4. CASE SetupNWP
  BY <1>4 DEF SetupNWP
<1>5. CASE SetupNWPFails
  BY <1>5 DEF SetupNWPFails
<1>6. CASE TransportReady
  BY <1>6 DEF TransportReady
<1>7. CASE Retry \/ FailOver
  BY <1>7 DEF Retry, FailOver
<1>8. CASE Register
  BY <1>8 DEF Register
<1>9. CASE RollNoticed
  BY <1>9 DEF RollNoticed
<1>10. CASE RollReturns
  BY <1>10 DEF RollReturns
<1> QED
  BY <1>1, <1>2, <1>3, <1>4, <1>5, <1>6, <1>7, <1>8, <1>9, <1>10 DEF TransportNext, SetupNext

\* Every step preserves the invariant of the transport.
LEMMA TransportInvNext == ASSUME TypeOK, TransportInv, [Next]_vars PROVE TransportInv'
<1> USE DEF TransportInv, ClientLock, Startup, WholeTransport, Reading
<1>1. CASE Transport
  BY <1>1, SetupKeepsInv DEF Transport
<1>2. ASSUME NEW p \in Poll, PollBegins(p) \/ PollStep(p) PROVE TransportInv'
  BY <1>2, PollStepShape, PollReads DEF PollKeeps, setupVars, startVars
<1>3. CASE Panic \/ Crash
  BY <1>3 DEF Panic, Crash, Restart, TransportRestarts
<1>4. CASE BootSync
  BY <1>4 DEF BootSync, setupVars
<1>5. CASE UNCHANGED <<setupVars, startVars, poll>>
  BY <1>5 DEF setupVars, startVars
<1> QED
  BY <1>1, <1>2, <1>3, <1>4, <1>5 DEF Next, LoaderNext, LoaderStores, LoaderStoreFails, EnvNext, BundleRolls,
     ChainRolls, AdminSetsLogin, AdminSetsKey, OutsideKeeps, vars, transportVars

\* The invariant of the transport.
LEMMA TransportInvariant == Spec => []TransportInv
<1>1. Init => TransportInv
  BY DEF Init, TransportStarts, TransportInv, ClientLock, Startup
<1>2. TypeOK /\ TransportInv /\ [Next]_vars => TransportInv'
  BY TransportInvNext
<1> QED
  BY <1>1, <1>2, NotifyTypes, PTL DEF Spec

\* Past the startup main has a client and the whole of the network protocol data,
\* however many of its attempts failed and wherever, until a CA watcher that was
\* registered notices a roll.
THEOREM TransportCompleteHolds == Spec => []TransportComplete
<1>1. TransportInv => TransportComplete
  BY DEF TransportInv, Startup, WholeTransport, TransportComplete
<1> QED
  BY <1>1, TransportInvariant, PTL

\* The client is replaced by a call that holds the lock, or dies with the process.
LEMMA ClientChanges ==
    ASSUME TypeOK, TransportInv, [Next]_vars, rfClient' # rfClient
    PROVE  (\A p \in Poll : ~Reading(p)) \/ mainPc' = "setup"
<1>1. CASE SetupClient \/ SetupClientFails
  BY <1>1 DEF SetupClient, SetupClientFails, TransportInv, ClientLock
<1>2. CASE Restart
  BY <1>2 DEF Restart, TransportRestarts
<1>3. ASSUME NEW p \in Poll, PollBegins(p) \/ PollStep(p) PROVE FALSE
  BY <1>3, PollStepShape DEF PollKeeps, setupVars
<1>4. CASE UNCHANGED rfClient
  BY <1>4
<1> QED
  BY <1>1, <1>2, <1>3, <1>4 DEF Next, Transport, TransportNext, SetupNext, SetupLocks, SetupNWP, SetupNWPFails,
     TransportReady, Retry, FailOver, Register, RollNoticed, RollReturns, MainKeeps, BootSync, Panic,
     Crash, LoaderNext, LoaderStores, LoaderStoreFails, EnvNext, BundleRolls, ChainRolls, AdminSetsLogin,
     AdminSetsKey, OutsideKeeps, setupVars, vars, transportVars

\* No Redfish request of any poll is under way while the client it uses is
\* replaced, by main, by its fail-over or by a CA roll.
THEOREM ClientStableHolds == Spec => ClientStableInUse
<1> DEFINE Stable == (\E p \in Poll : Reading(p)) /\ rfClient' # rfClient => mainPc' = "setup"
<1>1. TypeOK /\ TransportInv /\ [Next]_vars => [Stable]_vars
  BY ClientChanges
<1> HIDE DEF Stable
<1>2. Spec => [][Stable]_vars
  BY <1>1, NotifyTypes, TransportInvariant, PTL DEF Spec
<1> QED
  BY <1>2 DEF Stable, ClientStableInUse

(***************************************************************************)
(* What the polls carry.  A poll that is past the credentials has put      *)
(* complete ones in Vault or failed to, and nobody makes them incomplete   *)
(* again; a poll that replaces credentials began when Vault held no        *)
(* complete ones; a poll's key is its BMC's or the default.                *)
(***************************************************************************)
KeyOwn == \A p \in Poll : key[p] \in {name[p], DefaultKey}

Replaces == \A p \in Poll : poll[p] = "store" => cred[p] \in {"global", "default"}

PastLogin ==
    \A p \in Poll : poll[p] \in {"ssh", "rlock2", "nwp", "post"} =>
        Complete(login[name[p]]) \/ name[p] \in lost

HadLogin ==
    \A p \in Poll : had[p] =>
        /\ poll[p] \notin {"global", "store"}
        /\ poll[p] \in {"rlock", "get", "cred"} => Complete(login[name[p]])

PollInv == KeyOwn /\ OwnKeyOnly /\ Replaces /\ PastLogin /\ AnnouncedWithLogin /\ HadLogin

PollInvVars == <<name, poll, login, lost, cred, key, had, bmc, hsm>>

\* A step that leaves all of that alone preserves the invariant.
LEMMA PollInvKeeps == ASSUME PollInv, UNCHANGED PollInvVars PROVE PollInv'
BY DEF PollInv, PollInvVars, KeyOwn, OwnKeyOnly, Replaces, PastLogin, AnnouncedWithLogin, HadLogin

\* A poll makes no credentials incomplete, and moves one goroutine only.
LEMMA PollKeepsLogin ==
    ASSUME TypeOK, PollInv, NEW p \in Poll, PollBegins(p) \/ PollStep(p)
    PROVE  /\ \A x \in Xname : Complete(login[x]) => Complete(login'[x])
           /\ lost \subseteq lost' /\ name' = name
           /\ \A q \in Poll \ {p} : poll'[q] = poll[q] /\ cred'[q] = cred[q] /\ key'[q] = key[q] /\ had'[q] = had[q]
<1> USE DEF TypeOK, TransportTypeOK, PollAt, PollReturns, PollKeeps, toldVars, localVars
<1>1. CASE PollBegins(p)
  BY <1>1 DEF PollBegins
<1>2. CASE RLock(p, "rlock", "get") \/ RLock(p, "rlock2", "nwp")
  BY <1>2 DEF RLock
<1>3. CASE ProbeFinds(p) \/ ProbeEnds(p)
  BY <1>3 DEF ProbeFinds, ProbeEnds
<1>4. CASE GetCompCred(p)
  <2>1. PICK answer : GetCred(p, answer) /\ (had' = had \/ had' = [had EXCEPT ![p] = FALSE])
    BY <1>4 DEF GetCompCred
  <2> QED
    BY <2>1 DEF GetCred
<1>5. CASE PollGivesUp(p)
  BY <1>5 DEF PollGivesUp
<1>6. CASE FindGlobals(p)
  BY <1>6 DEF FindGlobals
<1>7. CASE StoreCompCred(p)
  BY <1>7 DEF StoreCompCred, PollInv, Replaces, Complete
<1>8. CASE StoreIsLost(p)
  BY <1>8 DEF StoreIsLost
<1>9. CASE FindSSH(p)
  BY <1>9 DEF FindSSH
<1>10. CASE SetNWP(p)
  BY <1>10 DEF SetNWP
<1>11. CASE Post(p) \/ PostFails(p)
  BY <1>11 DEF Post, PostFails
<1> QED
  BY <1>1, <1>2, <1>3, <1>4, <1>5, <1>6, <1>7, <1>8, <1>9, <1>10, <1>11 DEF PollStep

\* What holds of the poll that moves.
InvOf(p) ==
    /\ key[p] \in {name[p], DefaultKey}
    /\ poll[p] = "store" => cred[p] \in {"global", "default"}
    /\ poll[p] \in {"ssh", "rlock2", "nwp", "post"} => Complete(login[name[p]]) \/ name[p] \in lost
    /\ had[p] =>
        /\ poll[p] \notin {"global", "store"}
        /\ poll[p] \in {"rlock", "get", "cred"} => Complete(login[name[p]])

\* Each step of a poll, as far as its own credentials and key go.
LEMMA PollInvOwn ==
    ASSUME TypeOK, PollInv, NEW p \in Poll, PollBegins(p) \/ PollStep(p) PROVE InvOf(p)'
<1>0. InvOf(p)
  BY DEF PollInv, KeyOwn, Replaces, PastLogin, HadLogin, InvOf
<1> USE <1>0 DEF TypeOK, TransportTypeOK, InvOf, PollAt, PollReturns, PollKeeps, toldVars, localVars
<1>1. CASE PollBegins(p)
  BY <1>1 DEF PollBegins
<1>2. CASE RLock(p, "rlock", "get") \/ RLock(p, "rlock2", "nwp")
  BY <1>2 DEF RLock
<1>3. CASE ProbeFinds(p) \/ ProbeEnds(p)
  BY <1>3 DEF ProbeFinds, ProbeEnds
<1>4. CASE GetCompCred(p)
  <2>1. CASE GetCred(p, login[name[p]]) /\ UNCHANGED <<hazards, had>>
    BY <2>1 DEF GetCred
  <2>2. CASE GetCred(p, "none") /\ had' = [had EXCEPT ![p] = FALSE]
    BY <2>2 DEF GetCred, Complete
  <2> QED
    BY <1>4, <2>1, <2>2 DEF GetCompCred
<1>5. CASE PollGivesUp(p)
  BY <1>5 DEF PollGivesUp
<1>6. CASE FindGlobals(p)
  BY <1>6 DEF FindGlobals
<1>7. CASE StoreCompCred(p)
  BY <1>7 DEF StoreCompCred, Complete
<1>8. CASE StoreIsLost(p)
  BY <1>8 DEF StoreIsLost
<1>9. CASE FindSSH(p)
  BY <1>9 DEF FindSSH
<1>10. CASE SetNWP(p)
  BY <1>10 DEF SetNWP
<1>11. CASE Post(p) \/ PostFails(p)
  BY <1>11 DEF Post, PostFails
<1> QED
  BY <1>1, <1>2, <1>3, <1>4, <1>5, <1>6, <1>7, <1>8, <1>9, <1>10, <1>11 DEF PollStep

\* What a poll tells its BMC and HSM.
LEMMA PollTells ==
    ASSUME NEW p \in Poll, PollBegins(p) \/ PollStep(p)
    PROVE  /\ bmc' = bmc \/ bmc' = [bmc EXCEPT ![name[p]] = key[p]]
           /\ \/ hsm' = hsm
              \/ /\ poll[p] = "post"
                 /\ hsm' = [hsm EXCEPT ![name[p]] = login[name[p]]]
BY Zenon DEF PollBegins, PollStep, RLock, ProbeFinds, ProbeEnds, GetCompCred, GetCred, PollGivesUp, FindGlobals,
   StoreCompCred, StoreIsLost, FindSSH, SetNWP, Post, PostFails, PollReturns, PollAt, toldVars

\* The steps of a poll preserve the invariant of the polls.
LEMMA PollInvPoll ==
    ASSUME TypeOK, PollInv, NEW p \in Poll, PollBegins(p) \/ PollStep(p) PROVE PollInv'
<1>1. /\ \A x \in Xname : Complete(login[x]) => Complete(login'[x])
      /\ lost \subseteq lost' /\ name' = name
      /\ \A q \in Poll \ {p} : poll'[q] = poll[q] /\ cred'[q] = cred[q] /\ key'[q] = key[q] /\ had'[q] = had[q]
  BY PollKeepsLogin
<1>2. \A q \in Poll : name[q] \in Xname
  BY DEF TypeOK
<1>3. \A q \in Poll : InvOf(q)'
  BY <1>1, <1>2, PollInvOwn DEF InvOf, PollInv, KeyOwn, Replaces, PastLogin, HadLogin
<1>4. (KeyOwn /\ Replaces /\ PastLogin /\ HadLogin)'
  BY <1>3 DEF InvOf, KeyOwn, Replaces, PastLogin, HadLogin
<1>5. OwnKeyOnly'
  BY <1>2, PollTells DEF TypeOK, PollInv, KeyOwn, OwnKeyOnly
<1>6. AnnouncedWithLogin'
  BY <1>1, <1>2, PollTells DEF TypeOK, PollInv, PastLogin, AnnouncedWithLogin, Complete
<1> QED
  BY <1>4, <1>5, <1>6 DEF PollInv

\* Every step preserves the invariant of the polls.
LEMMA PollInvNext == ASSUME TypeOK, PollInv, [Next]_vars PROVE PollInv'
<1>1. CASE UNCHANGED PollInvVars
  BY <1>1, PollInvKeeps
<1>2. ASSUME NEW p \in Poll, PollBegins(p) \/ PollStep(p) PROVE PollInv'
  BY <1>2, PollInvPoll
<1>3. CASE Panic \/ Crash
  BY <1>3 DEF Panic, Crash, Restart, TransportRestarts, ProcessKeeps, vaultVars, toldVars, PollInv, KeyOwn,
     OwnKeyOnly, Replaces, PastLogin, AnnouncedWithLogin, HadLogin
<1>4. ASSUME NEW x \in Xname, AdminSetsLogin(x) PROVE PollInv'
  BY <1>4 DEF AdminSetsLogin, OutsideKeeps, localVars, toldVars, TypeOK, Complete, PollInv, KeyOwn,
     OwnKeyOnly, Replaces, PastLogin, AnnouncedWithLogin, HadLogin
<1>5. CASE Transport
  BY <1>1, <1>5 DEF Transport, TransportNext, SetupNext, SetupLocks, SetupClient, SetupClientFails, SetupNWP,
     SetupNWPFails, TransportReady, Retry, FailOver, Register, RollNoticed, RollReturns, SetupKeeps, MainKeeps,
     ProcessKeeps, localVars, vaultVars, toldVars, PollInvVars
<1> QED
  BY <1>1, <1>2, <1>3, <1>4, <1>5 DEF Next, BootSync, LoaderNext, LoaderStores, LoaderStoreFails, EnvNext, BundleRolls,
     ChainRolls, AdminSetsKey, OutsideKeeps, ProcessKeeps, localVars, vaultVars, toldVars, vars, transportVars,
     PollInvVars

\* The invariant of the polls.
LEMMA PollInvariant == Spec => []PollInv
<1>1. Init => PollInv
  BY NotifyAssumption DEF Init, TransportStarts, PollInv, KeyOwn, OwnKeyOnly, Replaces, PastLogin,
     AnnouncedWithLogin, HadLogin
<1>2. TypeOK /\ PollInv /\ [Next]_vars => PollInv'
  BY PollInvNext
<1> QED
  BY <1>1, <1>2, NotifyTypes, PTL DEF Spec

\* No BMC is sent the SSH key of another one, however many polls are between
\* reading their keys and sending them.
THEOREM OwnKeyHolds == Spec => []OwnKeyOnly
<1>1. PollInv => OwnKeyOnly
  BY DEF PollInv
<1> QED
  BY <1>1, PollInvariant, PTL

\* HSM finds complete credentials in Vault for whatever BMC it is told of, unless
\* storing them failed: through reads that Vault refuses, credentials without a
\* password, administrators and other polls of the same BMC.
THEOREM AnnouncedWithLoginHolds == Spec => []AnnouncedWithLogin
<1>1. PollInv => AnnouncedWithLogin
  BY DEF PollInv
<1> QED
  BY <1>1, PollInvariant, PTL

\* Complete credentials that Vault held when a poll began are not replaced by it,
\* unless Vault refused to show them.
THEOREM CredentialsKeptHolds == Spec => CredentialsKept
<1> DEFINE Kept == \A p \in Poll :
                     poll[p] = "store" /\ poll'[p] = "ssh" /\ login' # login => ~had[p]
<1>1. TypeOK /\ PollInv /\ [Next]_vars => [Kept]_vars
  BY DEF TypeOK, PollInv, HadLogin
<1> HIDE DEF Kept
<1>2. Spec => [][Kept]_vars
  BY <1>1, NotifyTypes, PollInvariant, PTL DEF Spec
<1> QED
  BY <1>2 DEF Kept, CredentialsKept
=============================================================================
