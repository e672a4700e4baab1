---------------------------- MODULE NotifyPresent ----------------------------
(***************************************************************************)
(* notifyXnamePresent in full: several polls whose BMC answers, the        *)
(* credentials they find in Vault and store there, the SSH keys they send, *)
(* the announcement to HSM, and around them the Redfish transport they     *)
(* share (RFTransport), the job vault_loader that stores MEDS's global     *)
(* credentials, administrators, and a process that may restart.            *)
(*                                                                         *)
(* An object in Poll is a NetEndpoint, polled by one goroutine at a time   *)
(* (HSMPresLock; see WatchForHardware); two objects may have one name.     *)
(* Credentials are told apart by who made them, a key by who owns it.      *)
(***************************************************************************)
EXTENDS RFTransport

CONSTANTS
    Xname,
    DefaultKey,    \* the SSH key configured for BMCs without one of their own
    InitialNames,  \* the names the objects may have
    InitialLogin   \* what Vault may hold at the beginning

\* "half" lacks the password.
Login == {"none", "half", "own", "global", "default"}

ASSUME NotifyAssumption ==
    /\ DefaultKey \notin Xname /\ Nil \notin Xname /\ DefaultKey # Nil
    /\ InitialNames \subseteq [Poll -> Xname]
    /\ InitialLogin \subseteq [Xname -> Login]

VARIABLES
    name,      \* the name of each NetEndpoint
    defaults,  \* are default credentials configured (defUser)?
    \* Vault.
    login,     \* hms-creds: the credentials of each BMC
    globals,   \* does it hold MEDS's global credentials?
    ssh,       \* the BMCs that have an SSH key of their own
    loader,    \* where vault_loader is
    \* The polls.
    presence,  \* HSMPresence, NOT_PRESENT at first
    cred,      \* perNodeCred
    key,       \* the key in tmpBMCCreds
    nstError,
    \* The BMCs and HSM.
    bmc,       \* the SSH key each BMC was given last
    hsm,       \* the credentials HSM finds when told of a BMC, else "untold"
    \* Auxiliary.
    had,       \* Vault held complete credentials when the poll began
    lost       \* the BMCs whose credentials could not be stored

vaultVars == <<login, globals, ssh, loader>>
localVars == <<cred, key, nstError, had>>
toldVars  == <<bmc, hsm, lost>>
vars == <<transportVars, name, defaults, vaultVars, presence, localVars, toldVars>>

Complete(login_) == login_ \in {"own", "global", "default"}
LoaderPc == {"run", "done", "dead"}
Key == Xname \cup {DefaultKey}

TypeOK ==
    /\ TransportTypeOK
    /\ name \in [Poll -> Xname]
    /\ defaults \in BOOLEAN
    /\ login \in [Xname -> Login]
    /\ globals \in BOOLEAN
    /\ ssh \in SUBSET Xname
    /\ loader \in LoaderPc
    /\ presence \in [Poll -> {"PRESENT", "NOT_PRESENT"}]
    /\ cred \in [Poll -> Login]
    /\ key \in [Poll -> Key]
    /\ nstError \in [Poll -> BOOLEAN]
    /\ bmc \in [Xname -> Key \cup {Nil}]
    /\ hsm \in [Xname -> Login \cup {"untold"}]
    /\ had \in [Poll -> BOOLEAN]
    /\ lost \in SUBSET Xname

Init ==
    /\ TransportStarts /\ chain = 0 /\ hazards = 0
    /\ name \in InitialNames /\ defaults \in BOOLEAN
    /\ login \in InitialLogin
    /\ globals = FALSE /\ ssh = {} /\ loader = "run"
    /\ presence = [p \in Poll |-> "NOT_PRESENT"]
    /\ cred = [p \in Poll |-> "none"]
    /\ key = [p \in Poll |-> DefaultKey]
    /\ nstError = [p \in Poll |-> FALSE]
    /\ had = [p \in Poll |-> FALSE]
    /\ bmc = [x \in Xname |-> Nil]
    /\ hsm = [x \in Xname |-> "untold"]
    /\ lost = {}

(***************************************************************************)
(* What internal/model reads from Vault and writes to it.                  *)
(***************************************************************************)
FindGlobalCredentials == globals
FindBMCSSHCredentials(x) == x \in ssh
StoreGlobalCredentials == globals' = TRUE

(***************************************************************************)
(* A poll.                                                                 *)
(***************************************************************************)
PollKeeps == UNCHANGED <<chain, setupVars, startVars, name, defaults, globals, ssh, loader>>

PollAt(p, from, to) ==
    /\ poll[p] = from
    /\ poll' = [poll EXCEPT ![p] = to]
    /\ PollKeeps

\* The goroutine ends; its locals are gone.
PollReturns(p, from) ==
    /\ PollAt(p, from, "idle")
    /\ cred' = [cred EXCEPT ![p] = "none"]
    /\ key' = [key EXCEPT ![p] = DefaultKey]
    /\ nstError' = [nstError EXCEPT ![p] = FALSE]
    /\ had' = [had EXCEPT ![p] = FALSE]

\* A tick.
PollBegins(p) ==
    /\ mainPc = "run"
    /\ PollAt(p, "idle", "rlock")
    /\ had' = [had EXCEPT ![p] = Complete(login[name[p]])]
    /\ UNCHANGED <<hazards, login, presence, cred, key, nstError, toldVars>>

RLock(p, from, to) ==
    /\ MayRLock
    /\ PollAt(p, from, to)
    /\ UNCHANGED <<hazards, login, presence, localVars, toldVars>>

\* The BMC answers, and HSM does not have it yet.
ProbeFinds(p) ==
    /\ rfClient # Nil /\ presence[p] = "NOT_PRESENT"
    /\ PollAt(p, "get", "cred")
    /\ UNCHANGED <<hazards, login, presence, localVars, toldVars>>

\* The BMC is known, or it does not answer.  A nil client gives an error.
ProbeEnds(p) ==
    /\ PollReturns(p, "get")
    /\ \/ presence[p] = "PRESENT" /\ UNCHANGED hazards
       \/ rfClient = Nil /\ UNCHANGED hazards
       \/ Happens("probeFail")
    /\ UNCHANGED <<login, presence, toldVars>>

\* Mutant: the password is not looked at.
GetCredAnyPassword(p, answer) ==
    /\ PollAt(p, "cred", IF Complete(answer) \/ answer = "half" THEN "ssh" ELSE "global")
    /\ cred' = [cred EXCEPT ![p] = answer]
    /\ UNCHANGED <<login, presence, key, nstError, toldVars>>

\* Mutant: what was read is shadowed by an empty variable.
GetCredShadowed(p, answer) ==
    /\ PollAt(p, "cred", "global")
    /\ UNCHANGED <<login, presence, cred, key, nstError, toldVars>>

GetCred(p, answer) ==
    /\ PollAt(p, "cred", IF Complete(answer) THEN "ssh" ELSE "global")
    /\ cred' = [cred EXCEPT ![p] = answer]
    /\ UNCHANGED <<login, presence, key, nstError, toldVars>>

\* GetCompCred.  A read that Vault refuses twice gives nothing, and no error.
GetCompCred(p) ==
    \/ GetCred(p, login[name[p]]) /\ UNCHANGED <<hazards, had>>
    \/ GetCred(p, "none") /\ Happens("refused") /\ had' = [had EXCEPT ![p] = FALSE]

\* GetCompCred fails, or there are neither global nor default credentials.
PollGivesUp(p) ==
    /\ \/ PollReturns(p, "cred") /\ Happens("vaultFail")
       \/ PollReturns(p, "global") /\ ~defaults /\ ~FindGlobalCredentials /\ UNCHANGED hazards
       \/ PollReturns(p, "global") /\ ~defaults /\ Happens("vaultFail")
    /\ UNCHANGED <<login, presence, toldVars>>

\* The credentials to store: the global ones, or else the defaults.
FindGlobals(p) ==
    /\ PollAt(p, "global", "store")
    /\ \/ FindGlobalCredentials /\ cred' = [cred EXCEPT ![p] = "global"] /\ UNCHANGED hazards
       \/ defaults /\ cred' = [cred EXCEPT ![p] = "default"]
          /\ IF FindGlobalCredentials THEN Happens("vaultFail") ELSE UNCHANGED hazards
    /\ UNCHANGED <<login, presence, key, nstError, had, toldVars>>

StoreCompCred(p) ==
    /\ PollAt(p, "store", "ssh")
    /\ login' = [login EXCEPT ![name[p]] = cred[p]]
    /\ UNCHANGED <<hazards, presence, localVars, toldVars>>

\* Storing fails, which is logged, or Vault refuses twice, which is not noticed.
StoreIsLost(p) ==
    /\ PollAt(p, "store", "ssh")
    /\ Happens("storeFail")
    /\ lost' = lost \cup {name[p]}
    /\ UNCHANGED <<login, presence, localVars, bmc, hsm>>

\* Mutant: tmpBMCCreds shares its SSHAdminData with rfNWPStatic.
FindSSHShared(p) ==
    /\ PollAt(p, "ssh", "rlock2")
    /\ key' = [q \in Poll |-> IF FindBMCSSHCredentials(name[p]) THEN name[p] ELSE DefaultKey]
    /\ UNCHANGED <<hazards, login, presence, cred, nstError, had, toldVars>>

\* FindBMCSSHCredentials, and a deep copy of rfNWPStatic to put the key in.
FindSSH(p) ==
    /\ PollAt(p, "ssh", "rlock2")
    /\ \/ /\ FindBMCSSHCredentials(name[p])
          /\ key' = [key EXCEPT ![p] = name[p]]
          /\ UNCHANGED hazards
       \/ /\ key' = [key EXCEPT ![p] = DefaultKey]
          /\ IF FindBMCSSHCredentials(name[p]) THEN Happens("vaultFail") ELSE UNCHANGED hazards
    /\ UNCHANGED <<login, presence, cred, nstError, had, toldVars>>

SetNWP(p) ==
    /\ PollAt(p, "nwp", "post")
    /\ \/ /\ bmc' = [bmc EXCEPT ![name[p]] = key[p]]
          /\ UNCHANGED <<hazards, nstError>>
       \/ /\ Happens("nwpFail")
          /\ nstError' = [nstError EXCEPT ![p] = TRUE]
          /\ UNCHANGED bmc
    /\ UNCHANGED <<login, presence, cred, key, had, hsm, lost>>

\* HSM is told, and takes the credentials from Vault.
Post(p) ==
    /\ PollReturns(p, "post")
    /\ hsm' = [hsm EXCEPT ![name[p]] = login[name[p]]]
    /\ presence' = [presence EXCEPT ![p] = IF nstError[p] THEN @ ELSE "PRESENT"]
    /\ UNCHANGED <<hazards, login, bmc, lost>>

\* Mutant: the error is not looked at.
PostFailsUnnoticed(p) ==
    /\ PollReturns(p, "post")
    /\ Happens("hsmFail")
    /\ presence' = [presence EXCEPT ![p] = "PRESENT"]
    /\ UNCHANGED <<login, toldVars>>

PostFails(p) ==
    /\ PollReturns(p, "post")
    /\ Happens("hsmFail")
    /\ UNCHANGED <<login, presence, toldVars>>

PollStep(p) ==
    \/ RLock(p, "rlock", "get") \/ RLock(p, "rlock2", "nwp")
    \/ ProbeFinds(p) \/ ProbeEnds(p)
    \/ GetCompCred(p) \/ PollGivesUp(p)
    \/ FindGlobals(p) \/ StoreCompCred(p) \/ StoreIsLost(p)
    \/ FindSSH(p) \/ SetNWP(p)
    \/ Post(p) \/ PostFails(p)

(***************************************************************************)
(* The process.                                                            *)
(***************************************************************************)
ProcessKeeps == UNCHANGED <<name, defaults, vaultVars, toldVars>>

Transport ==
    /\ TransportNext
    /\ UNCHANGED <<presence, localVars>> /\ ProcessKeeps

\* The initial sync tells which BMCs HSM knows; the polls may start.
BootSync ==
    /\ mainPc = "sync"
    /\ mainPc' = "run"
    /\ presence' = [p \in Poll |->
           IF hsm[name[p]] = "untold" THEN "NOT_PRESENT" ELSE "PRESENT"]
    /\ UNCHANGED <<chain, hazards, setupVars, hms_ca_uri, ix, baseChain, poll, localVars>>
    /\ ProcessKeeps

Restart ==
    /\ TransportRestarts
    /\ cred' = [p \in Poll |-> "none"]
    /\ key' = [p \in Poll |-> DefaultKey]
    /\ nstError' = [p \in Poll |-> FALSE]
    /\ had' = [p \in Poll |-> FALSE]
    /\ presence' = [p \in Poll |-> "NOT_PRESENT"]
    /\ UNCHANGED chain /\ ProcessKeeps

\* main panics when it gets no transport at all.
Panic ==
    /\ mainPc = "failover" /\ setupPc = "failed"
    /\ UNCHANGED hazards /\ Restart

Crash == Happens("crash") /\ Restart

(***************************************************************************)
(* vault_loader and the administrators.                                    *)
(***************************************************************************)
OutsideKeeps ==
    UNCHANGED <<setupVars, startVars, poll, name, defaults, presence, localVars, toldVars>>

\* The loader tries to connect until it can, and then stores.
LoaderStores ==
    /\ loader = "run"
    /\ StoreGlobalCredentials /\ loader' = "done"
    /\ UNCHANGED <<chain, hazards, login, ssh>> /\ OutsideKeeps

\* The loader panics, or takes a refusal for success.
LoaderStoreFails ==
    /\ loader = "run"
    /\ Happens("storeFail")
    /\ loader' \in {"done", "dead"}
    /\ UNCHANGED <<chain, login, globals, ssh>> /\ OutsideKeeps

AdminSetsLogin(x) ==
    /\ Happens("admin")
    /\ login' = [login EXCEPT ![x] = "own"]
    /\ UNCHANGED <<chain, globals, ssh, loader>> /\ OutsideKeeps

AdminSetsKey(x) ==
    /\ Happens("key")
    /\ ssh' = ssh \cup {x}
    /\ UNCHANGED <<chain, login, globals, loader>> /\ OutsideKeeps

BundleRolls ==
    /\ ChainRolls
    /\ UNCHANGED <<presence, localVars>> /\ ProcessKeeps

LoaderNext == LoaderStores \/ LoaderStoreFails
EnvNext ==
    \/ BundleRolls \/ Crash
    \/ \E x \in Xname : AdminSetsLogin(x) \/ AdminSetsKey(x)

Next ==
    \/ Transport \/ BootSync \/ Panic
    \/ \E p \in Poll : PollBegins(p) \/ PollStep(p)
    \/ LoaderNext \/ EnvNext

Spec == Init /\ [][Next]_vars

(***************************************************************************)
(* Goroutines are scheduled, timers fire, requests return or time out, and *)
(* the job is run.  A waiting writer keeps new readers out, so the lock is *)
(* obtained under weak fairness.                                           *)
(***************************************************************************)
Fairness ==
    /\ WF_vars(Transport) /\ WF_vars(BootSync) /\ WF_vars(Panic)
    /\ WF_vars(LoaderNext)
    /\ \A p \in Poll : WF_vars(PollBegins(p)) /\ WF_vars(PollStep(p))

FairSpec == Spec /\ Fairness

(***************************************************************************)
(* Safety.                                                                 *)
(***************************************************************************)
\* No Redfish request is under way while setupRFHTTPStuff replaces what it
\* uses: a request ends with the client it began with (rfClientLock), unless
\* the process does.
ClientStableInUse ==
    [][ (\E p \in Poll : Reading(p)) /\ rfClient' # rfClient => mainPc' = "setup" ]_vars

\* Past the startup and until the first roll is noticed, main has a client and
\* the whole of the network protocol data, through whatever retries and
\* whichever of the two ways (secured, fail-over) it got there.
TransportComplete ==
    mainPc \in {"sync", "run"} /\ baseChain = Nil => rfClient # Nil /\ rfNWPStatic = "full"

\* No BMC is sent the SSH key of another one, whatever polls run at once:
\* each works on a copy of rfNWPStatic.
OwnKeyOnly == \A x \in Xname : bmc[x] \in {Nil, x, DefaultKey}

\* HSM is never told of a BMC whose credentials it will not find in Vault,
\* unless storing them failed (meds.go:405 accepts that).
AnnouncedWithLogin ==
    \A x \in Xname : hsm[x] \in {"none", "half"} => x \in lost

\* Complete credentials that Vault held when a poll began are not replaced by
\* it, unless Vault refused to show them.
CredentialsKept ==
    [][ \A p \in Poll :
          poll[p] = "store" /\ poll'[p] = "ssh" /\ login' # login => ~had[p] ]_vars

(***************************************************************************)
(* Liveness, once the hazards (a bounded number) are over.                 *)
(***************************************************************************)
\* Redfish traffic held up by a replacement of the client may go on in the end:
\* setupRFHTTPStuff returns, also when it fails, and gives the lock back.
TrafficResumes == ~MayRLock ~> MayRLock

\* A bundle published after the CA watcher has started is in use in the end, or a
\* later one, unless a roll left no client or the process restarts.
NewBundleUsed ==
    \A v \in Bundle \ {0} :
        baseChain # Nil /\ baseChain < chain /\ chain = v ~>
            rfClient = Nil \/ baseChain = Nil \/ rfClient >= v

\* Every BMC that answers is announced, as long as there are credentials to
\* give it and a client to reach it.
Announced ==
    <>[](rfClient # Nil /\ (globals \/ defaults) =>
            \A p \in Poll : presence[p] = "PRESENT" /\ hsm[name[p]] # "untold")

(***************************************************************************)
(* What a message of the program says and the code does not keep to.       *)
(***************************************************************************)
\* "HTTP transports/clients now set up with new CA bundle." (meds.go:1097),
\* which caChangeCB logs when it is done.
RollSetsClient ==
    [][ mainPc = "run" /\ setupPc # "out" /\ setupPc' = "out" => rfClient # Nil ]_vars
=============================================================================
