---------------------------- MODULE ChassisInit ----------------------------
(***************************************************************************)
(* The first half of init_chassis: main makes HSM's EthernetInterfaces map *)
(* the MAC address of every endpoint of a chassis to its xname, verifies   *)
(* the FQDN HSM records for the chassis controller, and only then starts   *)
(* to watch the endpoints.  An error sends main back to its loop, which    *)
(* tries again.  The watching itself is the business of Meds.              *)
(***************************************************************************)
EXTENDS MACAddress, FiniteSets

CONSTANTS
    Listed,      \* the chassis SLS lists: <<cabinet number, chassis number>>
    HMNPrefix,   \* the MAC prefix SLS gives for the HMN network of its cabinet,
                 \* or NoPrefix; Nil: init_chassis cannot use what SLS gives
    NoPrefix, MAC_PREFIX,
    Nil,
    Hazards,     \* the kinds of environment event that may happen ...
    MaxHazards   \* ... and, as a bound, how many of them

HazardKind == {"getFail", "writeFail", "fqdnFail", "stranger", "removed", "crash"}

\* The numbers that fit the octets of a MAC address without wrapping.
Rack == 0..65535
ChassisNumber == 0..255

ASSUME ChassisAssumption ==
    /\ Listed \subseteq Rack \X ChassisNumber
    /\ Nil \notin Listed
    /\ Hazards \subseteq HazardKind
    /\ MaxHazards \in Nat

\* Those whose xname is a chassis's, whose parent is the cabinet they were found
\* in, and whose cabinet has an HMN network.
Chassis == {c \in Listed : HMNPrefix[c] # Nil}

MACPrefix == [c \in Chassis |-> IF HMNPrefix[c] = NoPrefix THEN MAC_PREFIX ELSE HMNPrefix[c]]

EndpointsOf(c) == GenerateChassisEndpoints(MACPrefix[c], c[1], c[2])

Position == 1..EndpointCount
MAC == {EndpointsOf(c)[i].mac : c \in Chassis, i \in Position}
CompID == {EndpointsOf(c)[i].name : c \in Chassis, i \in Position}

\* What HSM may hold for a MAC address: nothing, a component that is none of
\* ours, or one of the endpoints.
NoInterface == <<"none">>
Stranger == <<"stranger">>
Interface == {NoInterface, Stranger} \cup CompID

FQDN == {"absent", "right", "wrong"}

VARIABLES
    hazards,
    ethernet,   \* HSM's EthernetInterfaces: MAC address -> component
    fqdn,       \* what HSM records for each chassis controller
    cache,      \* hsmRedfishEndpointsCache, of the FQDNs
    active,     \* the chassis in activeChassis
    cur,        \* the chassis being initialised
    pos,        \* the endpoint it is at; EndpointCount + 1: the verification
    found       \* hsmEthernetInterfacesMap

vars == <<hazards, ethernet, fqdn, cache, active, cur, pos, found>>

NothingFound == [m \in MAC |-> NoInterface]

TypeOK ==
    /\ hazards \in 0..MaxHazards
    /\ ethernet \in [MAC -> Interface]
    /\ fqdn \in [Chassis -> FQDN]
    /\ cache \in [Chassis -> FQDN]
    /\ active \in SUBSET Chassis
    /\ cur \in Chassis \cup {Nil}
    /\ pos \in 1..EndpointCount + 2
    /\ found \in [MAC -> Interface]

Happens(kind) ==
    /\ kind \in Hazards
    /\ hazards < MaxHazards
    /\ hazards' = hazards + 1

Init ==
    /\ hazards = 0
    /\ ethernet \in {NothingFound, [m \in MAC |-> Stranger]}
    /\ fqdn \in [Chassis -> FQDN]
    /\ cache = fqdn
    /\ active = {}
    /\ cur = Nil /\ pos = 1 /\ found = NothingFound

\* main comes to a chassis that is not active; HSM lists the interfaces.
Begin(c) ==
    /\ cur = Nil /\ c \notin active
    /\ cur' = c
    /\ found' = ethernet
    /\ UNCHANGED <<hazards, ethernet, fqdn, cache, active, pos>>

BeginFails(c) ==
    /\ cur = Nil /\ c \notin active
    /\ Happens("getFail")
    /\ UNCHANGED <<ethernet, fqdn, cache, active, cur, pos, found>>

\* main comes to a chassis it cannot initialise, and goes on with the next.
Rejected(c) ==
    /\ cur = Nil /\ c \in Listed \ Chassis
    /\ UNCHANGED vars

\* main did not come across the chassis in SLS this time: deinit_chassis, and
\* HSM keeps the interfaces.
Removed(c) ==
    /\ cur = Nil /\ c \in active
    /\ Happens("removed")
    /\ active' = active \ {c}
    /\ UNCHANGED <<ethernet, fqdn, cache, cur, pos, found>>

\* A refresh that finds every chassis known.
NothingNew == active = Chassis /\ UNCHANGED vars

AtEndpoint == cur # Nil /\ pos \in Position
ep == EndpointsOf(cur)[pos]

\* The interface is there and right.
AlreadyPresent ==
    /\ AtEndpoint
    /\ found[ep.mac] = ep.name
    /\ pos' = pos + 1
    /\ UNCHANGED <<hazards, ethernet, fqdn, cache, active, cur, found>>

\* Mutant: the two fields of the interface are swapped.
PatchWritesMAC ==
    /\ AtEndpoint
    /\ found[ep.mac] \notin {ep.name, NoInterface}
    /\ ethernet' = [ethernet EXCEPT ![ep.mac] = ep.mac]
    /\ pos' = pos + 1
    /\ UNCHANGED <<hazards, fqdn, cache, active, cur, found>>

\* It is another component's: PATCH it.
Patch ==
    /\ AtEndpoint
    /\ found[ep.mac] \notin {ep.name, NoInterface}
    /\ ethernet' = [ethernet EXCEPT ![ep.mac] = ep.name]
    /\ pos' = pos + 1
    /\ UNCHANGED <<hazards, fqdn, cache, active, cur, found>>

\* It was not there when HSM was asked: POST it, and PATCH it if HSM answers
\* 409 because it is there by now.
Add ==
    /\ AtEndpoint
    /\ found[ep.mac] = NoInterface
    /\ ethernet' = [ethernet EXCEPT ![ep.mac] = ep.name]
    /\ pos' = pos + 1
    /\ UNCHANGED <<hazards, fqdn, cache, active, cur, found>>

\* The call returns to main.
Leave == cur' = Nil /\ pos' = 1 /\ found' = NothingFound

\* The PATCH or POST fails, or it is done and the answer is lost.
WriteFails ==
    /\ AtEndpoint
    /\ found[ep.mac] # ep.name
    /\ Happens("writeFail")
    /\ \/ UNCHANGED ethernet
       \/ ethernet' = [ethernet EXCEPT ![ep.mac] = ep.name]
    /\ Leave
    /\ UNCHANGED <<fqdn, cache, active>>

\* Mutant: the verification is skipped.
VerifyNothing ==
    /\ cur # Nil /\ pos = EndpointCount + 1
    /\ pos' = pos + 1
    /\ UNCHANGED <<hazards, ethernet, fqdn, cache, active, cur, found>>

\* The PATCH of the controller's FQDN is done, or it fails, or the answer is
\* lost: MEDS cannot tell which.
patchXnameFQDN(c) ==
    \/ fqdn' = [fqdn EXCEPT ![c] = "right"] /\ UNCHANGED hazards
    \/ fqdn' \in {fqdn, [fqdn EXCEPT ![c] = "right"]} /\ Happens("fqdnFail")

\* verifyCabinetRedfishEndpoints: the FQDN of a chassis controller the cache
\* knows is PATCHed when it is not the xname.  init_chassis does not look at
\* the error it may return.
Verify ==
    /\ cur # Nil /\ pos = EndpointCount + 1
    /\ pos' = pos + 1
    /\ IF cache[cur] = "wrong" THEN patchXnameFQDN(cur) ELSE UNCHANGED <<fqdn, hazards>>
    /\ UNCHANGED <<ethernet, cache, active, cur, found>>

\* Mutant: the chassis is not entered in activeChassis.
WatchUnlisted ==
    /\ cur # Nil /\ pos = EndpointCount + 2
    /\ Leave
    /\ UNCHANGED <<hazards, ethernet, fqdn, cache, active>>

\* The endpoints are published and watched; init_chassis returns nil.
Watch ==
    /\ cur # Nil /\ pos = EndpointCount + 2
    /\ active' = active \cup {cur}
    /\ Leave
    /\ UNCHANGED <<hazards, ethernet, fqdn, cache>>

\* queryHSMState, in its own goroutine, replaces the cache.
Sync ==
    /\ cache' = fqdn
    /\ UNCHANGED <<hazards, ethernet, fqdn, active, cur, pos, found>>

\* A new process syncs with HSM before it comes to any chassis.
Crash ==
    /\ Happens("crash")
    /\ active' = {}
    /\ cache' = fqdn
    /\ Leave
    /\ UNCHANGED <<ethernet, fqdn>>

\* Another service enters an interface HSM does not know yet.
StrangerAdds(m) ==
    /\ Happens("stranger")
    /\ ethernet[m] = NoInterface
    /\ ethernet' = [ethernet EXCEPT ![m] = Stranger]
    /\ UNCHANGED <<fqdn, cache, active, cur, pos, found>>

InitSteps ==
    \/ \E c \in Chassis : Begin(c)
    \/ AlreadyPresent \/ Patch \/ Add \/ Verify \/ Watch

Next ==
    \/ InitSteps
    \/ NothingNew \/ Sync
    \/ \E c \in Chassis : BeginFails(c) \/ Removed(c)
    \/ \E c \in Listed : Rejected(c)
    \/ WriteFails \/ Crash
    \/ \E m \in MAC : StrangerAdds(m)

Spec == Init /\ [][Next]_vars /\ WF_vars(InitSteps)

(***************************************************************************)
(* Properties.                                                             *)
(***************************************************************************)
\* DNS and DHCP can tell every BMC MEDS watches: its MAC address maps to its
\* xname, whatever HSM held before, also after a half-done init_chassis, and
\* whichever chassis have been initialised since.
InterfacesRight ==
    \A c \in active : \A i \in Position :
        ethernet[EndpointsOf(c)[i].mac] = EndpointsOf(c)[i].name

\* MEDS never takes a MAC address away from the endpoint it has given it to:
\* no two endpoints contend for one.
OwnerKept ==
    [][ \A c \in Chassis : \A i \in Position :
          LET e == EndpointsOf(c)[i]
          IN  ethernet[e.mac] = e.name => ethernet'[e.mac] = e.name ]_vars

\* "If the add to HSM fails don't add the endpoint to any lists and instead
\* skip over it so we process it again. The main loop will try to re-initialize
\* the cabinet" (meds.go:1034): once a chassis is watched, the FQDN of its
\* controller, if the sync found one, is right.
FqdnRight ==
    \A c \in active : cache[c] # "absent" => fqdn[c] = "right"

\* Every chassis SLS lists is initialised in the end, whatever failed before and
\* whatever is wrong with the others.
AllInitialised == <>[](active = Chassis)
=============================================================================
