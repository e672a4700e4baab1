---------------------------- MODULE MedsDiscovery ----------------------------
(***************************************************************************)
(* Meds implements Discovery.  MEDS's view of a BMC is that of the object  *)
(* activeEndpoints holds under its name.                                   *)
(***************************************************************************)
EXTENDS Meds

View(n) ==
    IF activeEndpoints[n] = Nil THEN "unwatched"
    ELSE IF presence[activeEndpoints[n]] = "PRESENT" THEN "known" ELSE "unknown"

\* A poll that found the BMC is announcing it until it returns.
Announces(o) == poll[o] \in {"creds", "nwp", "post", "patch"}
Announcing == {n \in Xname : \E o \in Endpoint : XnameOf(o) = n /\ Announces(o)}

D == INSTANCE Discovery WITH
        Name <- Xname, record <- hsm, view <- [n \in Xname |-> View(n)],
        announcing <- Announcing, spared <- knownAtBoot

\* As long as nobody deletes records, every step of MEDS is one Discovery
\* allows: it announces only what it may, and believes in no record HSM has not.
ImplementsDiscovery == D!Spec
=============================================================================
