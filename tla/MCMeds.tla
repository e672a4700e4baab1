------------------------------- MODULE MCMeds -------------------------------
(***************************************************************************)
(* Small instances of Meds for TLC.                                        *)
(***************************************************************************)
EXTENDS MedsDiscovery, TLC

CONSTANTS x1, x2, k1, k2, cab1

OneChassisOf  == (x1 :> k1)
OneCabinetOf  == (k1 :> cab1)
TwoChassisOf  == (x1 :> k1 @@ x2 :> k2)
TwoCabinetOf  == (k1 :> cab1 @@ k2 :> cab1)
=============================================================================
