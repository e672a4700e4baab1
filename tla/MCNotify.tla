------------------------------ MODULE MCNotify ------------------------------
(***************************************************************************)
(* Small instances of NotifyPresent for TLC.                               *)
(***************************************************************************)
EXTENDS NotifyPresent, TLC

CONSTANTS p1, p2, x1, x2

\* Two objects of one BMC, or of two.
Names == {(p1 :> x1 @@ p2 :> x1), (p1 :> x1 @@ p2 :> x2)}
OneName == {(p1 :> x1)}
OneLogin == {(x1 :> "own")}
Logins == {(x1 :> "none" @@ x2 :> "half")}
=============================================================================
