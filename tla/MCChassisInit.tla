--------------------------- MODULE MCChassisInit ---------------------------
(***************************************************************************)
(* Two chassis with the same number, of two cabinets whose numbers have    *)
(* the same low octet (1000 = 16#3E8, 1256 = 16#4E8) and that end up with  *)
(* the same prefix, and a third chassis whose cabinet has no HMN network.  *)
(***************************************************************************)
EXTENDS ChassisInit, TLC

ThreeChassis == {<<1000, 0>>, <<1256, 0>>, <<1001, 0>>}
Prefixes == (<<1000, 0>> :> NoPrefix @@ <<1256, 0>> :> MAC_PREFIX @@ <<1001, 0>> :> Nil)
=============================================================================
