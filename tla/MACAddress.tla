----------------------------- MODULE MACAddress -----------------------------
(***************************************************************************)
(* The endpoints MEDS expects in a chassis and the algorithmic MAC address *)
(* of each: GenerateMAC* and Generate*Endpoints of src/cmd/meds/meds.go.   *)
(* A MAC address is the tuple of the prefix and its five octets, an xname  *)
(* the tuple of its letter and its numbers: the formatting is one to one.  *)
(***************************************************************************)
EXTENDS Integers

CONSTANTS
    MTN_SWITCH_COUNT,  \* switch cards (and slots) in a chassis: 8 in the code
    MTN_nC_PER_SLOT    \* node cards in a slot: 2 in the code

\* As many as the offsets 48 and 96 and the shift by four bits have room for.
ASSUME HardwareAssumption ==
    /\ MTN_SWITCH_COUNT \in 1..48
    /\ MTN_nC_PER_SLOT \in 1..16

\* Mutant: the high octet of the cabinet number is dropped.
GenerateMACLow(mp, rack, chassis, slt, idx) ==
    <<mp, 0, rack % 256, chassis % 256, slt % 256, (idx * 16) % 256>>

GenerateMAC(mp, rack, chassis, slt, idx) ==
    <<mp, (rack \div 256) % 256, rack % 256, chassis % 256, slt % 256, (idx * 16) % 256>>

\* Mutant: node cards get the offset of the switch cards.
GenerateMACnCOffset(mp, rack, chassis, slt, idx) ==
    GenerateMAC(mp, rack, chassis, slt + 96, idx)

GenerateMACnC(mp, rack, chassis, slt, idx) == GenerateMAC(mp, rack, chassis, slt + 48, idx)
GenerateMACsC(mp, rack, chassis, slt) == GenerateMAC(mp, rack, chassis, slt + 96, 0)
GenerateMACcC(mp, rack, chassis) == GenerateMAC(mp, rack, chassis, 0, 0)

ChassisController(mp, rack, chassis) ==
    [name |-> <<"c", rack, chassis, 0, 0>>, mac |-> GenerateMACcC(mp, rack, chassis)]

SwitchCard(mp, rack, chassis, card) ==
    [name |-> <<"r", rack, chassis, card, 0>>, mac |-> GenerateMACsC(mp, rack, chassis, card)]

NodeCard(mp, rack, chassis, slot, nc) ==
    [name |-> <<"s", rack, chassis, slot, nc>>,
     mac |-> GenerateMACnC(mp, rack, chassis, slot, nc)]

\* The chassis controller, then for each slot its switch card and node cards.
PerSlot == 1 + MTN_nC_PER_SLOT
EndpointCount == 1 + MTN_SWITCH_COUNT * PerSlot

GenerateChassisEndpoints(mp, rack, chassis) ==
    [i \in 1..EndpointCount |->
        IF i = 1 THEN ChassisController(mp, rack, chassis)
        ELSE LET slot == (i - 2) \div PerSlot
                 k    == (i - 2) % PerSlot
             IN  IF k = 0 THEN SwitchCard(mp, rack, chassis, slot)
                 ELSE NodeCard(mp, rack, chassis, slot, k - 1)]
=============================================================================
