------------------------- MODULE ChassisInitProofs -------------------------
(***************************************************************************)
(* MAC addresses tell the endpoints of all chassis apart, and therefore    *)
(* init_chassis makes and keeps HSM's interfaces right.  The invariant:    *)
(* what main found right in HSM's answer is right still, and so are the    *)
(* endpoints it has been past.                                             *)
(***************************************************************************)
EXTENDS ChassisInit, TLAPS

(***************************************************************************)
(* The parts of a MAC address determine what it was made from.  The parts  *)
(* of a cabinet number have names of their own so that the steps that only *)
(* combine them need no arithmetic.                                        *)
(***************************************************************************)
Octet == 0..255
Index == 0..15
Times256(h) == 256 * h
Join(h, l) == Times256(h) + l
High(r) == r \div 256
Low(r) == r % 256

\* The high part of a 16-bit number is an octet.
LEMMA JoinBound == \A h \in Int, l \in Octet : Join(h, l) \in Rack => h \in Octet
<1> DEFINE Eight(x) == 0 <= x /\ x <= 255
           Sixteen(x) == 0 <= x /\ x <= 65535
           Between(x) == x > -256 /\ x < 65536
<1>1. \A l \in Octet : l \in Int /\ Eight(l)
  BY DEF Octet
<1>2. \A r \in Rack : Sixteen(r)
  BY DEF Rack
<1>3. \A t \in Int, l \in Int : Eight(l) /\ Sixteen(t + l) => Between(t)
  OBVIOUS
<1>4. \A h \in Int : Times256(h) \in Int
  BY DEF Times256
<1>5. \A h \in Int : Between(Times256(h)) => h \in Octet
  BY DEF Times256, Octet
<1> HIDE DEF Eight, Sixteen, Between
<1> QED
  BY <1>1, <1>2, <1>3, <1>4, <1>5, Zenon DEF Join

\* A cabinet number is what its two parts join to.
LEMMA SplitRack ==
    \A r \in Rack : High(r) \in Int /\ Low(r) \in Octet /\ r = Join(High(r), Low(r))
BY DEF Rack, Octet, Join, Times256, High, Low

\* Taking the low octet of an octet changes nothing.
LEMMA OctetItself == \A x \in Octet : Low(x) = x
BY DEF Octet, Low

\* The two octets GenerateMAC makes of a cabinet number determine it.
LEMMA RackFromOctets ==
    \A r1, r2 \in Rack : Low(High(r1)) = Low(High(r2)) /\ Low(r1) = Low(r2) => r1 = r2
<1>1. \A r \in Rack : Low(High(r)) = High(r) /\ r = Join(High(r), Low(r))
  BY JoinBound, SplitRack, OctetItself, Zenon
<1> QED
  BY <1>1, Zenon

\* The other octets determine the chassis number, the slot and the index.
LEMMA OctetFromNumber ==
    /\ \A x, y \in 0..255 : x % 256 = y % 256 => x = y
    /\ \A x, y \in 0..15 : (x * 16) % 256 = (y * 16) % 256 => x = y
OBVIOUS

(***************************************************************************)
(* Every generated endpoint is a MAC address of the form GenerateMAC, with *)
(* a slot octet that also tells what kind of endpoint it is.               *)
(***************************************************************************)
Kind(slt) == IF slt = 0 THEN "c" ELSE IF slt < 96 THEN "s" ELSE "r"
CardOf(slt) == IF slt = 0 THEN 0 ELSE IF slt < 96 THEN slt - 48 ELSE slt - 96

\* The i-th endpoint GenerateChassisEndpoints returns.
LEMMA EndpointForm ==
    ASSUME NEW mp, NEW r \in Rack, NEW c \in ChassisNumber, NEW i \in Position
    PROVE  \E s \in Octet, k \in Index :
              GenerateChassisEndpoints(mp, r, c)[i] =
                 [name |-> <<Kind(s), r, c, CardOf(s), k>>, mac |-> GenerateMAC(mp, r, c, s, k)]
<1> DEFINE slot == (i - 2) \div PerSlot
           k == (i - 2) % PerSlot
<1>1. CASE i = 1
  <2>1. GenerateChassisEndpoints(mp, r, c)[i] =
          [name |-> <<Kind(0), r, c, CardOf(0), 0>>, mac |-> GenerateMAC(mp, r, c, 0, 0)]
    BY <1>1 DEF GenerateChassisEndpoints, ChassisController, GenerateMACcC, Kind, CardOf, Position
  <2>2. 0 \in Octet /\ 0 \in Index
    BY DEF Octet, Index
  <2> QED
    BY <2>1, <2>2
<1>2. CASE i # 1
  <2>1. PerSlot \in 2..17 /\ i - 2 \in 0..(MTN_SWITCH_COUNT * PerSlot - 1)
    BY <1>2, HardwareAssumption DEF Position, EndpointCount, PerSlot
  <2>2. slot \in 0..(MTN_SWITCH_COUNT - 1) /\ k \in 0..MTN_nC_PER_SLOT
    BY <2>1, HardwareAssumption DEF PerSlot
  <2>3. CASE k = 0
    <3>1. GenerateChassisEndpoints(mp, r, c)[i] = SwitchCard(mp, r, c, slot)
      BY <1>2, <2>3 DEF GenerateChassisEndpoints, Position
    <3>2. slot + 96 \in 96..143
      BY <2>2, HardwareAssumption
    <3>3. Kind(slot + 96) = "r" /\ CardOf(slot + 96) = slot
      BY <3>2, <2>2, HardwareAssumption DEF Kind, CardOf
    <3>4. SwitchCard(mp, r, c, slot) =
            [name |-> <<Kind(slot + 96), r, c, CardOf(slot + 96), 0>>,
             mac |-> GenerateMAC(mp, r, c, slot + 96, 0)]
      BY <3>3 DEF SwitchCard, GenerateMACsC
    <3>5. slot + 96 \in Octet /\ 0 \in Index
      BY <3>2 DEF Octet, Index
    <3> HIDE DEF slot, k
    <3> QED
      BY <3>1, <3>4, <3>5, Zenon
  <2>4. CASE k # 0
    <3>1. GenerateChassisEndpoints(mp, r, c)[i] = NodeCard(mp, r, c, slot, k - 1)
      BY <1>2, <2>4 DEF GenerateChassisEndpoints, Position
    <3>2. slot + 48 \in 48..95 /\ k - 1 \in 0..15
      BY <2>2, <2>4, HardwareAssumption
    <3>3. Kind(slot + 48) = "s" /\ CardOf(slot + 48) = slot
      BY <3>2, <2>2, HardwareAssumption DEF Kind, CardOf
    <3>4. NodeCard(mp, r, c, slot, k - 1) =
            [name |-> <<Kind(slot + 48), r, c, CardOf(slot + 48), k - 1>>,
             mac |-> GenerateMAC(mp, r, c, slot + 48, k - 1)]
      BY <3>3 DEF NodeCard, GenerateMACnC
    <3>5. slot + 48 \in Octet /\ k - 1 \in Index
      BY <3>2 DEF Octet, Index
    <3> HIDE DEF slot, k
    <3> QED
      BY <3>1, <3>4, <3>5, Zenon
  <2> QED
    BY <2>3, <2>4
<1> QED
  BY <1>1, <1>2

\* Two endpoints of any chassis of any cabinets, with whatever prefixes, that
\* have the same MAC address are the same endpoint: the algorithm of
\* GenerateMAC never gives one address to two BMCs.
THEOREM MACIdentifiesEndpoint ==
    ASSUME NEW mp1, NEW mp2, NEW r1 \in Rack, NEW r2 \in Rack,
           NEW c1 \in ChassisNumber, NEW c2 \in ChassisNumber,
           NEW i \in Position, NEW j \in Position,
           GenerateChassisEndpoints(mp1, r1, c1)[i].mac = GenerateChassisEndpoints(mp2, r2, c2)[j].mac
    PROVE  GenerateChassisEndpoints(mp1, r1, c1)[i].name = GenerateChassisEndpoints(mp2, r2, c2)[j].name
<1>1. PICK s1 \in Octet, k1 \in Index :
         GenerateChassisEndpoints(mp1, r1, c1)[i] =
            [name |-> <<Kind(s1), r1, c1, CardOf(s1), k1>>, mac |-> GenerateMAC(mp1, r1, c1, s1, k1)]
  BY EndpointForm
<1>2. PICK s2 \in Octet, k2 \in Index :
         GenerateChassisEndpoints(mp2, r2, c2)[j] =
            [name |-> <<Kind(s2), r2, c2, CardOf(s2), k2>>, mac |-> GenerateMAC(mp2, r2, c2, s2, k2)]
  BY EndpointForm
<1>3. GenerateMAC(mp1, r1, c1, s1, k1) = GenerateMAC(mp2, r2, c2, s2, k2)
  BY <1>1, <1>2
<1>4. /\ Low(High(r1)) = Low(High(r2)) /\ Low(r1) = Low(r2)
      /\ c1 % 256 = c2 % 256 /\ s1 % 256 = s2 % 256 /\ (k1 * 16) % 256 = (k2 * 16) % 256
  BY <1>3 DEF GenerateMAC, Low, High
<1>5. r1 = r2
  BY <1>4, RackFromOctets, Zenon
<1>6. c1 = c2 /\ s1 = s2 /\ k1 = k2
  BY <1>4, OctetFromNumber DEF ChassisNumber, Octet, Index
<1> QED
  BY <1>1, <1>2, <1>5, <1>6

(***************************************************************************)
(* The system.                                                             *)
(***************************************************************************)
MacOf(c, i) == EndpointsOf(c)[i].mac
NameOf(c, i) == EndpointsOf(c)[i].name
RightIn(f, c, i) == f[MacOf(c, i)] = NameOf(c, i)

\* The numbers of a chassis have the ranges the octets have room for.
LEMMA ChassisNumbers == \A c \in Chassis : c[1] \in Rack /\ c[2] \in ChassisNumber
BY ChassisAssumption DEF Chassis

\* The octet ranges hold for every chassis, so MACIdentifiesEndpoint applies.
LEMMA MacTellsName ==
    ASSUME NEW c \in Chassis, NEW d \in Chassis, NEW i \in Position, NEW j \in Position,
           MacOf(c, i) = MacOf(d, j)
    PROVE  NameOf(c, i) = NameOf(d, j)
<1>1. c[1] \in Rack /\ c[2] \in ChassisNumber /\ d[1] \in Rack /\ d[2] \in ChassisNumber
  BY ChassisNumbers
<1>2. GenerateChassisEndpoints(MACPrefix[c], c[1], c[2])[i].mac
        = GenerateChassisEndpoints(MACPrefix[d], d[1], d[2])[j].mac
  BY Zenon DEF MacOf, EndpointsOf
<1>3. GenerateChassisEndpoints(MACPrefix[c], c[1], c[2])[i].name
        = GenerateChassisEndpoints(MACPrefix[d], d[1], d[2])[j].name
  BY <1>1, <1>2, MACIdentifiesEndpoint
<1> QED
  BY <1>3, Zenon DEF NameOf, EndpointsOf

\* The MAC address and the name of an endpoint are among those HSM may hold.
LEMMA MacIsMac == \A c \in Chassis, i \in Position : MacOf(c, i) \in MAC /\ NameOf(c, i) \in CompID
BY DEF MacOf, NameOf, MAC, CompID

\* A missing interface is not taken for one that maps to an endpoint.
LEMMA NoInterfaceIsNoName ==
    \A c \in Chassis, i \in Position : NameOf(c, i) # NoInterface
<1> TAKE c \in Chassis, i \in Position
<1> DEFINE e == GenerateChassisEndpoints(MACPrefix[c], c[1], c[2])[i]
<1>1. c[1] \in Rack /\ c[2] \in ChassisNumber
  BY ChassisNumbers
<1>2. PICK s \in Octet, k \in Index :
         e = [name |-> <<Kind(s), c[1], c[2], CardOf(s), k>>,
              mac |-> GenerateMAC(MACPrefix[c], c[1], c[2], s, k)]
  BY <1>1, EndpointForm, Zenon
<1> HIDE DEF e
<1>3. e.name[1] = Kind(s)
  BY <1>2
<1>4. NameOf(c, i) = e.name
  BY Zenon DEF NameOf, EndpointsOf, e
<1>5. Kind(s) # "none" /\ NoInterface[1] = "none"
  BY DEF Kind, NoInterface
<1> QED
  BY <1>3, <1>4, <1>5

\* The positions are those of a finite loop.
LEMMA PositionNat == EndpointCount \in Nat /\ Position = {i \in Nat : 1 <= i /\ i <= EndpointCount}
BY HardwareAssumption DEF Position, EndpointCount, PerSlot

\* What main has in hand when it is in init_chassis.
InHand ==
    /\ cur = Nil => pos = 1
    /\ cur # Nil =>
        /\ \A c \in Chassis : \A i \in Position : RightIn(found, c, i) => RightIn(ethernet, c, i)
        /\ \A i \in Position : i < pos => RightIn(ethernet, cur, i)

ActiveRight == \A c \in active : \A i \in Position : RightIn(ethernet, c, i)

IndInv == TypeOK /\ InHand /\ ActiveRight

\* What is right stays right.
Kept == \A c \in Chassis : \A i \in Position : RightIn(ethernet, c, i) => RightIn(ethernet', c, i)

\* A write of the endpoint main is at makes it right and harms no other.
LEMMA WriteKeeps ==
    ASSUME TypeOK, AtEndpoint, ethernet' = [ethernet EXCEPT ![ep.mac] = ep.name]
    PROVE  Kept /\ RightIn(ethernet', cur, pos)
<1>1. cur \in Chassis /\ pos \in Position
  BY DEF AtEndpoint, TypeOK
<1>2. ep.mac = MacOf(cur, pos) /\ ep.name = NameOf(cur, pos)
  BY DEF ep, MacOf, NameOf
<1>3. ethernet' = [ethernet EXCEPT ![MacOf(cur, pos)] = NameOf(cur, pos)]
  BY <1>2
<1>4. \A m \in MAC : ethernet'[m] = IF m = MacOf(cur, pos) THEN NameOf(cur, pos) ELSE ethernet[m]
  BY <1>3 DEF TypeOK
<1>5. ASSUME NEW c \in Chassis, NEW i \in Position, RightIn(ethernet, c, i)
      PROVE  RightIn(ethernet', c, i)
  BY <1>1, <1>4, <1>5, MacTellsName, MacIsMac DEF RightIn
<1> QED
  BY <1>1, <1>4, <1>5, MacIsMac DEF Kept, RightIn

\* Such a write keeps the type of HSM's interfaces.
LEMMA WriteTyped ==
    ASSUME TypeOK, AtEndpoint, ethernet' = [ethernet EXCEPT ![ep.mac] = ep.name]
    PROVE  ethernet' \in [MAC -> Interface]
<1>1. cur \in Chassis /\ pos \in Position
  BY DEF AtEndpoint, TypeOK
<1>2. ep.name \in Interface
  BY <1>1, MacIsMac DEF ep, NameOf, Interface
<1> QED
  BY <1>2 DEF TypeOK

\* The invariant holds before init_chassis was ever called.
THEOREM InitIndInv == Init => IndInv
<1> SUFFICES ASSUME Init PROVE IndInv
  OBVIOUS
<1>1. NothingFound \in [MAC -> Interface] /\ [m \in MAC |-> Stranger] \in [MAC -> Interface]
  BY DEF NothingFound, Interface
<1>2. TypeOK
  BY <1>1, PositionNat, ChassisAssumption DEF Init, TypeOK
<1>3. InHand /\ ActiveRight
  BY DEF Init, InHand, ActiveRight
<1> QED
  BY <1>2, <1>3 DEF IndInv

\* No step takes an interface away from its endpoint.
LEMMA StepKeeps == ASSUME IndInv, [Next]_vars PROVE Kept
<1> USE DEF IndInv
<1>1. CASE UNCHANGED ethernet
  BY <1>1 DEF Kept, RightIn
<1>2. CASE AtEndpoint /\ ethernet' = [ethernet EXCEPT ![ep.mac] = ep.name]
  BY <1>2, WriteKeeps
<1>3. ASSUME NEW m \in MAC, StrangerAdds(m)
      PROVE  Kept
  <2>1. ethernet[m] = NoInterface /\ \A x \in MAC \ {m} : ethernet'[x] = ethernet[x]
    BY <1>3 DEF StrangerAdds, TypeOK
  <2> QED
    BY <2>1, MacIsMac, NoInterfaceIsNoName DEF Kept, RightIn
<1> QED
  BY <1>1, <1>2, <1>3
     DEF Next, InitSteps, Begin, BeginFails, Removed, NothingNew, Rejected, AlreadyPresent, Patch, Add,
         WriteFails, Verify, Watch, Sync, Crash, vars

\* Every step of init_chassis, of the sync and of the environment keeps the types.
LEMMA StepTypes == ASSUME TypeOK, [Next]_vars PROVE TypeOK'
<1> USE DEF TypeOK
<1>1. ASSUME NEW c \in Chassis, Begin(c) PROVE TypeOK'
  BY <1>1 DEF Begin
<1>2. ASSUME NEW c \in Chassis, BeginFails(c) PROVE TypeOK'
  BY <1>2, ChassisAssumption DEF BeginFails, Happens
<1>3. ASSUME NEW c \in Chassis, Removed(c) PROVE TypeOK'
  BY <1>3, ChassisAssumption DEF Removed, Happens
<1>4. CASE AlreadyPresent
  BY <1>4, PositionNat DEF AlreadyPresent, AtEndpoint
<1>5. CASE Patch
  <2>1. ethernet' \in [MAC -> Interface]
    BY <1>5, WriteTyped DEF Patch
  <2> QED
    BY <1>5, <2>1, PositionNat DEF Patch, AtEndpoint
<1>6. CASE Add
  <2>1. ethernet' \in [MAC -> Interface]
    BY <1>6, WriteTyped DEF Add
  <2> QED
    BY <1>6, <2>1, PositionNat DEF Add, AtEndpoint
<1>7. CASE WriteFails
  <2>1. ethernet' \in [MAC -> Interface]
    BY <1>7, WriteTyped DEF WriteFails
  <2>2. found' \in [MAC -> Interface] /\ pos' \in 1..EndpointCount + 2
    BY <1>7, PositionNat DEF WriteFails, Leave, NothingFound, Interface
  <2> QED
    BY <1>7, <2>1, <2>2, ChassisAssumption DEF WriteFails, Leave, Happens
<1>8. CASE Verify
  <2>1. fqdn' \in [Chassis -> FQDN]
    BY <1>8 DEF Verify, patchXnameFQDN, FQDN
  <2> QED
    BY <1>8, <2>1, PositionNat, ChassisAssumption DEF Verify, patchXnameFQDN, Happens
<1>9. CASE Watch \/ Crash
  <2>1. found' \in [MAC -> Interface] /\ pos' \in 1..EndpointCount + 2
    BY <1>9, PositionNat DEF Watch, Crash, Leave, NothingFound, Interface
  <2> QED
    BY <1>9, <2>1, ChassisAssumption DEF Watch, Crash, Leave, Happens
<1>10. ASSUME NEW m \in MAC, StrangerAdds(m) PROVE TypeOK'
  BY <1>10, ChassisAssumption DEF StrangerAdds, Happens, Interface
<1>11. CASE Sync
  BY <1>11 DEF Sync
<1>12. CASE UNCHANGED vars
  BY <1>12 DEF vars
<1> QED
  BY <1>1, <1>2, <1>3, <1>4, <1>5, <1>6, <1>7, <1>8, <1>9, <1>10, <1>11, <1>12
     DEF Next, InitSteps, NothingNew, Rejected

\* ... and what main has in hand: a failure drops it, a write extends it.
LEMMA StepInHand == ASSUME IndInv, [Next]_vars PROVE InHand'
<1> USE DEF IndInv
<1>1. Kept
  BY StepKeeps
<1>2. TypeOK'
  BY StepTypes
<1>3. CASE Leave
  BY <1>3 DEF Leave, InHand
<1>4. CASE UNCHANGED <<cur, pos, found>>
  BY <1>1, <1>4 DEF InHand, Kept, RightIn, TypeOK
<1>5. ASSUME NEW c \in Chassis, Begin(c) PROVE InHand'
  <2>1. pos' = 1 /\ found' = ethernet' /\ cur' # Nil
    BY <1>5, ChassisAssumption DEF Begin, InHand, Chassis
  <2>2. \A i \in Position : ~(i < 1)
    BY PositionNat
  <2> QED
    BY <2>1, <2>2 DEF InHand, RightIn
<1>6. CASE AlreadyPresent \/ Patch \/ Add \/ Verify
  <2>1. cur # Nil /\ cur \in Chassis /\ UNCHANGED <<cur, found>> /\ pos' = pos + 1
    BY <1>6 DEF AlreadyPresent, Patch, Add, Verify, AtEndpoint, TypeOK
  <2>2. pos \in Position => RightIn(ethernet', cur, pos)
    <3>1. CASE AlreadyPresent
      <4>1. RightIn(found, cur, pos) /\ pos \in Position
        BY <3>1 DEF AlreadyPresent, AtEndpoint, RightIn, ep, MacOf, NameOf
      <4> QED
        BY <4>1, <2>1, <1>1 DEF InHand, Kept
    <3>2. CASE Patch \/ Add
      BY <3>2, WriteKeeps DEF Patch, Add
    <3>3. CASE Verify
      BY <3>3, PositionNat DEF Verify
    <3> QED
      BY <1>6, <3>1, <3>2, <3>3
  <2>3. \A i \in Position : i < pos + 1 => i < pos \/ i = pos
    BY PositionNat DEF TypeOK
  <2>4. \A i \in Position : i < pos' => RightIn(ethernet', cur, i)
    BY <2>1, <2>2, <2>3, <1>1 DEF InHand, Kept
  <2>5. \A c \in Chassis : \A i \in Position : RightIn(found', c, i) => RightIn(ethernet', c, i)
    BY <2>1, <1>1 DEF InHand, Kept, RightIn
  <2> QED
    BY <2>1, <2>4, <2>5 DEF InHand, RightIn
<1> QED
  BY <1>3, <1>4, <1>5, <1>6
     DEF Next, InitSteps, BeginFails, Removed, NothingNew, Rejected, WriteFails, Watch, Sync, Crash,
         StrangerAdds, vars

\* ... and a chassis is only entered when all of its endpoints are right.
LEMMA StepActive == ASSUME IndInv, [Next]_vars PROVE ActiveRight'
<1> USE DEF IndInv
<1>1. Kept
  BY StepKeeps
<1>2. CASE active' \subseteq active
  BY <1>1, <1>2 DEF ActiveRight, Kept, RightIn, TypeOK
<1>3. CASE Watch
  <2>1. cur # Nil /\ pos = EndpointCount + 2 /\ active' = active \cup {cur} /\ ethernet' = ethernet
    BY <1>3 DEF Watch
  <2>2. \A i \in Position : i < pos
    BY <2>1, PositionNat
  <2> QED
    BY <2>1, <2>2 DEF ActiveRight, InHand, RightIn
<1> QED
  BY <1>2, <1>3
     DEF Next, InitSteps, Begin, BeginFails, Removed, NothingNew, Rejected, AlreadyPresent, Patch, Add,
         WriteFails, Verify, Sync, Crash, StrangerAdds, vars

\* The invariant of init_chassis and its environment.
THEOREM IndInvHolds == Spec => []IndInv
<1>1. IndInv /\ [Next]_vars => IndInv'
  BY StepTypes, StepInHand, StepActive DEF IndInv
<1> QED
  BY InitIndInv, <1>1, PTL DEF Spec

\* Every BMC MEDS watches has its MAC address mapped to its xname in HSM, for
\* any set of chassis, prefixes and hardware dimensions the octets have room
\* for, and however often init_chassis failed half way.
THEOREM InterfacesRightHolds == Spec => []InterfacesRight
<1>1. IndInv => InterfacesRight
  BY DEF IndInv, ActiveRight, InterfacesRight, RightIn, MacOf, NameOf
<1> QED
  BY IndInvHolds, <1>1, PTL

\* The variables of init_chassis have their types.
THEOREM ChassisTypes == Spec => []TypeOK
<1>1. IndInv => TypeOK
  BY DEF IndInv
<1> QED
  BY IndInvHolds, <1>1, PTL

\* No step takes a MAC address away from the endpoint that has it.
THEOREM OwnerKeptHolds == Spec => OwnerKept
<1> DEFINE Keeps == \A c \in Chassis : \A i \in Position :
                      LET e == EndpointsOf(c)[i]
                      IN  ethernet[e.mac] = e.name => ethernet'[e.mac] = e.name
<1>1. IndInv /\ [Next]_vars => [Keeps]_vars
  BY StepKeeps DEF Kept, RightIn, MacOf, NameOf
<1> HIDE DEF Keeps
<1>2. Spec => [][Keeps]_vars
  BY IndInvHolds, <1>1, PTL DEF Spec
<1> QED
  BY <1>2 DEF Keeps, OwnerKept

(***************************************************************************)
(* The FQDN of the chassis controller, as long as the PATCH that corrects  *)
(* it does not fail: init_chassis does not look at the error, and the run  *)
(* fqdn_failure shows what comes of it.  Nobody but MEDS writes the FQDN,  *)
(* so the cache, however old, is wrong only about what MEDS has corrected  *)
(* since.                                                                  *)
(***************************************************************************)
CacheSound ==
    \A c \in Chassis :
        /\ cache[c] = "absent" <=> fqdn[c] = "absent"
        /\ cache[c] = "right" => fqdn[c] = "right"

Verified ==
    /\ \A c \in active : fqdn[c] # "wrong"
    /\ cur # Nil /\ pos = EndpointCount + 2 => fqdn[cur] # "wrong"

FqdnInv == CacheSound /\ Verified

\* The verification leaves the FQDN of its chassis right, or there is none, and
\* does not touch that of another chassis.
LEMMA VerifyCorrects ==
    ASSUME "fqdnFail" \notin Hazards, TypeOK, CacheSound, Verify
    PROVE  /\ cur \in Chassis /\ fqdn'[cur] # "wrong"
           /\ \A c \in Chassis : fqdn'[c] = fqdn[c] \/ (fqdn[c] = "wrong" /\ fqdn'[c] = "right")
<1>1. cur \in Chassis
  BY DEF Verify, TypeOK
<1>2. CASE cache[cur] = "wrong"
  <2>1. fqdn' = [fqdn EXCEPT ![cur] = "right"]
    BY <1>2 DEF Verify, patchXnameFQDN, Happens
  <2> QED
    BY <1>1, <1>2, <2>1 DEF TypeOK, CacheSound, FQDN
<1>3. CASE cache[cur] # "wrong"
  BY <1>1, <1>3 DEF Verify, TypeOK, CacheSound, FQDN
<1> QED
  BY <1>2, <1>3

\* Every step keeps the cache sound and the verified FQDNs right.
LEMMA FqdnStep ==
    ASSUME "fqdnFail" \notin Hazards, IndInv, FqdnInv, [Next]_vars PROVE FqdnInv'
<1> USE DEF IndInv, TypeOK, FqdnInv, CacheSound, Verified
<1>0. EndpointCount \in Nat
  BY PositionNat
<1>1. ASSUME NEW c \in Chassis, Begin(c) PROVE FqdnInv'
  <2>1. pos' = 1 /\ UNCHANGED <<cache, fqdn, active>>
    BY <1>1 DEF Begin, IndInv, InHand
  <2>2. pos' # EndpointCount + 2
    BY <1>0, <2>1
  <2> QED
    BY <2>1, <2>2
<1>2. CASE AlreadyPresent \/ Patch \/ Add
  <2>1. pos' # EndpointCount + 2 /\ UNCHANGED <<cache, fqdn, active>>
    BY <1>0, <1>2, PositionNat DEF AlreadyPresent, Patch, Add, AtEndpoint
  <2> QED
    BY <2>1
<1>3. CASE Verify
  BY <1>3, VerifyCorrects DEF Verify
<1>4. CASE Watch
  <2>1. cur \in Chassis /\ fqdn[cur] # "wrong" /\ cur' = Nil
    BY <1>4 DEF Watch, Leave
  <2> QED
    BY <1>4, <2>1 DEF Watch
<1>5. CASE WriteFails
  BY <1>5 DEF WriteFails, Leave
<1>6. CASE Sync
  BY <1>6 DEF Sync
<1>7. CASE Crash
  BY <1>7 DEF Crash, Leave
<1>8. ASSUME NEW c \in Chassis, Removed(c) PROVE FqdnInv'
  BY <1>8 DEF Removed
<1>9. CASE UNCHANGED <<cache, fqdn, active, cur, pos>>
  BY <1>9
<1> QED
  BY <1>1, <1>2, <1>3, <1>4, <1>5, <1>6, <1>7, <1>8, <1>9
     DEF Next, InitSteps, BeginFails, NothingNew, Rejected, StrangerAdds, vars

\* Once a chassis is watched, the FQDN HSM records for its controller is right if
\* the sync found one: the cache is replaced behind main's back, but never by
\* something that makes the verification look away from a wrong FQDN.
THEOREM FqdnRightHolds == ASSUME "fqdnFail" \notin Hazards PROVE Spec => []FqdnRight
<1>1. Init => FqdnInv
  BY DEF Init, FqdnInv, CacheSound, Verified
<1>2. IndInv /\ FqdnInv /\ [Next]_vars => FqdnInv'
  BY FqdnStep
<1>3. IndInv /\ FqdnInv => FqdnRight
  BY DEF IndInv, TypeOK, FqdnInv, CacheSound, Verified, FqdnRight, FQDN
<1> QED
  BY <1>1, <1>2, <1>3, IndInvHolds, PTL DEF Spec
=============================================================================
