--------------------------- MODULE DiscoveryProofs ---------------------------
(***************************************************************************)
(* What Discovery promises, of which it only says step by step how it      *)
(* comes about.  MedsDiscoveryProofs shows that Meds implements Discovery, *)
(* so all of this holds of MEDS, with hsm for record and knownAtBoot for   *)
(* spared.                                                                 *)
(***************************************************************************)
EXTENDS Discovery, TLAPS

TypeOK ==
    /\ record \in [Name -> Record]
    /\ view \in [Name -> View]
    /\ announcing \in SUBSET Name
    /\ spared \in SUBSET Name

\* What is taken for known has a record.
KnownHasRecord == \A n \in Name : view[n] = "known" => record[n] # "absent"

\* What was enabled at the start, and was not disabled since, is enabled still,
\* and nobody is about to announce it.
SparedLeftAlone == \A n \in spared : record[n] = "enabled" /\ n \notin announcing

\* A record appears or is enabled by an announcement only, and is never lost or
\* disabled but by an administrator.
RecordsOnlyAnnounced ==
    [][ \A n \in Name : record'[n] # record[n] =>
          \/ n \in announcing \ spared /\ record'[n] = "enabled"
          \/ record[n] = "enabled" /\ record'[n] = "disabled" /\ n \notin spared' ]_vars

Inv == TypeOK /\ KnownHasRecord /\ SparedLeftAlone

\* The invariant holds at the beginning.
LEMMA InvInit == Init => Inv
BY DEF Init, Inv, TypeOK, KnownHasRecord, SparedLeftAlone, NothingWatched, View

\* Every step preserves it.
LEMMA InvNext == ASSUME Inv, [Next]_vars PROVE Inv'
<1> USE DEF Inv, TypeOK, KnownHasRecord, SparedLeftAlone
<1>1. CASE Start
  BY <1>1 DEF Start
<1>2. CASE Restart
  BY <1>2 DEF Restart, NothingWatched, View
<1>3. ASSUME NEW n \in Name, Watch(n) \/ Unwatch(n) \/ Learn(n) \/ Doubt(n) PROVE Inv'
  BY <1>3 DEF Watch, Unwatch, Learn, Doubt, Sees, View
<1>4. ASSUME NEW n \in Name, Decide(n) \/ GiveUp(n) PROVE Inv'
  BY <1>4 DEF Decide, GiveUp
<1>5. ASSUME NEW n \in Name, Announce(n) PROVE Inv'
  BY <1>5 DEF Announce, Record, View
<1>6. ASSUME NEW n \in Name, AdminDisables(n) PROVE Inv'
  BY <1>6 DEF AdminDisables, Record
<1>7. CASE UNCHANGED vars
  BY <1>7 DEF vars
<1> QED
  BY <1>1, <1>2, <1>3, <1>4, <1>5, <1>6, <1>7 DEF Next

\* The invariant of Discovery.
LEMMA Invariant == Spec => []Inv
BY InvInit, InvNext, PTL DEF Spec

\* A BMC is taken for known only when HSM has a record of it.
THEOREM KnownHasRecordHolds == Spec => []KnownHasRecord
<1>1. Inv => KnownHasRecord
  BY DEF Inv
<1> QED
  BY <1>1, Invariant, PTL

\* A BMC that was enabled when MEDS started is left alone until an administrator
\* disables it.
THEOREM SparedLeftAloneHolds == Spec => []SparedLeftAlone
<1>1. Inv => SparedLeftAlone
  BY DEF Inv
<1> QED
  BY <1>1, Invariant, PTL

\* MEDS only ever enables records, those it announces, and none that it found
\* enabled at the start.
THEOREM RecordsOnlyAnnouncedHolds == Spec => RecordsOnlyAnnounced
<1> DEFINE Changes ==
       \A n \in Name : record'[n] # record[n] =>
          \/ n \in announcing \ spared /\ record'[n] = "enabled"
          \/ record[n] = "enabled" /\ record'[n] = "disabled" /\ n \notin spared'
<1>1. ASSUME Inv, Next PROVE Changes
  <2>1. CASE UNCHANGED record
    BY <2>1
  <2>2. ASSUME NEW n \in Name, Announce(n) PROVE Changes
    BY <1>1, <2>2 DEF Announce, Inv, TypeOK, SparedLeftAlone
  <2>3. ASSUME NEW n \in Name, AdminDisables(n) PROVE Changes
    BY <1>1, <2>3 DEF AdminDisables, Inv, TypeOK
  <2> QED
    BY <1>1, <2>1, <2>2, <2>3 DEF Next, Start, Restart, Watch, Unwatch, Learn, Doubt, Sees, Decide, GiveUp
<1>2. Inv /\ [Next]_vars => [Changes]_vars
  BY <1>1
<1> HIDE DEF Changes
<1>3. Spec => [][Changes]_vars
  BY <1>2, Invariant, PTL DEF Spec
<1> QED
  BY <1>3 DEF Changes, RecordsOnlyAnnounced
=============================================================================
