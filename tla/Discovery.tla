------------------------------ MODULE Discovery ------------------------------
(***************************************************************************)
(* What MEDS promises of the BMCs, whatever its goroutines do: HSM's       *)
(* record of a BMC and MEDS's view of it.  MEDS changes a record in one    *)
(* way only: it announces the BMC and thereby enables it.  It never sets   *)
(* out to announce one that HSM had enabled when MEDS started, unless an   *)
(* administrator has disabled it since.  It takes a BMC for known only     *)
(* when HSM has a record of it.  It may forget at any time: what it doubts *)
(* it will announce again.  (Records are not deleted here.)                *)
(***************************************************************************)
CONSTANT Name

VARIABLES
    record,      \* what HSM records of each BMC
    view,        \* is it watched, and if so, is it known to be in HSM?
    announcing,  \* the BMCs being announced
    spared       \* enabled when MEDS started, and not disabled since

vars == <<record, view, announcing, spared>>

Record == {"absent", "disabled", "enabled"}
View == {"unwatched", "unknown", "known"}
NothingWatched == [n \in Name |-> "unwatched"]

Init ==
    /\ record \in [Name -> Record]
    /\ view = NothingWatched
    /\ announcing = {} /\ spared = {}

\* MEDS reads HSM before it does anything else.
Start ==
    /\ view = NothingWatched /\ announcing = {}
    /\ spared' = {n \in Name : record[n] = "enabled"}
    /\ UNCHANGED <<record, view, announcing>>

Restart ==
    /\ view' = NothingWatched
    /\ announcing' = {} /\ spared' = {}
    /\ UNCHANGED record

Sees(n, v) ==
    /\ v = "known" => record[n] # "absent"
    /\ view' = [view EXCEPT ![n] = v]
    /\ UNCHANGED <<record, announcing, spared>>

Watch(n) == view[n] = "unwatched" /\ \E v \in View : Sees(n, v)
Unwatch(n) == Sees(n, "unwatched")
Learn(n) == view[n] # "unwatched" /\ Sees(n, "known")
Doubt(n) == view[n] # "unwatched" /\ Sees(n, "unknown")

\* The BMC answers.  A poll may outlive the watch.
Decide(n) ==
    /\ n \notin spared
    /\ announcing' = announcing \cup {n}
    /\ UNCHANGED <<record, view, spared>>

\* Another poll of the BMC, or a retry, may still be announcing it.
Announce(n) ==
    /\ n \in announcing
    /\ record' = [record EXCEPT ![n] = "enabled"]
    /\ announcing' \in {announcing, announcing \ {n}}
    /\ \/ UNCHANGED view
       \/ view[n] # "unwatched" /\ view' = [view EXCEPT ![n] = "known"]
    /\ UNCHANGED spared

GiveUp(n) ==
    /\ announcing' = announcing \ {n}
    /\ UNCHANGED <<record, view, spared>>

AdminDisables(n) ==
    /\ record[n] = "enabled"
    /\ record' = [record EXCEPT ![n] = "disabled"]
    /\ spared' = spared \ {n}
    /\ UNCHANGED <<view, announcing>>

Next ==
    \/ Start \/ Restart
    \/ \E n \in Name :
          \/ Watch(n) \/ Unwatch(n) \/ Learn(n) \/ Doubt(n)
          \/ Decide(n) \/ Announce(n) \/ GiveUp(n)
          \/ AdminDisables(n)

Spec == Init /\ [][Next]_vars
=============================================================================
