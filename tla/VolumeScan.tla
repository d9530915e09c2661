------------------------------ MODULE VolumeScan ------------------------------
(***************************************************************************)
(* What a listing of the volumes promises while volumes come and go: it    *)
(* is no snapshot, but every volume is looked at exactly once, at some     *)
(* moment between the start and the end, and is reported as it was then.   *)
(***************************************************************************)
EXTENDS Sequences

CONSTANTS Volumes, None

VARIABLES
  entry,    \* entry[v]: how v would be reported now; None if there is no v
  status,   \* "idle", "listing", "done", "aborted"
  passed,   \* the volumes looked at by now
  found     \* found[v]: the reports of v, at most one

Init ==
  /\ entry = [v \in Volumes |-> None]
  /\ status = "idle" /\ passed = {} /\ found = [v \in Volumes |-> <<>>]

Begin ==
  /\ status # "listing" /\ status' = "listing"
  /\ passed' = {} /\ found' = [v \in Volumes |-> <<>>]
  /\ UNCHANGED entry

Pass(S) ==
  /\ status = "listing"
  /\ S \subseteq Volumes \ passed
  /\ passed' = passed \cup S
  /\ found' = [v \in Volumes |->
                 IF v \in S /\ entry[v] # None THEN <<entry[v]>> ELSE found[v]]
  /\ UNCHANGED <<entry, status>>

End ==
  /\ status = "listing" /\ passed = Volumes
  /\ status' = "done"
  /\ UNCHANGED <<entry, passed, found>>

Abort ==
  /\ status = "listing" /\ status' = "aborted"
  /\ UNCHANGED <<entry, passed, found>>

Change == entry' # entry /\ UNCHANGED <<status, passed, found>>

Next == Begin \/ (\E S \in SUBSET Volumes : Pass(S)) \/ End \/ Abort \/ Change

Spec == Init /\ [][Next]_<<entry, status, passed, found>>
===============================================================================
