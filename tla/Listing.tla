-------------------------------- MODULE Listing --------------------------------
(***************************************************************************)
(* ListVolumes (src/controller.rs) page by page, while other handlers      *)
(* change the store.                                                       *)
(*                                                                         *)
(* A page is one request to the API server, which answers with all         *)
(* ConfigMaps there are at that moment; the handler sorts them by name and *)
(* cuts the page out.  It keeps nothing from one page to the next: the     *)
(* token is the name of the last volume of the page.  The CO asks for      *)
(* page after page, starts anew when a page is Aborted, and asks again for *)
(* a page that failed.                                                     *)
(*                                                                         *)
(* Names are numbers here: only their order matters.  The store may change *)
(* in every way that VolumeStore has.                                      *)
(***************************************************************************)
EXTENDS VolumeStore, Sequences, FiniteSets

CONSTANTS
  Records,      \* what the other handlers write
  MaxEntries    \* max_entries of requests; 0 is no limit

ASSUME ListingAssumption ==
  /\ Volumes \subseteq Nat
  /\ Records \subseteq Volume
  /\ MaxEntries \subseteq Nat

VARIABLES
  task,         \* the ListVolumes handler
  listing,      \* what the CO has of the present listing
  stable        \* history: the volumes that were there all through the listing

coVars == <<listing, stable>>
vars == <<store, task, coVars>>

\* Mutant: another field of the record is taken for the node.
DeviceEntry(v) ==
  [capacity_bytes |-> store[v].size, node |-> store[v].loop_device,
   published_node_ids |-> {}]

(* How a listing reports a volume that exists.  A node publication without *)
(* a node is reported for the node with the empty name (None).             *)
Entry(v) ==
  LET r == store[v]
  IN  [capacity_bytes |-> r.size,
       node |-> r.assigned_node_id,
       published_node_ids |->
         IF r.state = "NodePublished" THEN {r.assigned_node_id} ELSE {}]

Entries ==
  [capacity_bytes: Nat, node: Nodes \cup {None},
   published_node_ids: SUBSET (Nodes \cup {None})]

ASSUME NoEntryAssumption == None \notin Entries

(* The entries of an answer: for each volume its entry, or None.           *)
NoEntries == [v \in Volumes |-> None]

Task ==
  [pc: {"idle", "list", "reply"}, starting_token: Volumes \cup {None}, max_entries: Nat,
   entries: [Volumes -> Entries \cup {None}], next_token: Volumes \cup {None},
   code: {None, "OK", "Aborted", "Internal"}]

NoTask == [pc |-> "idle", starting_token |-> None, max_entries |-> 0,
           entries |-> NoEntries, next_token |-> None, code |-> None]

Status == {"idle", "listing", "done", "aborted"}

Init ==
  /\ StoreInit
  /\ task = NoTask
  /\ listing = [status |-> "idle", token |-> None, listed |-> [v \in Volumes |-> <<>>]]
  /\ stable = {}

-------------------------------------------------------------------------------
(* The handler.                                                            *)

\* Mutant: the volume of the token is listed once more.
FromToken(token) == {v \in Volumes : Exists(v) /\ (token # None => v >= token)}

(* The volumes that the loop does not skip.                                *)
After(token) == {v \in Volumes : Exists(v) /\ (token # None => v > token)}

\* Mutant: the loop breaks an entry too late.
LateCut(v, names, max) == max > 0 /\ Cardinality({w \in names : w < v}) = max

(* The loop breaks at v, the volume that fills the page.                   *)
Cut(v, names, max) == max > 0 /\ Cardinality({w \in names : w < v}) + 1 = max

\* Mutant: the last page answers with the token it started from.
TokenKept(token, max) ==
  IF \E v \in After(token) : Cut(v, After(token), max)
  THEN CHOOSE v \in After(token) : Cut(v, After(token), max) ELSE token

NextToken(token, max) ==
  IF \E v \in After(token) : Cut(v, After(token), max)
  THEN CHOOSE v \in After(token) : Cut(v, After(token), max) ELSE None

\* Mutant: the volumes are sorted the other way round.
DescendingPage(token, max) ==
  LET last == NextToken(token, max)
  IN  {v \in After(token) : last # None => v >= last}

Page(token, max) ==
  LET last == NextToken(token, max)
  IN  {v \in After(token) : last # None => v <= last}

\* Mutant: a token with nothing after it is refused.
TokenWithSuccessor(token) == token # None => \E v \in Volumes : v > token /\ Exists(v)

ValidToken(token) == token # None => Exists(token)

List ==
  /\ task.pc = "list"
  /\ \/ /\ ~ValidToken(task.starting_token)
        /\ task' = [task EXCEPT !.pc = "reply", !.code = "Aborted"]
     \/ /\ ValidToken(task.starting_token)
        /\ task' = [task EXCEPT
             !.pc = "reply", !.code = "OK",
             !.entries = [v \in Volumes |->
                            IF v \in Page(task.starting_token, task.max_entries)
                            THEN Entry(v) ELSE None],
             !.next_token = NextToken(task.starting_token, task.max_entries)]
  /\ UNCHANGED <<store, coVars>>

Fail ==
  /\ task.pc = "list"
  /\ task' = [task EXCEPT !.pc = "reply", !.code = "Internal"]
  /\ UNCHANGED <<store, coVars>>

-------------------------------------------------------------------------------
(* The CO.                                                                 *)

Begin ==
  /\ listing.status # "listing"
  /\ listing' = [status |-> "listing", token |-> None, listed |-> [v \in Volumes |-> <<>>]]
  /\ stable' = {v \in Volumes : Exists(v)}
  /\ UNCHANGED <<store, task>>

ListVolumes ==
  /\ listing.status = "listing" /\ task.pc = "idle"
  /\ \E max \in MaxEntries :
       task' = [NoTask EXCEPT !.pc = "list", !.starting_token = listing.token,
                              !.max_entries = max]
  /\ UNCHANGED <<store, coVars>>

Collected(listed) ==
  [v \in Volumes |-> IF task.entries[v] # None
                     THEN Append(listed[v], task.entries[v]) ELSE listed[v]]

Return ==
  /\ task.pc = "reply"
  /\ task' = NoTask
  /\ listing' =
       CASE task.code = "OK" ->
              [status |-> IF task.next_token = None THEN "done" ELSE "listing",
               token |-> task.next_token, listed |-> Collected(listing.listed)]
         [] task.code = "Aborted" -> [listing EXCEPT !.status = "aborted"]
         [] OTHER -> listing
  /\ UNCHANGED <<store, stable>>

-------------------------------------------------------------------------------
(* The other handlers, and what history keeps of their work.               *)

Change(v) ==
  /\ Remove(v) \/ (\E r \in Records : Post(v, r) \/ Patch(v, r))
  /\ stable' = {u \in stable : store'[u] # None}
  /\ UNCHANGED <<task, listing>>

Next ==
  \/ Begin \/ ListVolumes \/ List \/ Fail \/ Return
  \/ \E v \in Volumes : Change(v)

Spec == Init /\ [][Next]_vars

(* The handler is polled until it answers, the CO asks for page after      *)
(* page, and a request to the API server that is made again and again gets *)
(* its answer some day.  Nothing makes the other handlers change the       *)
(* store, or the CO begin.                                                 *)
FairSpec == Spec /\ SF_vars(List) /\ WF_vars(ListVolumes) /\ WF_vars(Return)

-------------------------------------------------------------------------------
(* What a listing should keep to.                                          *)

TypeOK ==
  /\ store \in [Volumes -> Volume \cup {None}]
  /\ task \in Task
  /\ listing \in [status: Status, token: Volumes \cup {None}, listed: [Volumes -> Seq(Entries)]]
  /\ stable \subseteq Volumes

(* A volume that was there from the first page to the last is in the       *)
(* listing, whatever came and went around it (controller.rs:422-434).      *)
NothingMissed ==
  listing.status = "done" => \A v \in stable : listing.listed[v] # <<>>

(* A listing is cut off only at a token whose volume was not there all the *)
(* time since the first page: whoever deletes no volume that was there     *)
(* when the listing began, and was reported, gets to its end               *)
(* (controller.rs:424-428).                                                *)
AbortJustified ==
  listing.status = "aborted" => listing.token \in Volumes \ stable

(* A page has no more entries than it may have, and is full if there is to *)
(* be another (csi.proto:885-889, controller.rs:455-458).                  *)
PageFull ==
  LET n == Cardinality({v \in Volumes : task.entries[v] # None})
  IN  task.code = "OK" /\ task.max_entries > 0 =>
        n <= task.max_entries /\ (task.next_token # None => n = task.max_entries)

(* Pages do not go round in a circle: every listing ends.                  *)
ListingEnds == listing.status = "listing" ~> listing.status # "listing"

-------------------------------------------------------------------------------
(* The handler has looked at the volumes up to the last token it gave, and *)
(* at all of them when it gave none.                                       *)

Answered == task.pc = "reply" /\ task.code = "OK"

UpTo(token) == {v \in Volumes : token # None /\ v <= token}

Passed ==
  IF Answered THEN IF task.next_token = None THEN Volumes ELSE UpTo(task.next_token)
  ELSE IF listing.status = "done" THEN Volumes ELSE UpTo(listing.token)

Found == IF Answered THEN Collected(listing.listed) ELSE listing.listed

Scan == INSTANCE VolumeScan WITH
  entry  <- [v \in Volumes |-> IF Exists(v) THEN Entry(v) ELSE None],
  status <- listing.status, passed <- Passed, found <- Found

(* Every volume is looked at exactly once in a listing, and reported as it *)
(* was at that moment (module VolumeScan).                                 *)
ScanSpec == Scan!Spec
===============================================================================
