----------------------------- MODULE ListingProofs -----------------------------
(***************************************************************************)
(* A listing implements VolumeScan, and misses nothing, for any number of  *)
(* volumes and any sequence of page sizes, whatever happens to the store.  *)
(***************************************************************************)
EXTENDS Listing, Counting

(* The CO and the handler agree on where the listing is; what has been     *)
(* reported lies before that place, and every stable volume before that    *)
(* place has been reported.                                                *)
TaskOfListing ==
  /\ stable \subseteq {v \in Volumes : Exists(v)}
  /\ task.pc # "idle" => listing.status = "listing" /\ task.starting_token = listing.token
  /\ task.pc = "reply" /\ task.code = "Aborted" => listing.token \in Volumes \ stable
  /\ listing.status = "aborted" => listing.token \in Volumes \ stable
  /\ listing.status = "idle" => listing.token = None

Reported ==
  /\ \A v \in Volumes \ Passed : Found[v] = <<>>
  /\ \A v \in Passed \cap stable : Found[v] # <<>>
  /\ Answered => \A v \in Volumes : task.entries[v] # None => listing.listed[v] = <<>>

IInv == TypeOK /\ TaskOfListing /\ Reported

(* The loop of the handler leaves out what the token covers, and the next  *)
(* token is a volume of the page.                                          *)
LEMMA NextTokenAfter ==
  ASSUME NEW token, NEW max
  PROVE  NextToken(token, max) \in After(token) \cup {None}
BY DEF NextToken

LEMMA EntryType ==
  ASSUME TypeOK, NEW v \in Volumes, Exists(v)
  PROVE  Entry(v) \in Entries
BY DEF TypeOK, Exists, Entry, Entries, Volume

LEMMA NoTaskType == NoTask \in Task /\ NoTask.pc = "idle"
BY DEF NoTask, Task, NoEntries

LEMMA CollectedType ==
  ASSUME TypeOK
  PROVE  Collected(listing.listed) \in [Volumes -> Seq(Entries)]
BY DEF TypeOK, Task, Collected

-------------------------------------------------------------------------------
(* One page.                                                               *)

LEMMA ListType ==
  ASSUME TypeOK, List
  PROVE  TypeOK'
<1> DEFINE token == task.starting_token
           max == task.max_entries
           entries == [v \in Volumes |-> IF v \in Page(token, max) THEN Entry(v) ELSE None]
<1>1. entries \in [Volumes -> Entries \cup {None}]
  BY EntryType DEF Page, After
<1>2. NextToken(token, max) \in Volumes \cup {None}
  BY NextTokenAfter DEF After
<1>3. task' \in Task
  BY ZenonT(60), <1>1, <1>2 DEF List, TypeOK, Task
<1> QED BY <1>3 DEF List, coVars, TypeOK

(* What the handler does to the listing: it looks at the volumes between   *)
(* the place of the token it got and that of the token it gives.           *)
LEMMA ListPasses ==
  ASSUME IInv, List, ValidToken(task.starting_token)
  PROVE  /\ Passed \subseteq Passed'
         /\ \A v \in Volumes : Found'[v] =
              IF v \in Passed' \ Passed /\ Exists(v) THEN <<Entry(v)>> ELSE Found[v]
         /\ \A v \in Volumes : task'.entries[v] # None => listing.listed[v] = <<>>
<1> DEFINE token == task.starting_token
           max == task.max_entries
           next == NextToken(token, max)
<1>1. /\ task \in Task /\ listing.listed \in [Volumes -> Seq(Entries)]
      /\ listing.status = "listing" /\ token = listing.token
      /\ ~Answered /\ token \in Volumes \cup {None}
  BY DEF IInv, TypeOK, TaskOfListing, List, Answered, Task
<1>2. Passed = UpTo(token) /\ Found = listing.listed
  BY <1>1 DEF Passed, Found
<1>3. /\ task'.pc = "reply" /\ task'.code = "OK" /\ task'.next_token = next
      /\ task'.entries = [v \in Volumes |-> IF v \in Page(token, max) THEN Entry(v) ELSE None]
      /\ listing' = listing
  BY <1>1 DEF List, Task, coVars
<1>4. Answered' /\ Passed' = IF next = None THEN Volumes ELSE UpTo(next)
  BY <1>3 DEF Answered, Passed, UpTo
<1>5. next \in After(token) \cup {None} /\ next \in Volumes \cup {None}
  BY NextTokenAfter DEF After
<1>6. Volumes \subseteq Nat /\ None \notin Volumes
  BY ListingAssumption, NoneAssumption
<1> HIDE DEF token, max, next
<1>7. Passed \subseteq Passed'
  <2>1. CASE next = None
    BY <1>2, <1>4, <2>1 DEF UpTo
  <2>2. CASE next # None
    <3>1. next \in Nat /\ (token # None => token \in Nat /\ next > token)
      BY <1>1, <1>5, <1>6, <2>2 DEF After, token
    <3>2. ASSUME NEW v \in Passed PROVE v \in Volumes /\ v \in Nat /\ v <= next
      <4>1. v \in Volumes /\ token # None /\ v <= token
        BY <1>2, <3>2 DEF UpTo
      <4>2. v \in Nat
        BY <1>6, <4>1
      <4> QED BY <3>1, <4>1, <4>2
    <3> QED BY <1>4, <2>2, <3>2 DEF UpTo
  <2> QED BY <2>1, <2>2
<1>8. ASSUME NEW v \in Volumes
      PROVE  v \in Page(token, max) <=> v \in Passed' \ Passed /\ Exists(v)
  <2>1. v \in Nat /\ (token # None => token \in Nat) /\ (next # None => next \in Nat)
    BY <1>1, <1>5, <1>6 DEF token
  <2>2. v \in Passed <=> token # None /\ v <= token
    BY <1>2 DEF UpTo
  <2>3. v \in Passed' <=> (next # None => v <= next)
    BY <1>4 DEF UpTo
  <2>4. v \in Page(token, max) <=>
          Exists(v) /\ (token # None => v > token) /\ (next # None => v <= next)
    BY DEF Page, After, next
  <2> QED BY <2>1, <2>2, <2>3, <2>4
<1>9. ASSUME NEW v \in Volumes, v \in Page(token, max)
      PROVE  task'.entries[v] = Entry(v) /\ Entry(v) # None /\ listing.listed[v] = <<>>
  <2>1. Exists(v) /\ v \notin Passed
    BY <1>8, <1>9
  <2>2. Entry(v) # None
    BY <2>1, EntryType, NoEntryAssumption DEF IInv
  <2>3. listing.listed[v] = <<>>
    BY <1>2, <2>1 DEF IInv, Reported
  <2> QED BY <1>3, <1>9, <2>2, <2>3
<1>10. ASSUME NEW v \in Volumes, v \notin Page(token, max) PROVE task'.entries[v] = None
  BY <1>3, <1>10
<1>11. Found' = Collected(listing.listed)'
  BY <1>3, <1>4 DEF Found, Collected
<1>12. ASSUME NEW v \in Volumes
       PROVE  Found'[v] = IF v \in Page(token, max) THEN <<Entry(v)>> ELSE listing.listed[v]
  <2>1. CASE v \in Page(token, max)
    <3>1. Found'[v] = Append(<<>>, Entry(v))
      BY <1>3, <1>9, <1>11, <2>1 DEF Collected
    <3> QED BY <2>1, <3>1
  <2>2. CASE v \notin Page(token, max)
    BY <1>3, <1>10, <1>11, <2>2 DEF Collected
  <2> QED BY <2>1, <2>2
<1> QED BY <1>2, <1>7, <1>8, <1>9, <1>10, <1>12

LEMMA ListSound == ASSUME IInv, List PROVE IInv'
<1>1. TypeOK'
  BY ListType DEF IInv
<1>2. /\ task \in Task /\ task.pc = "list" /\ UNCHANGED <<store, listing, stable>>
      /\ task'.pc = "reply" /\ task'.starting_token = task.starting_token
      /\ task'.code = IF ValidToken(task.starting_token) THEN "OK" ELSE "Aborted"
  BY DEF IInv, TypeOK, List, coVars, Task
<1>3. TaskOfListing'
  BY <1>2, NoneAssumption DEF IInv, TypeOK, Task, TaskOfListing, ValidToken, Exists
<1>4. CASE ValidToken(task.starting_token)
  <2>1. \A v \in Volumes \ Passed' : Found'[v] = <<>>
    BY <1>4, ListPasses DEF IInv, Reported
  <2>2. \A v \in (Passed \cap stable)' : Found'[v] # <<>>
    <3> SUFFICES ASSUME NEW v \in Passed', v \in stable PROVE Found'[v] # <<>>
      BY <1>2
    <3>1. v \in Volumes /\ Exists(v)
      BY DEF IInv, TaskOfListing
    <3>2. CASE v \in Passed
      BY <1>4, <3>1, <3>2, ListPasses DEF IInv, Reported
    <3>3. CASE v \notin Passed
      <4>1. Found'[v] = <<Entry(v)>>
        BY <1>4, <3>1, <3>3, ListPasses
      <4> QED BY <4>1
    <3> QED BY <3>2, <3>3
  <2> QED BY <1>1, <1>2, <1>3, <1>4, <2>1, <2>2, ListPasses DEF IInv, Reported
<1>5. CASE ~ValidToken(task.starting_token)
  <2>1. ~Answered /\ ~Answered' /\ UNCHANGED <<Passed, Found>>
    BY <1>2, <1>5 DEF Answered, Passed, Found
  <2> QED BY <1>1, <1>2, <1>3, <2>1 DEF IInv, Reported
<1> QED BY <1>4, <1>5

-------------------------------------------------------------------------------
(* The CO and the other handlers.                                          *)

LEMMA BeginSound ==
  ASSUME IInv, Begin
  PROVE  /\ IInv' /\ ~Answered
         /\ Passed' = {} /\ Found' = [v \in Volumes |-> <<>>]
<1>1. task.pc = "idle" /\ UNCHANGED <<store, task>>
  BY DEF IInv, TypeOK, Task, TaskOfListing, Begin
<1>2. listing' = [status |-> "listing", token |-> None, listed |-> [v \in Volumes |-> <<>>]]
  BY DEF Begin
<1>3. ~Answered /\ ~Answered'
  BY <1>1 DEF Answered
<1>4. Passed' = {} /\ Found' = [v \in Volumes |-> <<>>]
  BY <1>2, <1>3 DEF Passed, Found, UpTo
<1>5. TypeOK'
  BY <1>1, <1>2 DEF IInv, TypeOK, Status, Begin
<1>6. TaskOfListing'
  BY <1>1, <1>2 DEF TaskOfListing, Begin, Exists
<1>7. Reported'
  BY <1>3, <1>4 DEF Reported
<1> QED BY <1>3, <1>4, <1>5, <1>6, <1>7 DEF IInv

(* A step that neither gives an answer nor takes one.                      *)
LEMMA ScanUnchanged ==
  ASSUME ~Answered, ~Answered', UNCHANGED listing
  PROVE  UNCHANGED <<Passed, Found>>
BY DEF Passed, Found

LEMMA ListVolumesSound ==
  ASSUME IInv, ListVolumes
  PROVE  IInv' /\ UNCHANGED <<Passed, Found>>
<1>1. PICK max \in MaxEntries :
        task' = [NoTask EXCEPT !.pc = "list", !.starting_token = listing.token,
                               !.max_entries = max]
  BY DEF ListVolumes
<1>2. UNCHANGED <<store, listing, stable>> /\ listing.status = "listing" /\ task.pc = "idle"
  BY DEF ListVolumes, coVars
<1>3. max \in Nat
  BY ListingAssumption
<1>4. task' \in Task /\ task'.pc = "list" /\ task'.starting_token = listing.token
  BY <1>1, <1>3, NoTaskType DEF Task, IInv, TypeOK
<1>5. ~Answered /\ ~Answered'
  BY <1>2, <1>4 DEF Answered
<1>6. UNCHANGED <<Passed, Found>>
  BY <1>2, <1>5, ScanUnchanged
<1> QED BY <1>2, <1>4, <1>5, <1>6 DEF IInv, TypeOK, TaskOfListing, Reported, Exists

LEMMA FailSound ==
  ASSUME IInv, Fail
  PROVE  IInv' /\ UNCHANGED <<Passed, Found>>
<1>1. /\ task.pc = "list" /\ UNCHANGED <<store, listing, stable>>
      /\ task' = [task EXCEPT !.pc = "reply", !.code = "Internal"]
  BY DEF Fail, coVars
<1>2. task \in Task
  BY DEF IInv, TypeOK
<1>3. /\ task' \in Task /\ task'.pc = "reply" /\ task'.code = "Internal"
      /\ task'.starting_token = task.starting_token
  BY <1>1, <1>2 DEF Task
<1>4. ~Answered /\ ~Answered'
  BY <1>1, <1>3 DEF Answered
<1>5. UNCHANGED <<Passed, Found>>
  BY <1>1, <1>4, ScanUnchanged
<1> QED BY <1>1, <1>3, <1>4, <1>5 DEF IInv, TypeOK, TaskOfListing, Reported, Exists

LEMMA ReturnSound ==
  ASSUME IInv, Return
  PROVE  /\ IInv' /\ UNCHANGED <<Passed, Found>>
         /\ listing.status = "listing"
         /\ \/ listing'.status = "listing"
            \/ listing'.status = "aborted"
            \/ listing'.status = "done" /\ Passed = Volumes
<1>1. /\ task.pc = "reply" /\ task' = NoTask /\ UNCHANGED <<store, stable>>
      /\ task \in Task /\ task' \in Task /\ task'.pc = "idle"
      /\ listing.status = "listing"
  BY NoTaskType DEF Return, IInv, TypeOK, TaskOfListing
<1>2. ~Answered'
  BY <1>1 DEF Answered
<1>3. listing \in [status: Status, token: Volumes \cup {None}, listed: [Volumes -> Seq(Entries)]]
  BY DEF IInv, TypeOK
<1>4. CASE task.code = "OK"
  <2>1. Answered
    BY <1>1, <1>4 DEF Answered
  <2>2. listing' = [status |-> IF task.next_token = None THEN "done" ELSE "listing",
                    token |-> task.next_token, listed |-> Collected(listing.listed)]
    BY <1>4 DEF Return
  <2>3. UNCHANGED <<Passed, Found>>
    BY <1>2, <2>1, <2>2 DEF Passed, Found, UpTo
  <2>4. TypeOK'
    BY <1>1, <2>2, CollectedType DEF IInv, TypeOK, Status, Task
  <2>5. TaskOfListing'
    BY <1>1, <2>2 DEF IInv, TaskOfListing, Exists
  <2>6. listing'.status = "done" => Passed = Volumes
    BY <2>1, <2>2 DEF Passed
  <2> QED BY <1>1, <1>2, <2>2, <2>3, <2>4, <2>5, <2>6 DEF IInv, Reported
<1>5. CASE task.code = "Aborted"
  <2>1. ~Answered /\ listing' = [listing EXCEPT !.status = "aborted"]
    BY <1>5 DEF Answered, Return
  <2>2. /\ listing'.status = "aborted" /\ listing'.token = listing.token
        /\ listing'.listed = listing.listed
    BY <1>3, <2>1
  <2>3. UNCHANGED <<Passed, Found>>
    BY <1>1, <1>2, <2>1, <2>2 DEF Passed, Found
  <2>4. TypeOK'
    BY <1>1, <1>3, <2>1 DEF IInv, TypeOK, Status
  <2>5. TaskOfListing'
    BY <1>1, <1>5, <2>2 DEF IInv, TaskOfListing, Exists
  <2> QED BY <1>1, <1>2, <2>2, <2>3, <2>4, <2>5 DEF IInv, Reported
<1>6. CASE task.code \notin {"OK", "Aborted"}
  <2>1. ~Answered /\ UNCHANGED listing
    BY <1>6 DEF Answered, Return
  <2>2. UNCHANGED <<Passed, Found>>
    BY <1>2, <2>1, ScanUnchanged
  <2> QED BY <1>1, <1>2, <2>1, <2>2 DEF IInv, TypeOK, TaskOfListing, Reported, Exists
<1> QED BY <1>4, <1>5, <1>6

LEMMA ChangeSound ==
  ASSUME IInv, NEW v \in Volumes, Change(v)
  PROVE  IInv' /\ UNCHANGED <<Passed, Found>>
<1>1. UNCHANGED <<task, listing>> /\ stable' = {u \in stable : store'[u] # None}
  BY DEF Change
<1>2. store' \in [Volumes -> Volume \cup {None}]
  BY ListingAssumption DEF Change, Remove, Post, Patch, IInv, TypeOK
<1>3. UNCHANGED <<Passed, Found, Answered>>
  BY <1>1 DEF Passed, Found, Answered, Collected
<1>4. TypeOK' /\ TaskOfListing'
  BY <1>1, <1>2 DEF IInv, TypeOK, TaskOfListing, Exists
<1>5. Reported'
  BY <1>1, <1>3 DEF IInv, Reported
<1> QED BY <1>3, <1>4, <1>5 DEF IInv

-------------------------------------------------------------------------------

LEMMA InitSound == Init => IInv /\ Scan!Init
<1> SUFFICES ASSUME Init PROVE IInv /\ Scan!Init
  OBVIOUS
<1>1. /\ store = [v \in Volumes |-> None] /\ task = NoTask /\ stable = {}
      /\ listing = [status |-> "idle", token |-> None, listed |-> [v \in Volumes |-> <<>>]]
  BY DEF Init, StoreInit
<1>2. ~Answered
  BY <1>1, NoTaskType DEF Answered
<1>3. Passed = {} /\ Found = [v \in Volumes |-> <<>>]
  BY <1>1, <1>2 DEF Passed, Found, UpTo
<1>4. TypeOK /\ TaskOfListing
  BY <1>1, NoTaskType DEF TypeOK, TaskOfListing, Status
<1>5. Reported
  BY <1>2, <1>3 DEF Reported
<1>6. Scan!Init
  BY <1>1, <1>3 DEF Scan!Init, Exists
<1> QED BY <1>4, <1>5, <1>6 DEF IInv

LEMMA NextSound == IInv /\ [Next]_vars => IInv'
<1> SUFFICES ASSUME IInv, [Next]_vars PROVE IInv'
  OBVIOUS
<1>1. CASE UNCHANGED vars
  <2>1. UNCHANGED <<Passed, Found, Answered>>
    BY <1>1 DEF vars, coVars, Passed, Found, Answered, Collected
  <2> QED BY <1>1, <2>1 DEF vars, coVars, IInv, TypeOK, TaskOfListing, Reported, Exists
<1>2. CASE \E v \in Volumes : Change(v)
  BY <1>2, ChangeSound
<1> QED BY <1>1, <1>2, BeginSound, ListVolumesSound, ListSound, FailSound, ReturnSound DEF Next

(* Types, and how far the listing has come.                                *)
THEOREM ListingInvariant == Spec => []IInv
BY InitSound, NextSound, PTL DEF Spec

(* Every variable keeps its type.                                          *)
THEOREM TypeCorrect == Spec => []TypeOK
<1>1. IInv => TypeOK
  BY DEF IInv
<1> QED BY <1>1, ListingInvariant, PTL

(* A volume that is there from the first page to the last is reported.     *)
THEOREM NoneMissed == Spec => []NothingMissed
<1>1. IInv => NothingMissed
  <2> SUFFICES ASSUME IInv, listing.status = "done", NEW v \in stable
               PROVE  listing.listed[v] # <<>>
    BY DEF NothingMissed
  <2>1. ~Answered /\ v \in Volumes
    BY DEF IInv, TypeOK, TaskOfListing, Answered
  <2>2. Passed = Volumes /\ Found = listing.listed
    BY <2>1 DEF Passed, Found
  <2> QED BY <2>1, <2>2 DEF IInv, Reported
<1> QED BY <1>1, ListingInvariant, PTL

(* Only the deletion of a reported volume cuts a listing off.              *)
THEOREM AbortsJustified == Spec => []AbortJustified
<1>1. IInv => AbortJustified
  BY DEF IInv, TaskOfListing, AbortJustified
<1> QED BY <1>1, ListingInvariant, PTL

-------------------------------------------------------------------------------
(* The size of a page.  The volume that a page is cut off at has one less  *)
(* before it than the page may have; if there is none, the rest fits in.   *)

LEMMA PageSize ==
  ASSUME TypeOK, NEW token \in Volumes \cup {None}, NEW max \in Nat \ {0}
  PROVE  LET n == Cardinality(Page(token, max))
         IN  /\ n \in Nat
             /\ NextToken(token, max) # None => n = max
             /\ NextToken(token, max) = None => n < max
<1> DEFINE S == After(token)
           next == NextToken(token, max)
<1>1. S \in SUBSET Nat /\ None \notin S
  BY ListingAssumption, NoneAssumption DEF After
<1>2. \A v \in S : Cut(v, S, max) <=> Rank(S, v) + 1 = max
  BY DEF Cut, Rank, Below
<1> HIDE DEF S
<1>3. CASE \E v \in S : Rank(S, v) + 1 = max
  <2>1. next \in S /\ Rank(S, next) + 1 = max
    <3>1. next = CHOOSE v \in S : Cut(v, S, max)
      BY <1>2, <1>3 DEF NextToken, S
    <3>2. \E v \in S : Cut(v, S, max)
      BY <1>2, <1>3
    <3> QED BY <1>2, <3>1, <3>2
  <2>2. Page(token, max) = {w \in S : w <= next}
    BY <1>1, <2>1 DEF Page, S
  <2> HIDE DEF next
  <2>3. Cardinality({w \in S : w <= next}) = max
    BY <1>1, <2>1, RankClosed
  <2> QED BY <1>1, <2>1, <2>2, <2>3 DEF next
<1>4. CASE \A v \in S : Rank(S, v) + 1 # max
  <2>1. next = None
    BY <1>2, <1>4 DEF NextToken, S
  <2>2. Page(token, max) = S
    BY <2>1 DEF Page, S
  <2> QED BY <1>1, <1>4, <2>1, <2>2, FewerThan, FS_CardinalityType
<1> QED BY <1>3, <1>4

LEMMA ListFull ==
  ASSUME IInv, List
  PROVE  PageFull'
<1> DEFINE token == task.starting_token
           max == task.max_entries
<1>1. task \in Task /\ TypeOK
  BY DEF IInv, TypeOK
<1>2. CASE ValidToken(token)
  <2>1. /\ task'.entries = [v \in Volumes |-> IF v \in Page(token, max) THEN Entry(v) ELSE None]
        /\ task'.next_token = NextToken(token, max)
        /\ task'.max_entries = max
    BY <1>1, <1>2 DEF List, Task
  <2>2. {v \in Volumes : task'.entries[v] # None} = Page(token, max)
    BY <1>1, <2>1, EntryType, NoEntryAssumption DEF Page, After
  <2>3. ASSUME max > 0
        PROVE  LET n == Cardinality(Page(token, max))
               IN  n <= max /\ (NextToken(token, max) # None => n = max)
    <3>1. token \in Volumes \cup {None} /\ max \in Nat \ {0}
      BY <1>1, <2>3 DEF Task
    <3> HIDE DEF token, max
    <3> QED BY <1>1, <3>1, PageSize
  <2> QED BY <2>1, <2>2, <2>3 DEF PageFull
<1>3. CASE ~ValidToken(token)
  BY <1>1, <1>3 DEF List, Task, PageFull
<1> QED BY <1>2, <1>3

LEMMA NextFull == IInv /\ PageFull /\ [Next]_vars => PageFull'
<1> SUFFICES ASSUME IInv, PageFull, [Next]_vars PROVE PageFull'
  OBVIOUS
<1>1. task \in Task
  BY DEF IInv, TypeOK
<1>2. CASE Begin \/ (\E v \in Volumes : Change(v)) \/ UNCHANGED vars
  <2>1. UNCHANGED task
    BY <1>2 DEF Begin, Change, vars
  <2> QED BY <2>1 DEF PageFull
<1>3. CASE ListVolumes
  <2>1. PICK max \in MaxEntries :
          task' = [NoTask EXCEPT !.pc = "list", !.starting_token = listing.token,
                                 !.max_entries = max]
    BY <1>3 DEF ListVolumes
  <2>2. task'.entries = NoEntries /\ task'.next_token = None /\ task'.max_entries \in Nat
    BY <2>1, ListingAssumption DEF NoTask
  <2>3. {v \in Volumes : task'.entries[v] # None} = {}
    BY <2>2 DEF NoEntries
  <2> QED BY <2>2, <2>3, FS_EmptySet DEF PageFull
<1>4. CASE List
  BY <1>4, ListFull
<1>5. CASE Fail
  BY <1>1, <1>5 DEF Fail, Task, PageFull
<1>6. CASE Return
  BY <1>6 DEF Return, NoTask, PageFull
<1> QED BY <1>2, <1>3, <1>4, <1>5, <1>6 DEF Next

(* No page is larger than it may be, and only the last one is smaller, for *)
(* any number of volumes.                                                  *)
THEOREM PagesFull == Spec => []PageFull
<1>1. Init => PageFull
  BY DEF Init, NoTask, PageFull
<1> QED BY <1>1, NextFull, ListingInvariant, PTL DEF Spec

-------------------------------------------------------------------------------
(* Every step of a listing is a step of a scan, or leaves it alone.        *)

Seen == [v \in Volumes |-> IF Exists(v) THEN Entry(v) ELSE None]

ScanVars == <<Seen, listing.status, Passed, Found>>

LEMMA ListScans ==
  ASSUME IInv, List
  PROVE  [Scan!Next]_ScanVars
<1>1. /\ listing.status = "listing" /\ UNCHANGED <<store, listing>> /\ ~Answered
      /\ task \in Task
  BY DEF IInv, TypeOK, TaskOfListing, List, coVars, Answered
<1>2. UNCHANGED Seen
  BY <1>1 DEF Seen, Exists, Entry
<1>3. CASE ValidToken(task.starting_token)
  <2> DEFINE S == Passed' \ Passed
  <2>1. Passed' \subseteq Volumes
    BY DEF Passed, UpTo
  <2>2. S \subseteq Volumes \ Passed /\ Passed' = Passed \cup S
    BY <1>3, <2>1, ListPasses
  <2>3. \A v \in Volumes : Found'[v] =
          IF v \in S /\ Seen[v] # None THEN <<Seen[v]>> ELSE Found[v]
    BY <1>3, ListPasses, EntryType, NoEntryAssumption DEF Seen, IInv
  <2>4. Found' = [v \in Volumes |-> Found'[v]]
    <3>1. task' = [task EXCEPT !.pc = "reply", !.code = "OK",
             !.entries = [v \in Volumes |->
                            IF v \in Page(task.starting_token, task.max_entries)
                            THEN Entry(v) ELSE None],
             !.next_token = NextToken(task.starting_token, task.max_entries)]
      BY <1>3 DEF List
    <3>2. Answered'
      BY <1>1, <3>1 DEF Task, Answered
    <3> QED BY <3>2 DEF Found, Collected
  <2>5. Found' = [v \in Volumes |->
                    IF v \in S /\ Seen[v] # None THEN <<Seen[v]>> ELSE Found[v]]
    BY <2>3, <2>4
  <2> HIDE DEF S
  <2>6. Scan!Pass(S)
    BY <1>1, <1>2, <2>2, <2>5 DEF Scan!Pass, Seen
  <2>7. S \in SUBSET Volumes
    BY <2>2
  <2> QED BY <2>6, <2>7 DEF Scan!Next
<1>4. CASE ~ValidToken(task.starting_token)
  <2>1. task' = [task EXCEPT !.pc = "reply", !.code = "Aborted"]
    BY <1>4 DEF List
  <2>2. ~Answered'
    BY <1>1, <2>1 DEF Task, Answered
  <2> QED BY <1>1, <1>2, <2>2, ScanUnchanged DEF ScanVars
<1> QED BY <1>3, <1>4

LEMMA NextScans == IInv /\ [Next]_vars => [Scan!Next]_ScanVars
<1> SUFFICES ASSUME IInv, [Next]_vars PROVE [Scan!Next]_ScanVars
  OBVIOUS
<1>1. UNCHANGED store => UNCHANGED Seen
  BY DEF Seen, Exists, Entry
<1>2. CASE Begin
  <2>1. Scan!Begin
    BY <1>1, <1>2, BeginSound DEF Begin, Scan!Begin, Seen
  <2> QED BY <2>1 DEF Scan!Next
<1>3. CASE ListVolumes \/ Fail
  <2>1. UNCHANGED <<store, listing>>
    BY <1>3 DEF ListVolumes, Fail, coVars
  <2> QED BY <1>1, <1>3, <2>1, ListVolumesSound, FailSound DEF ScanVars
<1>4. CASE List
  BY <1>4, ListScans
<1>5. CASE Return
  <2>1. UNCHANGED <<Seen, Passed, Found>> /\ listing.status = "listing"
    BY <1>1, <1>5, ReturnSound DEF Return
  <2>2. CASE listing'.status = "listing"
    BY <2>1, <2>2 DEF ScanVars
  <2>3. CASE listing'.status = "aborted"
    <3>1. Scan!Abort
      BY <2>1, <2>3 DEF Scan!Abort, Seen
    <3> QED BY <3>1 DEF Scan!Next
  <2>4. CASE listing'.status = "done" /\ Passed = Volumes
    <3>1. Scan!End
      BY <2>1, <2>4 DEF Scan!End, Seen
    <3> QED BY <3>1 DEF Scan!Next
  <2> QED BY <1>5, <2>2, <2>3, <2>4, ReturnSound
<1>6. CASE \E v \in Volumes : Change(v)
  <2>1. UNCHANGED <<listing, Passed, Found>>
    BY <1>6, ChangeSound DEF Change
  <2>2. CASE UNCHANGED Seen
    BY <2>1, <2>2 DEF ScanVars
  <2>3. CASE ~UNCHANGED Seen
    <3>1. Scan!Change
      BY <2>1, <2>3 DEF Scan!Change, Seen
    <3> QED BY <3>1 DEF Scan!Next
  <2> QED BY <2>2, <2>3
<1>7. CASE UNCHANGED vars
  <2>1. UNCHANGED <<Seen, listing, Passed, Found>>
    BY <1>1, <1>7 DEF vars, coVars, Passed, Found, Answered, Collected
  <2> QED BY <2>1 DEF ScanVars
<1> QED BY <1>2, <1>3, <1>4, <1>5, <1>6, <1>7 DEF Next

(* A listing looks at every volume exactly once, and reports it as it is   *)
(* at that moment.                                                         *)
THEOREM ScanImplemented == Spec => ScanSpec
<1>1. Init => Scan!Init
  BY InitSound
<1>2. IInv /\ [Next]_vars => [Scan!Next]_ScanVars
  BY NextScans
<1> QED BY <1>1, <1>2, ListingInvariant, PTL DEF Spec, ScanSpec, Scan!Spec, ScanVars, Seen
===============================================================================
