---------------------------- MODULE LifecycleProofs ----------------------------
(***************************************************************************)
(* The store implements VolumeLifecycle when there is one call in flight   *)
(* per volume, whatever fails.                                             *)
(*                                                                         *)
(* With one call per volume nobody else writes a record between a load and *)
(* an update, so that the copy of a task is the record, or one step of the *)
(* life cycle ahead of it (Sync).  Types and well-formed copies are those  *)
(* of module LvpProofs.                                                    *)
(***************************************************************************)
EXTENDS LvpProofs

(* From record s to record r in one step of the life cycle, or none.       *)
AsCreated(s, r) ==
  /\ r.host_path = s.host_path
  /\ r.filesystem = s.filesystem /\ r.valid_configs = s.valid_configs
SameIdentity(s, r) ==
  /\ AsCreated(s, r)
  /\ r.assigned_node_id = s.assigned_node_id /\ r.size = s.size
SamePublication(s, r) ==
  /\ r.published_config = s.published_config
  /\ r.published_readonly = s.published_readonly
SameMounts(s, r) == r.loop_device = s.loop_device /\ r.mount_paths = s.mount_paths

Publication(s, r) ==
  /\ {s.state, r.state} = {"Open", "ControllerPublished"}
  /\ SameIdentity(s, r) /\ SameMounts(s, r)

Mounting(s, r) ==
  /\ {s.state, r.state} = {"ControllerPublished", "NodePublished"}
  /\ SameIdentity(s, r) /\ SamePublication(s, r)

Remounting(s, r) ==
  /\ s.state = "NodePublished" /\ r.state = "NodePublished"
  /\ SameIdentity(s, r) /\ SamePublication(s, r) /\ r.loop_device = s.loop_device

Assignment(s, r) ==
  /\ s.assigned_node_id = None /\ r.assigned_node_id \in Nodes
  /\ s.state = r.state /\ s.size = r.size
  /\ AsCreated(s, r) /\ SamePublication(s, r) /\ SameMounts(s, r)

Growth(s, r) ==
  /\ s.state = "NodePublished" /\ r.state = "NodePublished"
  /\ r.size > s.size /\ r.assigned_node_id = s.assigned_node_id
  /\ AsCreated(s, r) /\ SamePublication(s, r) /\ SameMounts(s, r)

Legal(s, r) ==
  \/ r = s
  \/ Publication(s, r) \/ Mounting(s, r) \/ Remounting(s, r)
  \/ Assignment(s, r) \/ Growth(s, r)

(* A record that CreateVolume makes.                                       *)
Fresh(r) == r.state = "Open" /\ r.assigned_node_id = None

(* What task q has in rec, beside the record s of its volume.              *)
Preparing == Publishing \ {"assign"}
Writing   == {"assign", "patch", "unloop", "truncate", "grow"}

Sync(q, s) ==
  /\ q.pc \in Preparing \cup {"umount"} => q.rec = s
  /\ q.pc \in Publishing => ~LockedElsewhere(q.rec, q.node)
  /\ q.pc = "mount" => q.rec.loop_device \in {None, q.dev}
  /\ q.pc \in Writing => s # None /\ Legal(s, q.rec)
  /\ q.pc \in {"unlink", "delete"} => s # None /\ s.state = "Open"

OneCallPerVolume ==
  \A c, d \in Calls : call[c].vol = call[d].vol /\ call[c].vol # None => c = d

InSync == \A c \in Calls : Sync(call[c], store[call[c].vol])

LInv == OneCallPerVolume /\ InSync

-------------------------------------------------------------------------------
(* Legal changes of a record are steps of the life cycle.                  *)

LEMMA LegalStep ==
  ASSUME IInv, NEW v \in Volumes, NEW r \in Volume,
         store[v] # None, Legal(store[v], r), store' = [store EXCEPT ![v] = r]
  PROVE  [Lifecycle!Next]_store
<1> DEFINE s == store[v]
<1>1. s \in Volume /\ s # None /\ r # None
  BY NoRecordAssumption DEF IInv, TypeOK
<1>2. store'[v] = r /\ \A w \in Volumes \ {v} : store'[w] = store[w]
  BY DEF IInv, TypeOK
<1>3. s.state \in VolumeState /\ r.state \in VolumeState
  BY <1>1 DEF Volume
<1>4. CASE r = s
  BY <1>4 DEF IInv, TypeOK
<1>5. CASE Publication(s, r)
  <2>1. Lifecycle!ControllerPublish(v) \/ Lifecycle!ControllerUnpublish(v)
    BY <1>1, <1>2, <1>3, <1>5
       DEF Publication, SameIdentity, AsCreated, SameMounts, VolumeState,
           Lifecycle!ControllerPublish, Lifecycle!ControllerUnpublish, Lifecycle!Move,
           Lifecycle!Same, Lifecycle!Identity, Lifecycle!Created, Lifecycle!Mounted
  <2> QED BY <1>2, <2>1 DEF Lifecycle!Next, Lifecycle!Step
<1>6. CASE Mounting(s, r)
  <2>1. Lifecycle!NodePublish(v) \/ Lifecycle!NodeUnpublish(v)
    BY <1>1, <1>2, <1>3, <1>6
       DEF Mounting, SameIdentity, AsCreated, SamePublication, VolumeState,
           Lifecycle!NodePublish, Lifecycle!NodeUnpublish, Lifecycle!Move,
           Lifecycle!Same, Lifecycle!Identity, Lifecycle!Created, Lifecycle!Published
  <2> QED BY <1>2, <2>1 DEF Lifecycle!Next, Lifecycle!Step
<1>7. CASE Remounting(s, r)
  <2>1. Lifecycle!Remount(v)
    BY <1>1, <1>2, <1>7
       DEF Remounting, SameIdentity, AsCreated, SamePublication,
           Lifecycle!Remount, Lifecycle!Move, Lifecycle!Same, Lifecycle!Identity,
           Lifecycle!Created, Lifecycle!Published
  <2> QED BY <1>2, <2>1 DEF Lifecycle!Next, Lifecycle!Step
<1>8. CASE Assignment(s, r)
  <2>1. Lifecycle!Assign(v)
    BY <1>1, <1>2, <1>8
       DEF Assignment, AsCreated, SamePublication, SameMounts,
           Lifecycle!Assign, Lifecycle!Move, Lifecycle!Same, Lifecycle!Created,
           Lifecycle!Published, Lifecycle!Mounted
  <2> QED BY <1>2, <2>1 DEF Lifecycle!Next, Lifecycle!Step
<1>9. CASE Growth(s, r)
  <2>1. Lifecycle!Grow(v)
    BY <1>1, <1>2, <1>9
       DEF Growth, AsCreated, SamePublication, SameMounts,
           Lifecycle!Grow, Lifecycle!Move, Lifecycle!Same, Lifecycle!Created,
           Lifecycle!Published, Lifecycle!Mounted
  <2> QED BY <1>2, <2>1 DEF Lifecycle!Next, Lifecycle!Step
<1> QED BY <1>4, <1>5, <1>6, <1>7, <1>8, <1>9 DEF Legal

LEMMA CreateStep ==
  ASSUME IInv, NEW v \in Volumes, NEW r \in Volume, Post(v, r), Fresh(r)
  PROVE  [Lifecycle!Next]_store
<1>1. store'[v] = r /\ \A w \in Volumes \ {v} : store'[w] = store[w]
  BY DEF IInv, TypeOK, Post
<1>2. store[v] = None /\ r # None
  BY NoRecordAssumption DEF Post, Exists
<1>3. Lifecycle!Create(v)
  BY <1>1, <1>2 DEF Fresh, Lifecycle!Create
<1> QED BY <1>1, <1>3 DEF Lifecycle!Next, Lifecycle!Step

LEMMA DestroyStep ==
  ASSUME IInv, NEW v \in Volumes, Remove(v), store[v].state = "Open"
  PROVE  [Lifecycle!Next]_store
<1>1. store'[v] = None /\ \A w \in Volumes \ {v} : store'[w] = store[w]
  BY DEF IInv, TypeOK, Remove
<1>2. Lifecycle!Destroy(v)
  BY <1>1 DEF Remove, Exists, Lifecycle!Destroy
<1> QED BY <1>1, <1>2 DEF Lifecycle!Next, Lifecycle!Step

-------------------------------------------------------------------------------
(* A step of one task leaves the others in sync: they have other volumes.  *)

Elsewhere(c) == \A w \in Volumes : w # call[c].vol => store'[w] = store[w]

LEMMA NotAwaiting ==
  /\ "idle" \notin Await /\ "reply" \notin Await
  /\ Publishing \cup Preparing \cup Writing \cup {"mount", "umount", "unlink", "delete"} \subseteq Await
BY DEF Await, Preparing, Publishing, Writing

LEMMA IdleSync ==
  ASSUME NEW q, NEW s, q.pc \in {"idle", "reply", "get", "load", "post", "rmdir"}
  PROVE  Sync(q, s)
BY DEF Sync, Preparing, Publishing, Writing

LEMMA SyncStep ==
  ASSUME IInv, LInv, NEW c \in Calls, NEW q,
         q.vol = call[c].vol \/ q.vol = None, call' = [call EXCEPT ![c] = q],
         Elsewhere(c), Sync(q, store'[q.vol])
  PROVE  LInv'
<1>1. \A d \in Calls : call'[d] = IF d = c THEN q ELSE call[d]
  BY DEF IInv, TypeOK
<1>2. OneCallPerVolume'
  BY <1>1 DEF LInv, OneCallPerVolume
<1>3. ASSUME NEW d \in Calls PROVE Sync(call'[d], store'[call'[d].vol])
  <2>1. CASE d = c
    BY <1>1, <2>1
  <2>2. CASE d # c /\ call[d].vol \in Volumes
    <3>1. call[d].vol # None
      BY <2>2, NoneAssumption
    <3>2. call[d].vol # call[c].vol
      BY <2>2, <3>1 DEF LInv, OneCallPerVolume
    <3>3. store'[call[d].vol] = store[call[d].vol]
      BY <2>2, <3>2 DEF Elsewhere
    <3> QED BY <1>1, <2>2, <3>3 DEF LInv, InSync
  <2>3. CASE d # c /\ call[d].vol \notin Volumes
    <3>1. call[d].pc \notin Await
      BY <2>3, TaskBefore DEF TaskSound
    <3>2. Sync(call[d], store'[call[d].vol])
      BY <3>1, NotAwaiting DEF Sync
    <3> QED BY <1>1, <2>3, <3>2
  <2> QED BY <2>1, <2>2, <2>3
<1> QED BY <1>2, <1>3 DEF LInv, InSync

LEMMA SyncReply ==
  ASSUME IInv, LInv, NEW c \in Calls, NEW code, Reply(c, code), Elsewhere(c)
  PROVE  LInv'
<1> DEFINE q == [call[c] EXCEPT !.pc = "reply", !.rec = None, !.dev = None, !.code = code]
<1>1. call[c] \in Call
  BY TaskBefore
<1>2. q.vol = call[c].vol /\ q.pc = "reply"
  BY <1>1 DEF Call
<1>3. call' = [call EXCEPT ![c] = q]
  BY DEF Reply, IInv, TypeOK
<1> HIDE DEF q
<1>4. Sync(q, store'[q.vol])
  BY <1>2, IdleSync
<1> QED BY <1>2, <1>3, <1>4, SyncStep

LEMMA SyncHold ==
  ASSUME IInv, LInv, NEW c \in Calls, NEW pc, NEW rec, Hold(c, pc, rec), Elsewhere(c),
         Sync([call[c] EXCEPT !.pc = pc, !.rec = rec], store'[call[c].vol])
  PROVE  LInv'
<1> DEFINE q == [call[c] EXCEPT !.pc = pc, !.rec = rec]
<1>1. q.vol = call[c].vol
  BY TaskBefore DEF Call
<1>2. call' = [call EXCEPT ![c] = q]
  BY DEF Hold, IInv, TypeOK
<1> QED BY <1>1, <1>2, SyncStep

LEMMA SyncHoldDevice ==
  ASSUME IInv, LInv, NEW c \in Calls, NEW pc, NEW rec, NEW d, HoldDevice(c, pc, rec, d),
         Elsewhere(c),
         Sync([call[c] EXCEPT !.pc = pc, !.rec = rec, !.dev = d], store'[call[c].vol])
  PROVE  LInv'
<1> DEFINE q == [call[c] EXCEPT !.pc = pc, !.rec = rec, !.dev = d]
<1>1. q.vol = call[c].vol
  BY TaskBefore DEF Call
<1>2. call' = [call EXCEPT ![c] = q]
  BY DEF HoldDevice, IInv, TypeOK
<1> QED BY <1>1, <1>2, SyncStep

LEMMA QuietElsewhere == ASSUME NEW c, UNCHANGED store PROVE Elsewhere(c)
BY DEF Elsewhere

(* What a handler writes back is the record, or a step ahead of it.        *)
Refines == LInv' /\ [Lifecycle!Next]_store

LEMMA QuietRefines == LInv' /\ UNCHANGED store => Refines
BY DEF Refines

(* A record that a task writes when it has held it in sync.                *)
LEMMA PatchRefines ==
  ASSUME IInv, LInv, NEW c \in Calls, call[c].pc \in Writing,
         Patch(call[c].vol, call[c].rec)
  PROVE  /\ [Lifecycle!Next]_store /\ Elsewhere(c)
         /\ call[c].vol \in Volumes /\ store'[call[c].vol] = call[c].rec
<1>1. call[c].vol \in Volumes
  BY TaskBefore, NotAwaiting DEF TaskSound
<1>2. call[c].rec \in Volume
  BY TaskBefore DEF TaskSound, Writing, Publishing
<1>3. store[call[c].vol] # None /\ Legal(store[call[c].vol], call[c].rec)
  BY DEF LInv, InSync, Sync
<1>4. store' = [store EXCEPT ![call[c].vol] = call[c].rec]
  BY DEF Patch
<1>5. [Lifecycle!Next]_store
  BY <1>1, <1>2, <1>3, <1>4, LegalStep
<1>6. Elsewhere(c) /\ store'[call[c].vol] = call[c].rec
  BY <1>1, <1>4 DEF Elsewhere, IInv, TypeOK
<1> QED BY <1>1, <1>5, <1>6

(* The last update of a handler.                                           *)
LEMMA LastUpdateRefines ==
  ASSUME IInv, LInv, NEW c \in Calls, call[c].pc = "patch",
         Update(c, Reply(c, "OK")) \/ Update(c, Goto(c, "rmdir"))
  PROVE  Refines
<1>1. CASE UNCHANGED store /\ Reply(c, "Internal")
  BY <1>1, QuietElsewhere, SyncReply, QuietRefines
<1>2. CASE Patch(call[c].vol, call[c].rec) /\ Reply(c, "OK")
  <2>1. [Lifecycle!Next]_store /\ Elsewhere(c)
    BY <1>2, PatchRefines DEF Writing
  <2> QED BY <1>2, <2>1, SyncReply DEF Refines
<1>3. CASE Patch(call[c].vol, call[c].rec) /\ Goto(c, "rmdir")
  <2>1. [Lifecycle!Next]_store /\ Elsewhere(c)
    BY <1>3, PatchRefines DEF Writing
  <2> DEFINE q == [call[c] EXCEPT !.pc = "rmdir", !.rec = call[c].rec]
  <2>2. q.pc = "rmdir"
    BY TaskBefore DEF Call
  <2>3. Sync(q, store'[call[c].vol])
    <3> HIDE DEF q
    <3> QED BY <2>2, IdleSync
  <2>4. LInv'
    BY <1>3, <2>1, <2>3, SyncHold DEF Goto
  <2> QED BY <2>1, <2>4 DEF Refines
<1> QED BY <1>1, <1>2, <1>3 DEF Update

(* After a load: an early return, or a task in sync.                       *)
LEMMA DecideRefines ==
  ASSUME IInv, LInv, NEW c \in Calls, NEW verdict, NEW pc, NEW rec,
         Decide(c, verdict, pc, rec),
         verdict = "Proceed" =>
           Sync([call[c] EXCEPT !.pc = pc, !.rec = rec], store[call[c].vol])
  PROVE  Refines
<1>1. UNCHANGED store /\ Elsewhere(c)
  BY QuietElsewhere DEF Decide
<1>2. CASE verdict = "Proceed"
  <2>1. Hold(c, pc, rec)
    BY <1>2 DEF Decide
  <2>2. Sync([call[c] EXCEPT !.pc = pc, !.rec = rec], store'[call[c].vol])
    BY <1>1, <1>2
  <2> QED BY <1>1, <2>1, <2>2, SyncHold, QuietRefines
<1>3. CASE verdict # "Proceed"
  <2>1. Reply(c, verdict)
    BY <1>3 DEF Decide
  <2> QED BY <1>1, <2>1, SyncReply, QuietRefines
<1> QED BY <1>2, <1>3

-------------------------------------------------------------------------------
(* The handlers.                                                           *)

LEMMA ControllerRefines ==
  ASSUME IInv, LInv, NEW c \in Calls, ControllerStep(c)
  PROVE  Refines
<1> DEFINE q == call[c]
           s == store[q.vol]
<1>1. /\ q \in Call /\ TaskSound(q) /\ s = Loaded(c)
      /\ Sync(q, s)
  BY TaskBefore DEF LInv, InSync, Loaded
<1>2. /\ q.vol \in Volumes
      /\ s # None => s \in Volume /\ WellFormed(s)
  <2>1. q.pc \in Await
    BY DEF ControllerStep, CreateVolumeGet, CreateVolumePost, CreateVolumeLoad,
       DeleteVolumeLoad, DeleteVolumeUnlink, DeleteVolumeDelete, ControllerPublishLoad,
       ControllerPublishPatch, ControllerUnpublishLoad, ControllerUnpublishPatch,
       At, Await
  <2>2. q.vol \in Volumes
    BY <1>1, <2>1 DEF TaskSound
  <2> QED BY <1>1, <2>2, LoadedSound
<1>3. CASE CreateVolumeGet(c)
  <2>1. PICK pc \in {"load", "post"} : Goto(c, pc)
    BY <1>3 DEF CreateVolumeGet
  <2> DEFINE p == [q EXCEPT !.pc = pc, !.rec = q.rec]
  <2>2. p.pc = pc
    BY <1>1 DEF Call
  <2>3. Sync(p, store'[q.vol])
    <3> HIDE DEF p
    <3> QED BY <2>1, <2>2, IdleSync
  <2>4. UNCHANGED store /\ Elsewhere(c)
    BY <1>3, QuietElsewhere DEF CreateVolumeGet
  <2> QED BY <2>1, <2>3, <2>4, SyncHold, QuietRefines DEF Goto
<1>4. CASE CreateVolumePost(c)
  <2>1. CASE Post(q.vol, Requested(c)) /\ Reply(c, "OK")
    <3>1. Requested(c) \in Volume /\ Fresh(Requested(c))
      <4>1. /\ q.host_base_path \in Bases /\ q.filesystem \in Filesystem
            /\ q.size \in Nat /\ q.configs \in SUBSET VolumeMode
        BY <1>1, <1>4 DEF CreateVolumePost, At, TaskSound, Call
      <4> QED BY <4>1, NewVolumeSound DEF Requested, Fresh, NewVolume
    <3>2. [Lifecycle!Next]_store
      BY <1>2, <2>1, <3>1, CreateStep
    <3>3. Elsewhere(c)
      BY <2>1 DEF Post, Elsewhere, IInv, TypeOK
    <3> QED BY <2>1, <3>2, <3>3, SyncReply DEF Refines
  <2>2. CASE Reply(c, "Internal") /\ UNCHANGED store
    BY <2>2, QuietElsewhere, SyncReply, QuietRefines
  <2> QED BY <1>4, <2>1, <2>2 DEF CreateVolumePost
<1>5. CASE CreateVolumeLoad(c)
  <2>1. \E code : Reply(c, code)
    BY <1>5 DEF CreateVolumeLoad
  <2> QED BY <1>5, <2>1, QuietElsewhere, SyncReply, QuietRefines DEF CreateVolumeLoad
<1>6. CASE DeleteVolumeLoad(c)
  <2>1. ASSUME DeleteVerdict(s) = "Proceed"
        PROVE  Sync([q EXCEPT !.pc = "unlink", !.rec = s], s)
    <3>1. s # None /\ s.state = "Open"
      BY <2>1 DEF DeleteVerdict
    <3> QED BY <1>1, <3>1 DEF Sync, Preparing, Publishing, Writing, Call
  <2> QED BY <1>1, <1>6, <2>1, DecideRefines DEF DeleteVolumeLoad
<1>7. CASE DeleteVolumeUnlink(c)
  <2>1. UNCHANGED store /\ Elsewhere(c)
    BY <1>7, QuietElsewhere DEF DeleteVolumeUnlink
  <2>2. CASE Goto(c, "delete")
    <3>1. s # None /\ s.state = "Open"
      BY <1>1, <1>7 DEF DeleteVolumeUnlink, At, Sync
    <3>2. Sync([q EXCEPT !.pc = "delete", !.rec = q.rec], store'[q.vol])
      BY <1>1, <2>1, <3>1 DEF Sync, Preparing, Publishing, Writing, Call
    <3> QED BY <2>1, <2>2, <3>2, SyncHold, QuietRefines DEF Goto
  <2>3. CASE Reply(c, "Internal")
    BY <2>1, <2>3, SyncReply, QuietRefines
  <2> QED BY <1>7, <2>2, <2>3 DEF DeleteVolumeUnlink
<1>8. CASE DeleteVolumeDelete(c)
  <2>1. CASE Remove(q.vol) /\ Reply(c, "OK")
    <3>1. s.state = "Open"
      BY <1>1, <1>8 DEF DeleteVolumeDelete, At, Sync
    <3>2. [Lifecycle!Next]_store
      BY <1>2, <2>1, <3>1, DestroyStep
    <3>3. Elsewhere(c)
      BY <2>1 DEF Remove, Elsewhere, IInv, TypeOK
    <3> QED BY <2>1, <3>2, <3>3, SyncReply DEF Refines
  <2>2. CASE Reply(c, "Internal") /\ UNCHANGED store
    BY <2>2, QuietElsewhere, SyncReply, QuietRefines
  <2> QED BY <1>8, <2>1, <2>2 DEF DeleteVolumeDelete
<1>9. CASE ControllerPublishLoad(c)
  <2> DEFINE r == ControllerPublished(s, q)
  <2>1. ASSUME ControllerPublishVerdict(q, s) = "Proceed"
        PROVE  Sync([q EXCEPT !.pc = "patch", !.rec = r], s)
    <3>1. s # None
      BY <2>1 DEF ControllerPublishVerdict
    <3>2. s \in Volume
      BY <1>2, <3>1
    <3>3. s.state = "Open"
      BY <2>1, <3>2 DEF ControllerPublishVerdict, Volume, VolumeState
    <3>4. Legal(s, r)
      BY <3>2, <3>3 DEF Legal, Publication, SameIdentity, AsCreated, SameMounts,
                        ControllerPublished, Volume
    <3> HIDE DEF r
    <3> QED BY <1>1, <3>1, <3>4 DEF Sync, Preparing, Publishing, Writing, Call
  <2> QED BY <1>1, <1>9, <2>1, DecideRefines DEF ControllerPublishLoad
<1>10. CASE ControllerUnpublishLoad(c)
  <2> DEFINE r == ControllerUnpublished(s)
  <2>1. ASSUME ControllerUnpublishVerdict(s) = "Proceed"
        PROVE  Sync([q EXCEPT !.pc = "patch", !.rec = r], s)
    <3>1. s # None
      BY <2>1 DEF ControllerUnpublishVerdict
    <3>2. s \in Volume
      BY <1>2, <3>1
    <3>3. s.state = "ControllerPublished"
      BY <2>1, <3>1, <3>2 DEF ControllerUnpublishVerdict, Volume, VolumeState
    <3>4. Legal(s, r)
      BY <3>2, <3>3 DEF Legal, Publication, SameIdentity, AsCreated, SameMounts,
                        ControllerUnpublished, Volume
    <3> HIDE DEF r
    <3> QED BY <1>1, <3>1, <3>4 DEF Sync, Preparing, Publishing, Writing, Call
  <2> QED BY <1>1, <1>10, <2>1, DecideRefines DEF ControllerUnpublishLoad
<1>11. CASE ControllerPublishPatch(c) \/ ControllerUnpublishPatch(c)
  BY <1>11, LastUpdateRefines DEF ControllerPublishPatch, ControllerUnpublishPatch, At
<1> QED BY <1>3, <1>4, <1>5, <1>6, <1>7, <1>8, <1>9, <1>10, <1>11 DEF ControllerStep

(* A handler that goes on, or answers, without a write.                    *)
LEMMA GotoRefines ==
  ASSUME IInv, LInv, NEW c \in Calls, NEW pc, Goto(c, pc), UNCHANGED store,
         Sync([call[c] EXCEPT !.pc = pc], store[call[c].vol])
  PROVE  Refines
<1>1. [call[c] EXCEPT !.pc = pc, !.rec = call[c].rec] = [call[c] EXCEPT !.pc = pc]
  BY TaskBefore DEF Call
<1>2. Sync([call[c] EXCEPT !.pc = pc, !.rec = call[c].rec], store'[call[c].vol])
  BY <1>1
<1> QED BY <1>2, QuietElsewhere, SyncHold, QuietRefines DEF Goto

LEMMA ReplyRefines ==
  ASSUME IInv, LInv, NEW c \in Calls, NEW code, Reply(c, code), UNCHANGED store
  PROVE  Refines
BY QuietElsewhere, SyncReply, QuietRefines

LEMMA NodePublishRefines ==
  ASSUME IInv, LInv, NEW c \in Calls, NodePublishStep(c)
  PROVE  Refines
<1> DEFINE q == call[c]
           s == store[q.vol]
<1>1. /\ q \in Call /\ TaskSound(q) /\ s = Loaded(c)
      /\ Sync(q, s)
  BY TaskBefore DEF LInv, InSync, Loaded
<1>2. q.op = "NodePublish" /\ q.vol \in Volumes /\ q.node \in Nodes
  BY <1>1 DEF NodePublishStep, NodePublishLoad, NodePublishMkdir, NodePublishStat,
              NodePublishMake, NodePublishCreate, NodePublishAllocate, NodePublishMkfs,
              NodePublishAssign, NodePublishLosetup, NodePublishMount, NodePublishPatch,
              At, TaskSound, Await
<1>3. q.pc \in Publishing => q.rec \in Volume /\ WellFormed(q.rec) /\ Publishable(q)
  BY <1>1, <1>2 DEF TaskSound
(* A task that prepares the node leaves its copy as it is.                 *)
<1>4. ASSUME NEW pc \in Preparing, pc # "mount", q.pc \in Preparing
      PROVE  Sync([q EXCEPT !.pc = pc], s)
  BY <1>1, <1>4 DEF Sync, Preparing, Publishing, Writing, Call
<1>5. CASE NodePublishLoad(c)
  <2>1. ASSUME NodePublishVerdict(q, s) = "Proceed"
        PROVE  Sync([q EXCEPT !.pc = "mkdir", !.rec = s], s)
    <3>1. ~LockedElsewhere(s, q.node)
      BY <2>1 DEF NodePublishVerdict
    <3> QED BY <1>1, <3>1 DEF Sync, Preparing, Publishing, Writing, Call, LockedElsewhere
  <2> QED BY <1>1, <1>5, <2>1, DecideRefines DEF NodePublishLoad
<1>6. CASE NodePublishMkdir(c)
  <2>1. q.pc \in Preparing /\ "stat" \in Preparing
    BY <1>6 DEF NodePublishMkdir, At, Preparing, Publishing
  <2> QED BY <1>4, <1>6, <2>1, GotoRefines DEF NodePublishMkdir
<1>7. CASE NodePublishStat(c)
  <2>1. PICK pc \in {"losetup", "make"} : Goto(c, pc)
    BY <1>7 DEF NodePublishStat
  <2>2. q.pc \in Preparing /\ pc \in Preparing /\ pc # "mount"
    BY <1>7, <2>1 DEF NodePublishStat, At, Preparing, Publishing
  <2> QED BY <1>4, <1>7, <2>1, <2>2, GotoRefines DEF NodePublishStat
<1>8. CASE NodePublishMake(c)
  <2>1. q.pc \in Preparing /\ "create" \in Preparing
    BY <1>8 DEF NodePublishMake, At, Preparing, Publishing
  <2>2. Reply(c, "Internal") \/ Goto(c, "create")
    BY <1>8 DEF NodePublishMake
  <2> QED BY <1>4, <1>8, <2>1, <2>2, GotoRefines, ReplyRefines DEF NodePublishMake
(* The assignment of a volume that nobody else has.                        *)
<1>9. ASSUME q.pc \in Preparing, Hold(c, "assign", Assigned(q)), UNCHANGED store
      PROVE  Refines
  <2>1. q.rec = s /\ s \in Volume /\ s # None /\ ~LockedElsewhere(s, q.node)
    BY <1>1, <1>3, <1>9, NoRecordAssumption DEF Sync, Preparing
  <2> DEFINE r == Assigned(q)
  <2>2. Legal(s, r) /\ r.assigned_node_id = q.node
    BY <1>2, <2>1 DEF Legal, Assignment, AsCreated, SamePublication, SameMounts,
                      Assigned, LockedElsewhere, Volume
  <2>3. Sync([q EXCEPT !.pc = "assign", !.rec = r], s)
    <3> HIDE DEF r
    <3> QED BY <1>1, <2>1, <2>2 DEF Sync, Preparing, Publishing, Writing, Call, LockedElsewhere
  <2> QED BY <1>9, <2>3, QuietElsewhere, SyncHold, QuietRefines
<1>10. CASE NodePublishCreate(c)
  <2>1. q.pc \in Preparing /\ "allocate" \in Preparing
    BY <1>10 DEF NodePublishCreate, At, Preparing, Publishing
  <2>2. Hold(c, "assign", Assigned(q)) \/ Goto(c, "allocate")
    BY <1>10 DEF NodePublishCreate
  <2> QED BY <1>4, <1>9, <1>10, <2>1, <2>2, GotoRefines DEF NodePublishCreate
<1>16. CASE NodePublishAllocate(c)
  <2>1. q.pc \in Preparing /\ "mkfs" \in Preparing
    BY <1>16 DEF NodePublishAllocate, At, Preparing, Publishing
  <2> QED BY <1>4, <1>16, <2>1, GotoRefines DEF NodePublishAllocate
<1>11. CASE NodePublishMkfs(c)
  <2>1. q.pc \in Preparing
    BY <1>11 DEF NodePublishMkfs, At, Preparing, Publishing
  <2>2. Hold(c, "assign", Assigned(q)) \/ Reply(c, "Internal")
    BY <1>11 DEF NodePublishMkfs
  <2> QED BY <1>9, <1>11, <2>1, <2>2, ReplyRefines DEF NodePublishMkfs
<1>12. CASE NodePublishAssign(c)
  <2>1. q.pc = "assign"
    BY <1>12 DEF NodePublishAssign, At
  <2>2. CASE Patch(q.vol, q.rec) /\ Goto(c, "losetup")
    <3>1. [Lifecycle!Next]_store /\ Elsewhere(c) /\ store'[q.vol] = q.rec
      BY <2>1, <2>2, PatchRefines DEF Writing
    <3>2. ~LockedElsewhere(q.rec, q.node)
      BY <1>1, <2>1 DEF Sync, Publishing
    <3>3. Sync([q EXCEPT !.pc = "losetup", !.rec = q.rec], store'[q.vol])
      BY <1>1, <3>1, <3>2 DEF Sync, Preparing, Publishing, Writing, Call, LockedElsewhere
    <3> QED BY <2>2, <3>1, <3>3, SyncHold DEF Goto, Refines
  <2>3. CASE Reply(c, "Internal") /\ UNCHANGED store
    BY <2>3, ReplyRefines
  <2> QED BY <1>12, <2>2, <2>3 DEF NodePublishAssign, Update
<1>13. CASE NodePublishLosetup(c)
  <2>1. q.pc \in Preparing
    BY <1>13 DEF NodePublishLosetup, At, Preparing, Publishing
  <2>2. Reply(c, "Internal") \/
        \E d : q.rec.loop_device \in {None, d} /\ HoldDevice(c, "mount", q.rec, d)
    BY <1>13 DEF NodePublishLosetup
  <2>3. ASSUME NEW d, q.rec.loop_device \in {None, d}, HoldDevice(c, "mount", q.rec, d)
        PROVE  Refines
    <3>1. UNCHANGED store
      BY <1>13 DEF NodePublishLosetup
    <3>2. Sync([q EXCEPT !.pc = "mount", !.rec = q.rec, !.dev = d], store'[q.vol])
      BY <1>1, <2>1, <2>3, <3>1 DEF Sync, Preparing, Publishing, Writing, Call, LockedElsewhere
    <3> QED BY <2>3, <3>1, <3>2, QuietElsewhere, SyncHoldDevice, QuietRefines
  <2> QED BY <1>13, <2>2, <2>3, ReplyRefines DEF NodePublishLosetup
<1>14. CASE NodePublishMount(c)
  <2>1. q.pc = "mount" /\ q.pc \in Preparing /\ UNCHANGED store
    BY <1>14 DEF NodePublishMount, At, Preparing, Publishing
  <2>2. CASE Hold(c, "patch", NodePublished(q))
    <3> DEFINE r == NodePublished(q)
    <3>1. /\ q.rec = s /\ s \in Volume /\ s # None /\ WellFormed(s)
          /\ s.state # "Open" /\ s.loop_device \in {None, q.dev}
      BY <1>1, <1>3, <2>1, NoRecordAssumption DEF Sync, Preparing, Publishable
    <3>2. /\ r.state = "NodePublished" /\ r.loop_device = q.dev
          /\ SameIdentity(s, r) /\ SamePublication(s, r)
      BY <3>1 DEF NodePublished, SameIdentity, AsCreated, SamePublication, Volume
    <3>3. s.state = "ControllerPublished" => Mounting(s, r)
      BY <3>2 DEF Mounting
    <3>4. s.state = "NodePublished" => Remounting(s, r)
      BY <3>1, <3>2 DEF Remounting, WellFormed
    <3>5. Legal(s, r)
      BY <3>1, <3>3, <3>4 DEF Legal, Volume, VolumeState
    <3>6. Sync([q EXCEPT !.pc = "patch", !.rec = r], s)
      <4> HIDE DEF r
      <4> QED BY <1>1, <3>1, <3>5 DEF Sync, Preparing, Publishing, Writing, Call
    <3> QED BY <2>1, <2>2, <3>6, QuietElsewhere, SyncHold, QuietRefines
  <2>3. CASE Reply(c, "Internal")
    BY <2>1, <2>3, ReplyRefines
  <2> QED BY <1>14, <2>2, <2>3 DEF NodePublishMount
<1>15. CASE NodePublishPatch(c)
  BY <1>15, LastUpdateRefines DEF NodePublishPatch, At
<1> QED BY <1>5, <1>6, <1>7, <1>8, <1>10, <1>11, <1>12, <1>13, <1>14, <1>15, <1>16
        DEF NodePublishStep

LEMMA NodeUnpublishRefines ==
  ASSUME IInv, LInv, NEW c \in Calls,
         \/ NodeUnpublishLoad(c) \/ NodeUnpublishUmount(c) \/ NodeUnpublishUnloop(c)
         \/ NodeUnpublishPatch(c) \/ NodeUnpublishRmdir(c)
  PROVE  Refines
<1> DEFINE q == call[c]
           s == store[q.vol]
<1>1. /\ q \in Call /\ TaskSound(q) /\ s = Loaded(c)
      /\ Sync(q, s)
  BY TaskBefore DEF LInv, InSync, Loaded
<1>2. CASE NodeUnpublishLoad(c)
  <2>1. Sync([q EXCEPT !.pc = "umount", !.rec = s], s)
    BY <1>1 DEF Sync, Preparing, Publishing, Writing, Call
  <2> QED BY <1>1, <1>2, <2>1, DecideRefines DEF NodeUnpublishLoad
<1>3. CASE NodeUnpublishUmount(c)
  <2> DEFINE r == NodeUnpublished(q)
  <2>1. /\ q.pc = "umount" /\ UNCHANGED store
        /\ q.rec = s /\ s \in Volume /\ s # None /\ WellFormed(s)
        /\ q.target \in s.mount_paths
    BY <1>1, <1>3, NoRecordAssumption DEF NodeUnpublishUmount, At, Sync, TaskSound
  <2>2. s.state = "NodePublished"
    BY <2>1 DEF WellFormed
  <2>3. /\ SameIdentity(s, r) /\ SamePublication(s, r)
        /\ \/ r.state = "ControllerPublished"
           \/ r.state = "NodePublished" /\ r.loop_device = s.loop_device
    BY <2>1, <2>2 DEF NodeUnpublished, SameIdentity, AsCreated, SamePublication, Volume
  <2>4. Legal(s, r)
    BY <2>2, <2>3 DEF Legal, Mounting, Remounting
  <2>5. CASE \E d : HoldDevice(c, "unloop", r, d)
    <3>1. PICK d : HoldDevice(c, "unloop", r, d)
      BY <2>5
    <3>2. Sync([q EXCEPT !.pc = "unloop", !.rec = r, !.dev = d], s)
      <4> HIDE DEF r
      <4> QED BY <1>1, <2>1, <2>4 DEF Sync, Preparing, Publishing, Writing, Call
    <3> QED BY <2>1, <3>1, <3>2, QuietElsewhere, SyncHoldDevice, QuietRefines
  <2>6. CASE Hold(c, "patch", r)
    <3>1. Sync([q EXCEPT !.pc = "patch", !.rec = r], s)
      <4> HIDE DEF r
      <4> QED BY <1>1, <2>1, <2>4 DEF Sync, Preparing, Publishing, Writing, Call
    <3> QED BY <2>1, <2>6, <3>1, QuietElsewhere, SyncHold, QuietRefines
  <2>7. CASE Reply(c, "Internal")
    BY <2>1, <2>7, ReplyRefines
  <2> QED BY <1>3, <2>5, <2>6, <2>7 DEF NodeUnpublishUmount
<1>4. CASE NodeUnpublishUnloop(c)
  <2>1. q.pc = "unloop" /\ UNCHANGED store
    BY <1>4 DEF NodeUnpublishUnloop, At
  <2>2. Sync([q EXCEPT !.pc = "patch"], s)
    BY <1>1, <2>1 DEF Sync, Preparing, Publishing, Writing, Call
  <2> QED BY <1>4, <2>1, <2>2, GotoRefines DEF NodeUnpublishUnloop
<1>5. CASE NodeUnpublishPatch(c)
  BY <1>5, LastUpdateRefines DEF NodeUnpublishPatch, At
<1>6. CASE NodeUnpublishRmdir(c)
  BY <1>6, ReplyRefines DEF NodeUnpublishRmdir
<1> QED BY <1>2, <1>3, <1>4, <1>5, <1>6

LEMMA NodeExpandRefines ==
  ASSUME IInv, LInv, NEW c \in Calls,
         \/ NodeExpandLoad(c) \/ NodeExpandTruncate(c)
         \/ NodeExpandGrow(c) \/ NodeExpandPatch(c)
  PROVE  Refines
<1> DEFINE q == call[c]
           s == store[q.vol]
<1>1. /\ q \in Call /\ TaskSound(q) /\ s = Loaded(c)
      /\ Sync(q, s)
  BY TaskBefore DEF LInv, InSync, Loaded
<1>2. CASE NodeExpandLoad(c)
  <2> DEFINE r  == Expanded(s, q.size)
             pc == IF s.filesystem = "Bind" THEN "patch" ELSE "truncate"
  <2>1. ASSUME NodeExpandVerdict(q, s) = "Proceed"
        PROVE  Sync([q EXCEPT !.pc = pc, !.rec = r], s)
    <3>1. /\ s # None /\ s.state = "NodePublished" /\ ~(q.size <= s.size)
      BY <2>1 DEF NodeExpandVerdict, PublishedAt
    <3>2. q.vol \in Volumes
      BY <1>1, <1>2 DEF NodeExpandLoad, At, TaskSound, Await
    <3>3. s \in Volume /\ q.size \in Nat
      BY <1>1, <3>1, <3>2, LoadedSound DEF Call
    <3>4. q.size > s.size
      BY <3>1, <3>3 DEF Volume
    <3>5. Legal(s, r)
      BY <3>1, <3>3, <3>4 DEF Legal, Growth, AsCreated, SamePublication, SameMounts,
                              Expanded, Volume
    <3>6. pc \in {"patch", "truncate"}
      OBVIOUS
    <3> HIDE DEF r, pc
    <3> QED BY <1>1, <3>1, <3>5, <3>6 DEF Sync, Preparing, Publishing, Writing, Call
  <2> QED BY <1>1, <1>2, <2>1, DecideRefines DEF NodeExpandLoad
<1>3. CASE NodeExpandTruncate(c)
  <2>1. q.pc = "truncate" /\ UNCHANGED store
    BY <1>3 DEF NodeExpandTruncate, At
  <2>2. Sync([q EXCEPT !.pc = "grow"], s)
    BY <1>1, <2>1 DEF Sync, Preparing, Publishing, Writing, Call
  <2> QED BY <1>3, <2>1, <2>2, GotoRefines, ReplyRefines DEF NodeExpandTruncate
<1>4. CASE NodeExpandGrow(c)
  <2>1. q.pc = "grow" /\ UNCHANGED store
    BY <1>4 DEF NodeExpandGrow, At
  <2>2. Sync([q EXCEPT !.pc = "patch"], s)
    BY <1>1, <2>1 DEF Sync, Preparing, Publishing, Writing, Call
  <2> QED BY <1>4, <2>1, <2>2, GotoRefines, ReplyRefines DEF NodeExpandGrow
<1>5. CASE NodeExpandPatch(c)
  BY <1>5, LastUpdateRefines DEF NodeExpandPatch, At
<1> QED BY <1>2, <1>3, <1>4, <1>5

LEMMA NodeGetStatsRefines ==
  ASSUME IInv, LInv, NEW c \in Calls, NodeGetStatsLoad(c) \/ NodeGetStatsStatfs(c)
  PROVE  Refines
<1>1. Sync([call[c] EXCEPT !.pc = "statfs", !.rec = Loaded(c)], Loaded(c))
  BY TaskBefore DEF Sync, Preparing, Publishing, Writing, Call
<1>2. CASE NodeGetStatsLoad(c)
  BY <1>1, <1>2, DecideRefines DEF NodeGetStatsLoad, Loaded
<1>3. CASE NodeGetStatsStatfs(c)
  BY <1>3, ReplyRefines DEF NodeGetStatsStatfs
<1> QED BY <1>2, <1>3

-------------------------------------------------------------------------------
(* Requests, faults and answers.                                           *)

(* Serial: a call starts when there is none for its volume.                *)
LEMMA StartRefines ==
  ASSUME LInv, NEW c \in Calls, NEW v \in Volumes, UNCHANGED store,
         \A d \in Calls : call[d].vol # v,
         \A d \in Calls \ {c} : call'[d] = call[d],
         call'[c].vol = v, call'[c].pc \in {"get", "load"}
  PROVE  Refines
<1>1. OneCallPerVolume'
  BY DEF LInv, OneCallPerVolume
<1>2. Sync(call'[c], store[v])
  BY IdleSync
<1>3. InSync'
  BY <1>2 DEF LInv, InSync
<1> QED BY <1>1, <1>3, QuietRefines DEF LInv

(* A request fills a slot, and the handler loads its record first.         *)
LEMMA Started ==
  ASSUME IInv, NEW c \in Calls, Request(c)
  PROVE  \E v \in Volumes :
           /\ ~Serial \/ \A d \in Calls : call[d].vol # v
           /\ call'[c].vol = v /\ call'[c].pc \in {"get", "load"}
           /\ \A d \in Calls \ {c} : call'[d] = call[d]
           /\ store' = store
<1>1. PICK v \in Volumes :
        \/ CreateVolume(c, v)      \/ DeleteVolume(c, v)
        \/ ControllerPublish(c, v) \/ ControllerUnpublish(c, v)
        \/ NodePublish(c, v)       \/ NodeUnpublish(c, v)
        \/ NodeExpand(c, v)        \/ NodeGetStats(c, v)
  BY DEF Request
<1>2. DOMAIN call = Calls
  BY DEF IInv, TypeOK
<1>3. /\ store' = store /\ (~Serial \/ \A d \in Calls : call[d].vol # v)
      /\ \A d \in Calls \ {c} : call'[d] = call[d]
  BY <1>1, <1>2 DEF CreateVolume, DeleteVolume, ControllerPublish, ControllerUnpublish,
                    NodePublish, NodeUnpublish, NodeExpand, NodeGetStats, Start
<1>4. call'[c].vol = v /\ call'[c].pc \in {"get", "load"}
  <2>1. CASE CreateVolume(c, v)
    BY <1>2, <2>1 DEF CreateVolume, Start, NoCall
  <2>2. CASE DeleteVolume(c, v)
    BY <1>2, <2>2 DEF DeleteVolume, Start, NoCall
  <2>3. CASE ControllerPublish(c, v)
    BY <1>2, <2>3 DEF ControllerPublish, Start, NoCall
  <2>4. CASE ControllerUnpublish(c, v)
    BY <1>2, <2>4 DEF ControllerUnpublish, Start, NoCall
  <2>5. CASE NodePublish(c, v)
    BY <1>2, <2>5 DEF NodePublish, Start, NoCall
  <2>6. CASE NodeUnpublish(c, v)
    BY <1>2, <2>6 DEF NodeUnpublish, Start, NoCall
  <2>7. CASE NodeExpand(c, v)
    BY <1>2, <2>7 DEF NodeExpand, Start, NoCall
  <2>8. CASE NodeGetStats(c, v)
    BY <1>2, <2>8 DEF NodeGetStats, Start, NoCall
  <2> QED BY <1>1, <2>1, <2>2, <2>3, <2>4, <2>5, <2>6, <2>7, <2>8
<1> WITNESS v \in Volumes
<1> QED BY <1>3, <1>4

LEMMA RequestRefines ==
  ASSUME IInv, LInv, Serial, NEW c \in Calls, Request(c)
  PROVE  Refines
<1>1. PICK v \in Volumes :
        /\ ~Serial \/ \A d \in Calls : call[d].vol # v
        /\ call'[c].vol = v /\ call'[c].pc \in {"get", "load"}
        /\ \A d \in Calls \ {c} : call'[d] = call[d]
        /\ store' = store
  BY Started
<1> QED BY <1>1, StartRefines

(* A request that the API server carries out without the task.             *)
LEMMA RequestServedRefines ==
  ASSUME IInv, LInv, NEW c \in Calls, RequestServed(c)
  PROVE  [Lifecycle!Next]_store /\ Elsewhere(c)
<1> DEFINE q == call[c]
<1>1. q \in Call /\ TaskSound(q) /\ Sync(q, store[q.vol])
  BY TaskBefore DEF LInv, InSync
<1>2. CASE At(c, "CreateVolume", "post") /\ Post(q.vol, Requested(c))
  <2>1. /\ q.vol \in Volumes /\ q.host_base_path \in Bases /\ q.filesystem \in Filesystem
        /\ q.size \in Nat /\ q.configs \in SUBSET VolumeMode
    BY <1>1, <1>2 DEF At, TaskSound, Call, Await
  <2>2. Requested(c) \in Volume /\ Fresh(Requested(c))
    BY <2>1, NewVolumeSound DEF Requested, Fresh, NewVolume
  <2>3. Elsewhere(c)
    BY <1>2 DEF Post, Elsewhere, IInv, TypeOK
  <2> QED BY <1>2, <2>1, <2>2, <2>3, CreateStep
<1>3. CASE At(c, "DeleteVolume", "delete") /\ Remove(q.vol)
  <2>1. q.vol \in Volumes /\ store[q.vol].state = "Open"
    BY <1>1, <1>3 DEF At, TaskSound, Await, Sync
  <2>2. Elsewhere(c)
    BY <1>3 DEF Remove, Elsewhere, IInv, TypeOK
  <2> QED BY <1>3, <2>1, <2>2, DestroyStep
<1>4. CASE q.pc \in {"assign", "patch"} /\ Patch(q.vol, q.rec)
  BY <1>4, PatchRefines DEF Writing
<1> QED BY <1>2, <1>3, <1>4 DEF RequestServed

LEMMA FailRefines ==
  ASSUME IInv, LInv, NEW c \in Calls, Fail(c)
  PROVE  Refines
<1> DEFINE q == call[c]
<1>1. q \in Call /\ Sync(q, store[q.vol])
  BY TaskBefore DEF LInv, InSync
<1>2. CASE q.pc = "unloop"
  <2>1. UNCHANGED store /\ Goto(c, "patch")
    BY <1>2 DEF Fail, RequestServed, At
  <2>2. Sync([q EXCEPT !.pc = "patch"], store[q.vol])
    BY <1>1, <1>2 DEF Sync, Preparing, Publishing, Writing, Call
  <2> QED BY <2>1, <2>2, GotoRefines
<1>3. CASE q.pc # "unloop"
  <2>1. Reply(c, "OK") \/ Reply(c, "Internal")
    BY <1>3 DEF Fail
  <2>2. CASE UNCHANGED store
    BY <2>1, <2>2, ReplyRefines
  <2>3. CASE RequestServed(c)
    BY <2>1, <2>3, RequestServedRefines, SyncReply DEF Refines
  <2> QED BY <2>2, <2>3 DEF Fail
<1> QED BY <1>2, <1>3

(* A task that is dropped, with its last request carried out or not.       *)
LEMMA CancelRefines ==
  ASSUME IInv, LInv, NEW c \in Calls, Cancel(c)
  PROVE  Refines
<1>1. NoCall.vol = None /\ \A s : Sync(NoCall, s)
  BY IdleSync DEF NoCall
<1>2. [Lifecycle!Next]_store /\ Elsewhere(c)
  <2>1. CASE RequestServed(c)
    BY <2>1, RequestServedRefines
  <2>2. CASE UNCHANGED store
    BY <2>2, QuietElsewhere
  <2> QED BY <2>1, <2>2 DEF Cancel, OperationDone, FileDone, DeviceDone, TargetDone,
                            UnmountDone, RemovalDone
<1>3. LInv'
  BY <1>1, <1>2, SyncStep DEF Cancel
<1> QED BY <1>2, <1>3 DEF Refines

(* Tasks that end, or go down with their node, take nothing with them.     *)
LEMMA DropRefines ==
  ASSUME IInv, LInv, UNCHANGED store,
         \A d \in Calls : call'[d] \in {NoCall, call[d]}
  PROVE  Refines
<1>1. NoCall.vol = None /\ \A s : Sync(NoCall, s)
  BY IdleSync DEF NoCall
<1>2. OneCallPerVolume'
  BY <1>1 DEF LInv, OneCallPerVolume
<1>3. InSync'
  BY <1>1 DEF LInv, InSync
<1> QED BY <1>2, <1>3, QuietRefines DEF LInv

-------------------------------------------------------------------------------

LEMMA InitLifecycle == Init => LInv /\ Lifecycle!Init
<1>1. NoCall.vol = None /\ \A s : Sync(NoCall, s)
  BY IdleSync DEF NoCall
<1> QED BY <1>1 DEF Init, StoreInit, CallInit, LInv, OneCallPerVolume, InSync, Lifecycle!Init

LEMMA NextLifecycle == Serial /\ IInv /\ LInv /\ [Next]_vars => Refines
<1> SUFFICES ASSUME Serial, IInv, LInv, [Next]_vars PROVE Refines
  OBVIOUS
<1>1. ASSUME NEW c \in Calls, Request(c) PROVE Refines
  BY <1>1, RequestRefines
<1>2. ASSUME NEW c \in Calls, ControllerStep(c) PROVE Refines
  BY <1>2, ControllerRefines
<1>3. ASSUME NEW c \in Calls, NodeStep(c) PROVE Refines
  BY <1>3, NodePublishRefines, NodeUnpublishRefines, NodeExpandRefines,
     NodeGetStatsRefines DEF NodeStep
<1>4. ASSUME NEW c \in Calls, Fail(c) PROVE Refines
  BY <1>4, FailRefines
<1>5. ASSUME NEW c \in Calls, Cancel(c) \/ Return(c) PROVE Refines
  <2>1. CASE Return(c)
    <3>1. UNCHANGED store /\ \A d \in Calls : call'[d] \in {NoCall, call[d]}
      BY <2>1 DEF Return, IInv, TypeOK
    <3> QED BY <3>1, DropRefines
  <2> QED BY <1>5, <2>1, CancelRefines
<1>6. ASSUME NEW n \in Nodes, Reboot(n) PROVE Refines
  BY <1>6, DropRefines DEF Reboot
<1>7. CASE UNCHANGED vars
  BY <1>7, DropRefines DEF vars
<1> QED BY <1>1, <1>2, <1>3, <1>4, <1>5, <1>6, <1>7 DEF Next

(* With one call in flight per volume, no handler starts from a copy that  *)
(* is out of date: all the time, and whatever fails or is cut off, a task  *)
(* holds the record of its volume or one step of its life ahead.           *)
THEOREM CopiesInSync == Serial => (Spec => []LInv)
<1>1. Serial /\ IInv /\ LInv /\ [Next]_vars => LInv'
  BY NextLifecycle DEF Refines
<1>2. Init => LInv
  BY InitLifecycle
<1> SUFFICES ASSUME Serial PROVE Spec => []LInv
  OBVIOUS
<1>3. IInv /\ LInv /\ [Next]_vars => LInv'
  BY <1>1
<1> QED BY <1>2, <1>3, Soundness, PTL DEF Spec

(* Then the records go through the life of a volume.                       *)
THEOREM LifecycleImplemented == Serial => (Spec => LifecycleSpec)
<1> SUFFICES ASSUME Serial PROVE Spec => LifecycleSpec
  OBVIOUS
<1>1. Init => Lifecycle!Init
  BY InitLifecycle
<1>2. IInv /\ LInv /\ [Next]_vars => [Lifecycle!Next]_store
  BY NextLifecycle DEF Refines
<1>3. Spec => []LInv
  BY CopiesInSync
<1> QED BY <1>1, <1>2, <1>3, Soundness, PTL DEF Spec, LifecycleSpec, Lifecycle!Spec
===============================================================================
