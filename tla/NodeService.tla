----------------------------- MODULE NodeService ------------------------------
(***************************************************************************)
(* The node service: the handlers of src/node.rs that need a record.  An   *)
(* operator named for an RPC is its arrival; the ones after it are its     *)
(* awaits, in order.                                                       *)
(***************************************************************************)
EXTENDS Tasks

(* NodePublishVolume                                                       *)

NodePublish(c, v) ==
  \E n \in Nodes, t \in Targets, config \in Modes, fs \in RequestFilesystems,
     ro \in Readonlys :
    Start(c, v, [NoCall EXCEPT !.op = "NodePublish", !.pc = "load", !.vol = v,
                               !.node = n, !.target = t, !.config = config,
                               !.filesystem = fs, !.readonly = ro])

\* Mutant: any volume goes to a second target.
PublishedInOtherMode(r, q) ==
  /\ r.state = "NodePublished" /\ r.published_config # None
  /\ r.published_config # q.config

(* Only a volume published as multi-writer goes to a second target.        *)
PublishedOtherwise(r, q) ==
  /\ r.state = "NodePublished" /\ r.published_config # None
  /\ \/ r.published_config # "SingleNodeMultiWriter" /\ q.target \notin r.mount_paths
     \/ r.published_config # q.config

\* Mutant: OK for any target once the volume is mounted at one.
AnyTargetPublished(q, r) ==
  IF r = None THEN "NotFound"
  ELSE IF ~Compatible(r, q.config, q.filesystem) THEN "AlreadyExists"
  ELSE IF LockedElsewhere(r, q.node) THEN "NotFound"
  ELSE IF r.state = "Open" \/ PublishedOtherwise(r, q) THEN "FailedPrecondition"
  ELSE IF r.mount_paths # {} THEN "OK"
  ELSE "Proceed"

\* Mutant: a volume that has its node is taken for mounted there.
AssignedIsPublished(q, r) ==
  IF r = None THEN "NotFound"
  ELSE IF ~Compatible(r, q.config, q.filesystem) THEN "AlreadyExists"
  ELSE IF LockedElsewhere(r, q.node) THEN "NotFound"
  ELSE IF r.state = "Open" \/ PublishedOtherwise(r, q) THEN "FailedPrecondition"
  ELSE IF r.assigned_node_id = q.node THEN "OK"
  ELSE "Proceed"

NodePublishVerdict(q, r) ==
  IF r = None THEN "NotFound"
  ELSE IF ~Compatible(r, q.config, q.filesystem) THEN "AlreadyExists"
  ELSE IF LockedElsewhere(r, q.node) THEN "NotFound"
  ELSE IF r.state = "Open" \/ PublishedOtherwise(r, q) THEN "FailedPrecondition"
  ELSE IF q.target \in r.mount_paths THEN "OK"
  ELSE "Proceed"

NodePublishLoad(c) ==
  /\ At(c, "NodePublish", "load")
  /\ Decide(c, NodePublishVerdict(call[c], Loaded(c)), "mkdir", Loaded(c))

NodePublishMkdir(c) ==
  /\ At(c, "NodePublish", "mkdir")
  /\ MakeTarget(call[c].node, call[c].vol, call[c].target)
  /\ Goto(c, "stat")
  /\ UNCHANGED <<store, disk, loops>>

\* Mutant: nobody looks whether there is a file.
NodePublishAnew(c) ==
  /\ At(c, "NodePublish", "stat")
  /\ Goto(c, "create")
  /\ UNCHANGED <<store, hostVars>>

(* try_exists of the handler, then that of make_volume.                    *)
NodePublishStat(c) ==
  /\ At(c, "NodePublish", "stat")
  /\ Goto(c, IF disk[call[c].node][call[c].vol].exists THEN "losetup" ELSE "make")
  /\ UNCHANGED <<store, hostVars>>

NodePublishMake(c) ==
  /\ At(c, "NodePublish", "make")
  /\ IF disk[call[c].node][call[c].vol].exists
     THEN Reply(c, "Internal") ELSE Goto(c, "create")
  /\ UNCHANGED <<store, hostVars>>

\* Mutants: the node is not recorded; the target is recorded in its place.
AssignedNowhere(q) == q.rec
AssignedToTarget(q) == [q.rec EXCEPT !.assigned_node_id = q.target]

Assigned(q) == [q.rec EXCEPT !.assigned_node_id = q.node]

(* A bind volume is a directory and needs no mkfs.                         *)
NodePublishCreate(c) ==
  /\ At(c, "NodePublish", "create")
  /\ IF call[c].rec.filesystem = "Bind"
     THEN /\ MakeDirectory(call[c].node, call[c].vol)
          /\ Hold(c, "assign", Assigned(call[c]))
     ELSE CreateFile(call[c].node, call[c].vol) /\ Goto(c, "allocate")
  /\ UNCHANGED <<store, loops, mounts>>

(* ftruncate has the file by its descriptor: a name that is gone is no     *)
(* error.                                                                  *)
NodePublishAllocate(c) ==
  LET q == call[c]
  IN  /\ At(c, "NodePublish", "allocate")
      /\ \/ Truncate(q.node, q.vol, q.rec.size)
         \/ ~disk[q.node][q.vol].exists /\ UNCHANGED disk
      /\ Goto(c, "mkfs")
      /\ UNCHANGED <<store, loops, mounts>>

NodePublishMkfs(c) ==
  /\ At(c, "NodePublish", "mkfs")
  /\ \/ Mkfs(call[c].node, call[c].vol) /\ Hold(c, "assign", Assigned(call[c]))
     \/ ~CanMkfs(call[c].node, call[c].vol) /\ Reply(c, "Internal") /\ UNCHANGED disk
  /\ UNCHANGED <<store, loops, mounts>>

NodePublishAssign(c) ==
  /\ At(c, "NodePublish", "assign")
  /\ Update(c, Goto(c, "losetup"))

(* The device in the record is used as it is.  `mount bind` is a usage     *)
(* error of mount.                                                         *)
NodePublishLosetup(c) ==
  LET q == call[c]
  IN  /\ At(c, "NodePublish", "losetup")
      /\ \/ /\ q.rec.filesystem = "Bind"
            /\ Reply(c, "Internal") /\ UNCHANGED loops
         \/ /\ q.rec.filesystem # "Bind" /\ q.rec.loop_device # None
            /\ HoldDevice(c, "mount", q.rec, q.rec.loop_device) /\ UNCHANGED loops
         \/ /\ q.rec.filesystem # "Bind" /\ q.rec.loop_device = None
            /\ \E d \in Devices :
                 Losetup(q.node, q.vol, d) /\ HoldDevice(c, "mount", q.rec, d)
         \/ /\ q.rec.filesystem # "Bind" /\ q.rec.loop_device = None
            /\ ~CanLosetup(q.node, q.vol)
            /\ Reply(c, "Internal") /\ UNCHANGED loops
      /\ UNCHANGED <<store, disk, mounts>>

\* Mutant: the readonly of ControllerPublishVolume is forgotten.
RequestReadonly(q) == q.readonly

MountReadonly(q) == q.readonly \/ q.rec.published_readonly

NodePublished(q) ==
  [q.rec EXCEPT !.state = "NodePublished", !.loop_device = q.dev,
                !.mount_paths = @ \cup {q.target}]

NodePublishMount(c) ==
  LET q == call[c]
  IN  /\ At(c, "NodePublish", "mount")
      /\ \/ /\ Mount(q.node, q.vol, q.target, q.dev, MountReadonly(q))
            /\ Hold(c, "patch", NodePublished(q))
         \/ /\ ~CanMount(q.node, q.vol, q.target, q.dev, MountReadonly(q))
            /\ Reply(c, "Internal") /\ UNCHANGED mounts
      /\ UNCHANGED <<store, disk, loops>>

NodePublishPatch(c) ==
  /\ At(c, "NodePublish", "patch")
  /\ Update(c, Reply(c, "OK"))

-------------------------------------------------------------------------------
(* NodeUnpublishVolume                                                     *)

NodeUnpublish(c, v) ==
  \E n \in Nodes, t \in Targets :
    Start(c, v, [NoCall EXCEPT !.op = "NodeUnpublish", !.pc = "load", !.vol = v,
                               !.node = n, !.target = t])

PublishedAt(r, t) == r.state = "NodePublished" /\ t \in r.mount_paths

NodeUnpublishVerdict(q, r) ==
  IF r = None THEN "NotFound"
  ELSE IF ~PublishedAt(r, q.target) THEN "OK"
  ELSE "Proceed"

NodeUnpublishLoad(c) ==
  /\ At(c, "NodeUnpublish", "load")
  /\ Decide(c, NodeUnpublishVerdict(call[c], Loaded(c)), "umount", Loaded(c))

\* Mutants: the other paths are forgotten; the loop device is kept.
PathsForgotten(q) ==
  [q.rec EXCEPT !.mount_paths = {}, !.state = "ControllerPublished", !.loop_device = None]
DeviceKept(q) ==
  LET paths == q.rec.mount_paths \ {q.target}
  IN  [q.rec EXCEPT !.mount_paths = paths,
                    !.state = IF paths = {} THEN "ControllerPublished" ELSE @]

NodeUnpublished(q) ==
  LET paths == q.rec.mount_paths \ {q.target}
  IN  IF paths = {}
      THEN [q.rec EXCEPT !.mount_paths = paths, !.state = "ControllerPublished",
                         !.loop_device = None]
      ELSE [q.rec EXCEPT !.mount_paths = paths]

(* The last path gives the loop device up.                                 *)
NodeUnpublishUmount(c) ==
  LET q   == call[c]
      rec == NodeUnpublished(q)
  IN  /\ At(c, "NodeUnpublish", "umount")
      /\ \/ /\ Umount(q.node, q.vol, q.target)
            /\ IF rec.mount_paths = {} /\ q.rec.loop_device # None
               THEN HoldDevice(c, "unloop", rec, q.rec.loop_device)
               ELSE Hold(c, "patch", rec)
         \/ /\ mounts[q.node][q.vol][q.target].shows = None
            /\ Reply(c, "Internal") /\ UNCHANGED <<loops, mounts>>
      /\ UNCHANGED <<store, disk>>

(* Its failure is only logged.                                             *)
NodeUnpublishUnloop(c) ==
  /\ At(c, "NodeUnpublish", "unloop")
  /\ \/ LosetupDetach(call[c].node, call[c].dev)
     \/ loops[call[c].node][call[c].dev].file = None /\ UNCHANGED loops
  /\ Goto(c, "patch")
  /\ UNCHANGED <<store, disk, mounts>>

NodeUnpublishPatch(c) ==
  /\ At(c, "NodeUnpublish", "patch")
  /\ Update(c, Goto(c, "rmdir"))

NodeUnpublishRmdir(c) ==
  LET q == call[c]
  IN  /\ At(c, "NodeUnpublish", "rmdir")
      /\ \/ RemoveTarget(q.node, q.vol, q.target)
         \/ ~CanRemoveTarget(q.node, q.vol, q.target) /\ UNCHANGED mounts
      /\ Reply(c, "OK")
      /\ UNCHANGED <<store, disk, loops>>

-------------------------------------------------------------------------------
(* NodeExpandVolume                                                        *)

NodeExpand(c, v) ==
  \E n \in Nodes, t \in Targets, size \in Sizes :
    Start(c, v, [NoCall EXCEPT !.op = "NodeExpand", !.pc = "load", !.vol = v,
                               !.node = n, !.target = t, !.size = size])

\* Mutant: a smaller target_capacity is not answered at once.
ExpandAnySize(q, r) ==
  IF r = None \/ ~PublishedAt(r, q.target) THEN "NotFound" ELSE "Proceed"

\* Mutant: a volume that has the size already is an error.
NothingToExpand(q, r) ==
  IF r = None \/ ~PublishedAt(r, q.target) THEN "NotFound"
  ELSE IF q.size <= r.size THEN "InvalidArgument"
  ELSE IF r.loop_device = None THEN "NotFound"
  ELSE "Proceed"

NodeExpandVerdict(q, r) ==
  IF r = None \/ ~PublishedAt(r, q.target) THEN "NotFound"
  ELSE IF q.size <= r.size THEN "OK"
  ELSE IF r.loop_device = None THEN "NotFound"
  ELSE "Proceed"

Expanded(r, size) == [r EXCEPT !.size = size]

(* expand_volume does nothing for a bind volume.                           *)
NodeExpandLoad(c) ==
  /\ At(c, "NodeExpand", "load")
  /\ Decide(c, NodeExpandVerdict(call[c], Loaded(c)),
            IF Loaded(c).filesystem = "Bind" THEN "patch" ELSE "truncate",
            Expanded(Loaded(c), call[c].size))

NodeExpandTruncate(c) ==
  LET q == call[c]
  IN  /\ At(c, "NodeExpand", "truncate")
      /\ \/ Truncate(q.node, q.vol, q.size) /\ Goto(c, "grow")
         \/ ~disk[q.node][q.vol].exists /\ Reply(c, "Internal") /\ UNCHANGED disk
      /\ UNCHANGED <<store, loops, mounts>>

NodeExpandGrow(c) ==
  LET q == call[c]
  IN  /\ At(c, "NodeExpand", "grow")
      /\ \/ Grow(q.node, q.rec.loop_device) /\ Goto(c, "patch")
         \/ /\ ~CanGrow(q.node, q.rec.loop_device)
            /\ Reply(c, "Internal") /\ UNCHANGED disk
      /\ UNCHANGED <<store, loops, mounts>>

NodeExpandPatch(c) ==
  /\ At(c, "NodeExpand", "patch")
  /\ Update(c, Reply(c, "OK"))

-------------------------------------------------------------------------------
(* NodeGetVolumeStats                                                      *)

NodeGetStats(c, v) ==
  \E n \in Nodes, t \in Targets :
    Start(c, v, [NoCall EXCEPT !.op = "NodeGetStats", !.pc = "load", !.vol = v,
                               !.node = n, !.target = t])

NodeGetStatsVerdict(q, r) ==
  IF r = None \/ ~PublishedAt(r, q.target) THEN "NotFound" ELSE "Proceed"

NodeGetStatsLoad(c) ==
  /\ At(c, "NodeGetStats", "load")
  /\ Decide(c, NodeGetStatsVerdict(call[c], Loaded(c)), "statfs", Loaded(c))

(* statvfs of the path: a directory answers for the filesystem it is on,   *)
(* mounted or not.                                                         *)
NodeGetStatsStatfs(c) ==
  LET q == call[c]
  IN  /\ At(c, "NodeGetStats", "statfs")
      /\ Reply(c, IF mounts[q.node][q.vol][q.target].dir THEN "OK" ELSE "Internal")
      /\ UNCHANGED <<store, hostVars>>
===============================================================================
