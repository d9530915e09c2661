--------------------------------- MODULE Lvp ----------------------------------
(***************************************************************************)
(* lvp: both services in one process on every node that has lvp, over one  *)
(* store, with the faults they meet.                                       *)
(***************************************************************************)
EXTENDS ControllerService, NodeService

Init ==
  /\ StoreInit
  /\ HostInit
  /\ CallInit

-------------------------------------------------------------------------------
(* Faults.                                                                 *)

(* What a task awaits has begun without it, and nothing calls it back: the *)
(* API server serves the request it was sent, the blocking pool ends the   *)
(* file operation, a child process that is not killed on drop ends its     *)
(* command (chroot.rs:8-15).                                               *)
RequestServed(c) ==
  LET q == call[c]
  IN  /\ \/ At(c, "CreateVolume", "post") /\ Post(q.vol, Requested(c))
         \/ At(c, "DeleteVolume", "delete") /\ Remove(q.vol)
         \/ q.pc \in {"assign", "patch"} /\ Patch(q.vol, q.rec)
      /\ UNCHANGED hostVars

FileDone(c) ==
  LET q == call[c]
  IN  /\ \/ At(c, "NodePublish", "create") /\ IF q.rec.filesystem = "Bind"
                                              THEN MakeDirectory(q.node, q.vol)
                                              ELSE CreateFile(q.node, q.vol)
         \/ At(c, "NodePublish", "allocate") /\ Truncate(q.node, q.vol, q.rec.size)
         \/ At(c, "NodePublish", "mkfs") /\ Mkfs(q.node, q.vol)
         \/ At(c, "NodeExpand", "truncate") /\ Truncate(q.node, q.vol, q.size)
         \/ At(c, "NodeExpand", "grow") /\ Grow(q.node, q.rec.loop_device)
      /\ UNCHANGED <<store, loops, mounts>>

DeviceDone(c) ==
  LET q == call[c]
  IN  /\ \/ /\ At(c, "NodePublish", "losetup")
            /\ q.rec.filesystem # "Bind" /\ q.rec.loop_device = None
            /\ \E d \in Devices : Losetup(q.node, q.vol, d)
         \/ At(c, "NodeUnpublish", "unloop") /\ LosetupDetach(q.node, q.dev)
      /\ UNCHANGED <<store, disk, mounts>>

TargetDone(c) ==
  LET q == call[c]
  IN  /\ \/ At(c, "NodePublish", "mkdir") /\ MakeTarget(q.node, q.vol, q.target)
         \/ /\ At(c, "NodePublish", "mount")
            /\ Mount(q.node, q.vol, q.target, q.dev, MountReadonly(q))
         \/ At(c, "NodeUnpublish", "rmdir") /\ RemoveTarget(q.node, q.vol, q.target)
      /\ UNCHANGED <<store, disk, loops>>

UnmountDone(c) ==
  LET q == call[c]
  IN  /\ At(c, "NodeUnpublish", "umount")
      /\ Umount(q.node, q.vol, q.target)
      /\ UNCHANGED <<store, disk>>

RemovalDone(c) ==
  LET q == call[c]
  IN  At(c, "DeleteVolume", "unlink") /\ Unlink(q.node, q.vol) /\ UNCHANGED store

OperationDone(c) ==
  FileDone(c) \/ DeviceDone(c) \/ TargetDone(c) \/ UnmountDone(c) \/ RemovalDone(c)

(* An awaited operation returns an error.  It has had no effect, unless it *)
(* is a request to the API server and only the answer is lost.  Only       *)
(* NodeUnpublish goes on after two of them.                                *)
Fail(c) ==
  /\ "fail" \in Faults /\ Running(c)
  /\ CASE call[c].pc = "unloop" -> Goto(c, "patch")
       [] call[c].pc = "rmdir"  -> Reply(c, "OK")
       [] OTHER                 -> Reply(c, "Internal")
  /\ RequestServed(c) \/ UNCHANGED <<store, hostVars>>

(* tonic drops the task when its client is gone; a crash of lvp drops      *)
(* every task.  What has been done stays, and what was awaited is done by  *)
(* the next call for the volume or not at all.                             *)
Cancel(c) ==
  /\ "cancel" \in Faults /\ Running(c)
  /\ call' = [call EXCEPT ![c] = NoCall]
  /\ RequestServed(c) \/ OperationDone(c) \/ UNCHANGED <<store, hostVars>>

(* A reboot ends the tasks of the node.  Those of the controller that      *)
(* touch no node may run anywhere: they go on, or are dropped by Cancel.   *)
ServedBy(c, n) == call[c].node = n /\ call[c].op # "ControllerPublish"

Reboot(n) ==
  /\ "reboot" \in Faults
  /\ LoseKernelState(n)
  /\ call' = [c \in Calls |-> IF ServedBy(c, n) THEN NoCall ELSE call[c]]
  /\ UNCHANGED store

(* The CO has the answer.                                                  *)
Return(c) ==
  /\ call[c].pc = "reply"
  /\ call' = [call EXCEPT ![c] = NoCall]
  /\ UNCHANGED <<store, hostVars>>

-------------------------------------------------------------------------------
Request(c) ==
  \E v \in Volumes :
    \/ CreateVolume(c, v)      \/ DeleteVolume(c, v)
    \/ ControllerPublish(c, v) \/ ControllerUnpublish(c, v)
    \/ NodePublish(c, v)       \/ NodeUnpublish(c, v)
    \/ NodeExpand(c, v)       \/ NodeGetStats(c, v)

ControllerStep(c) ==
  \/ CreateVolumeGet(c)         \/ CreateVolumePost(c)   \/ CreateVolumeLoad(c)
  \/ DeleteVolumeLoad(c)        \/ DeleteVolumeUnlink(c) \/ DeleteVolumeDelete(c)
  \/ ControllerPublishLoad(c)   \/ ControllerPublishPatch(c)
  \/ ControllerUnpublishLoad(c) \/ ControllerUnpublishPatch(c)

NodePublishStep(c) ==
  \/ NodePublishLoad(c)   \/ NodePublishMkdir(c)  \/ NodePublishStat(c)
  \/ NodePublishMake(c)   \/ NodePublishCreate(c) \/ NodePublishAllocate(c)
  \/ NodePublishMkfs(c)   \/ NodePublishAssign(c) \/ NodePublishLosetup(c)
  \/ NodePublishMount(c)  \/ NodePublishPatch(c)

NodeStep(c) ==
  \/ NodePublishStep(c)
  \/ NodeUnpublishLoad(c)  \/ NodeUnpublishUmount(c) \/ NodeUnpublishUnloop(c)
  \/ NodeUnpublishPatch(c) \/ NodeUnpublishRmdir(c)
  \/ NodeExpandLoad(c)     \/ NodeExpandTruncate(c)
  \/ NodeExpandGrow(c)     \/ NodeExpandPatch(c)
  \/ NodeGetStatsLoad(c)   \/ NodeGetStatsStatfs(c)

Next ==
  \/ \E c \in Calls : \/ Request(c) \/ ControllerStep(c) \/ NodeStep(c)
                      \/ Fail(c) \/ Cancel(c) \/ Return(c)
  \/ \E n \in Nodes : Reboot(n)

Spec == Init /\ [][Next]_vars
===============================================================================
