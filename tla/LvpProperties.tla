----------------------------- MODULE LvpProperties -----------------------------
(***************************************************************************)
(* What lvp should keep to.  Three environments matter.  In every one of   *)
(* them, whatever runs at once and whatever fails, records stay consistent *)
(* with themselves.  With one call in flight per volume, records only go   *)
(* through the life of a volume (VolumeLifecycle).  When moreover nothing  *)
(* fails, node and record agree.                                           *)
(***************************************************************************)
EXTENDS Lvp

(* Every variable holds a value of its type.                               *)
TypeOK ==
  /\ store \in [Volumes -> Volume \cup {None}]
  /\ HostTypeOK
  /\ call \in [Calls -> Call]

-------------------------------------------------------------------------------
(* Any number of calls, any fault.                                         *)

SingleMount(r) ==
  r.published_config # "SingleNodeMultiWriter" =>
    \A s, t \in r.mount_paths : s = t

WellFormed(r) ==
  /\ r.state = "Open" <=> r.published_config = None
  /\ r.state = "Open" => ~r.published_readonly
  /\ r.state = "NodePublished" <=> r.mount_paths # {}
  /\ r.state = "NodePublished" <=> r.loop_device # None
  /\ r.published_config \in r.valid_configs \cup {None}
  /\ SingleMount(r)

(* The fields of a record never contradict each other, although handlers   *)
(* overwrite each other's records: a volume is node-published exactly when *)
(* the record has target paths and a loop device, a volume that is not     *)
(* published keeps nothing of an earlier publication, a volume is          *)
(* published in a mode it was created for, and has two target paths only   *)
(* as a multi-writer (controller.rs:283-318,345-361, node.rs:222-250,      *)
(* 309-313,355-360).                                                       *)
RecordIntegrity == \A v \in Volumes : Exists(v) => WellFormed(store[v])

(* The same of the copies that tasks are going to write, and of the        *)
(* requests they serve: this is what makes RecordIntegrity last.  A        *)
(* NodePublish under way has seen a published volume without its target,   *)
(* and one with other targets only as a multi-writer (node.rs:222-250); a  *)
(* NodeUnpublish has seen its target in the record (node.rs:344-348).      *)
Publishing == {"mkdir", "stat", "make", "create", "allocate", "mkfs", "assign",
               "losetup", "mount"}

Publishable(q) ==
  /\ q.rec.state # "Open"
  /\ q.target \notin q.rec.mount_paths
  /\ q.rec.mount_paths # {} => q.rec.published_config = "SingleNodeMultiWriter"

TaskSound(q) ==
  /\ q.pc \in Await => q.vol \in Volumes
  /\ q.op = "CreateVolume" => q.host_base_path \in Bases /\ q.filesystem \in Filesystem
  /\ q.pc \in Publishing \cup {"umount", "unloop", "truncate", "grow", "patch"} =>
       q.rec \in Volume /\ WellFormed(q.rec)
  /\ q.op \in {"NodePublish", "NodeUnpublish", "NodeExpand", "NodeGetStats"} =>
       q.node \in Nodes /\ q.target \in Targets
  /\ q.op = "DeleteVolume" => q.node \in Nodes
  /\ q.op = "NodePublish" /\ q.pc \in Publishing => Publishable(q)
  /\ q.pc = "umount" => q.target \in q.rec.mount_paths
  /\ q.pc \in {"mount", "unloop"} => q.dev \in Devices

TasksSound == \A c \in Calls : TaskSound(call[c])

-------------------------------------------------------------------------------
(* One call in flight per volume, any fault.                               *)

(* A file never has two loop devices: two mounts of one filesystem would   *)
(* not see each other's writes (node.rs:44-45).                            *)
OneDevicePerFile ==
  \A n \in Nodes, d, e \in Devices :
    loops[n][d].file = loops[n][e].file /\ loops[n][d].file \in Volumes => d = e

(* A filesystem is neither made anew nor lost: File::create and mkfs only  *)
(* run on a file that was not there (node.rs:109-123,267), and the file    *)
(* goes only while the record is there and says that nobody uses the       *)
(* volume, although the record was read before (controller.rs:229-245).    *)
(* (What expansion may cut off it says nothing of: FileCoversFilesystem.)  *)
FilesystemsKept ==
  [][\A n \in Nodes, v \in Volumes :
       disk[n][v].fs > 0 =>
         IF disk'[n][v].exists THEN disk'[n][v].fs > 0
         ELSE Exists(v) /\ store[v].state = "Open"]_vars

Lifecycle == INSTANCE VolumeLifecycle WITH record <- store

(* Every record goes through the life of a volume (module                  *)
(* VolumeLifecycle), one step at a time.                                   *)
LifecycleSpec == Lifecycle!Spec

-------------------------------------------------------------------------------
(* One call in flight per volume and no fault.  Idle(v): no call for v.    *)

Idle(v) == \A c \in Calls : call[c].vol # v

OnNode(v, n) == Exists(v) /\ store[v].assigned_node_id = n

(* Between calls, a volume is mounted exactly at the target paths of its   *)
(* record, on the node it is assigned to, and it is this volume that is    *)
(* seen there (node.rs:309-313,350-355).                                   *)
MountsAgree ==
  \A n \in Nodes, v \in Volumes, t \in Targets :
    Idle(v) => mounts[n][v][t].shows =
                 IF OnNode(v, n) /\ t \in store[v].mount_paths THEN v ELSE None

(* Between calls, the loop device of the record is the one that has the    *)
(* file, and a volume without one in its record has none: no device leaks  *)
(* (node.rs:45,309-311,357-363).                                           *)
DevicesAgree ==
  \A n \in Nodes, d \in Devices, v \in Volumes :
    Idle(v) => (loops[n][d].file = v <=> OnNode(v, n) /\ store[v].loop_device = d)

(* Between calls, a volume has a file on the node it is assigned to and    *)
(* nowhere else; a volume that is gone has none (node.rs:267-285,          *)
(* controller.rs:235-248).                                                 *)
FilesAgree ==
  \A n \in Nodes, v \in Volumes : Idle(v) => (disk[n][v].exists <=> OnNode(v, n))

(* Between calls, the size in the record of a volume in use is the size of *)
(* its file and of its filesystem (node.rs:110-121,475-494).               *)
CapacityBacked ==
  \A n \in Nodes, v \in Volumes :
    Idle(v) /\ OnNode(v, n) /\ store[v].state = "NodePublished" =>
      disk[n][v] = [exists |-> TRUE, size |-> store[v].size, fs |-> store[v].size]

(* A volume that is published readonly is not writable anywhere, whatever  *)
(* was published before (controller.rs:313, node.rs:291).                  *)
ReadonlyHonoured ==
  \A n \in Nodes, v \in Volumes, t \in Targets :
    Exists(v) /\ store[v].published_readonly /\ mounts[n][v][t].shows = v =>
      mounts[n][v][t].ro

(* What an OK answer says is so when it is given: the target of a          *)
(* NodePublish shows the volume, that of a NodeUnpublish shows nothing,    *)
(* statistics that the node of the volume gives are those of the volume    *)
(* and not of the disk below its directory (another node does not look     *)
(* whose volume it is, node.rs:386-407), and of a deleted volume neither   *)
(* record nor file is left.                                                *)
AnswersTrue ==
  \A c \in Calls :
    LET q == call[c]
    IN  q.code = "OK" =>
          /\ (q.op = "NodePublish" \/ (q.op = "NodeGetStats" /\ OnNode(q.vol, q.node))) =>
               mounts[q.node][q.vol][q.target].shows = q.vol
          /\ q.op = "NodeUnpublish" => mounts[q.node][q.vol][q.target].shows = None
          /\ q.op = "DeleteVolume" =>
               /\ ~Exists(q.vol)
               /\ \A n \in Nodes : ~disk[n][q.vol].exists
===============================================================================
