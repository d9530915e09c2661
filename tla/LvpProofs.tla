------------------------------- MODULE LvpProofs -------------------------------
(***************************************************************************)
(* Records stay consistent, whatever runs at once and whatever fails.      *)
(*                                                                         *)
(* A handler writes back a record that it loaded earlier and changed since *)
(* then, so RecordIntegrity alone is not inductive: what a task carries    *)
(* must be well-formed too (TasksSound), and typed.  Every step changes    *)
(* one task, hence the lemmas on Hold, Reply and the requests; a step is   *)
(* then a matter of what its handler makes of one record.                  *)
(***************************************************************************)
EXTENDS LvpProperties, TLAPS

IInv == TypeOK /\ RecordIntegrity /\ TasksSound

-------------------------------------------------------------------------------
(* Steps of a task.                                                        *)

StoreSound == 
  /\ store \in [Volumes -> Volume \cup {None}]
  /\ RecordIntegrity

(* A step that gives a task a sound state and leaves the store and the     *)
(* host sound preserves the invariant.                                     *)
LEMMA TaskStep ==
  ASSUME IInv, NEW c \in Calls, NEW q \in Call, TaskSound(q),
         call' = [call EXCEPT ![c] = q], StoreSound', HostTypeOK'
  PROVE  IInv'
<1>1. call' \in [Calls -> Call]
  BY DEF IInv, TypeOK
<1>2. ASSUME NEW d \in Calls PROVE TaskSound(call'[d])
  <2>1. CASE d = c
    BY <2>1 DEF IInv, TypeOK
  <2>2. CASE d # c
    <3>1. call'[d] = call[d]
      BY <2>2 DEF IInv, TypeOK
    <3> QED BY <3>1 DEF IInv, TasksSound
  <2> QED BY <2>1, <2>2
<1> QED BY <1>1, <1>2 DEF IInv, TypeOK, TasksSound, StoreSound

LEMMA HostUnchanged ==
  ASSUME HostTypeOK, UNCHANGED hostVars PROVE HostTypeOK'
BY DEF HostTypeOK, hostVars

LEMMA StoreUnchanged ==
  ASSUME StoreSound, UNCHANGED store PROVE StoreSound'
BY DEF StoreSound, RecordIntegrity, Exists

(* An answer keeps the request and drops the locals.                       *)
LEMMA ReplyStep ==
  ASSUME IInv, NEW c \in Calls, NEW code \in Code, Reply(c, code),
         StoreSound', HostTypeOK'
  PROVE  IInv'
<1> DEFINE q == [call[c] EXCEPT !.pc = "reply", !.rec = None, !.dev = None, !.code = code]
<1>1. call[c] \in Call /\ TaskSound(call[c])
  BY DEF IInv, TypeOK, TasksSound
<1>2. q \in Call
  BY ZenonT(60), <1>1 DEF Call
<1>3. TaskSound(q)
  BY <1>1 DEF Call, TaskSound, Publishing, Await
<1>4. call' = [call EXCEPT ![c] = q]
  BY DEF Reply, IInv, TypeOK
<1> QED BY <1>2, <1>3, <1>4, TaskStep

LEMMA CallFields ==
  ASSUME NEW q \in Call
  PROVE  /\ \A pc \in Await : [q EXCEPT !.pc = pc] \in Call
         /\ \A rec \in Volume \cup {None} : [q EXCEPT !.rec = rec] \in Call
         /\ \A d \in Devices : [q EXCEPT !.dev = d] \in Call
<1>1. ASSUME NEW pc \in Await PROVE [q EXCEPT !.pc = pc] \in Call
  BY DEF Call
<1>2. ASSUME NEW rec \in Volume \cup {None} PROVE [q EXCEPT !.rec = rec] \in Call
  BY DEF Call
<1>3. ASSUME NEW d \in Devices PROVE [q EXCEPT !.dev = d] \in Call
  BY DEF Call
<1> QED BY <1>1, <1>2, <1>3

LEMMA HoldType ==
  ASSUME NEW q \in Call, NEW pc \in Await, NEW rec \in Volume \cup {None}
  PROVE  [q EXCEPT !.pc = pc, !.rec = rec] \in Call
<1>1. [q EXCEPT !.pc = pc] \in Call
  BY CallFields
<1>2. [[q EXCEPT !.pc = pc] EXCEPT !.rec = rec] \in Call
  BY <1>1, CallFields, Zenon
<1>3. [[q EXCEPT !.pc = pc] EXCEPT !.rec = rec] = [q EXCEPT !.pc = pc, !.rec = rec]
  BY DEF Call
<1> QED BY <1>2, <1>3

LEMMA HoldStep ==
  ASSUME IInv, NEW c \in Calls, NEW pc \in Await, NEW rec \in Volume \cup {None},
         Hold(c, pc, rec), TaskSound([call[c] EXCEPT !.pc = pc, !.rec = rec]),
         StoreSound', HostTypeOK'
  PROVE  IInv'
<1> DEFINE q == [call[c] EXCEPT !.pc = pc, !.rec = rec]
<1>1. q \in Call
  BY HoldType DEF IInv, TypeOK
<1>2. call' = [call EXCEPT ![c] = q]
  BY DEF Hold, IInv, TypeOK
<1> QED BY <1>1, <1>2, TaskStep

LEMMA HoldDeviceStep ==
  ASSUME IInv, NEW c \in Calls, NEW pc \in Await, NEW rec \in Volume \cup {None},
         NEW d \in Devices, HoldDevice(c, pc, rec, d),
         TaskSound([call[c] EXCEPT !.pc = pc, !.rec = rec, !.dev = d]),
         StoreSound', HostTypeOK'
  PROVE  IInv'
<1> DEFINE q == [call[c] EXCEPT !.pc = pc, !.rec = rec, !.dev = d]
<1>1. q \in Call
  <2>1. [call[c] EXCEPT !.pc = pc, !.rec = rec] \in Call
    BY HoldType DEF IInv, TypeOK
  <2>2. [[call[c] EXCEPT !.pc = pc, !.rec = rec] EXCEPT !.dev = d] \in Call
    BY <2>1, CallFields, Zenon
  <2>3. [[call[c] EXCEPT !.pc = pc, !.rec = rec] EXCEPT !.dev = d] = q
    BY <2>1 DEF Call, IInv, TypeOK
  <2> QED BY <2>2, <2>3
<1>2. call' = [call EXCEPT ![c] = q]
  BY DEF HoldDevice, IInv, TypeOK
<1> QED BY <1>1, <1>2, TaskStep

(* A task that goes on with the record it has.                             *)
LEMMA GotoStep ==
  ASSUME IInv, NEW c \in Calls, NEW pc \in Await, Goto(c, pc),
         TaskSound([call[c] EXCEPT !.pc = pc]), StoreSound', HostTypeOK'
  PROVE  IInv'
<1>1. /\ call[c].rec \in Volume \cup {None}
      /\ [call[c] EXCEPT !.pc = pc, !.rec = call[c].rec] = [call[c] EXCEPT !.pc = pc]
  BY DEF IInv, TypeOK, Call
<1> QED BY <1>1, HoldStep DEF Goto

(* Before a step.                                                          *)
LEMMA TaskBefore ==
  ASSUME IInv, NEW c \in Calls
  PROVE  /\ call[c] \in Call /\ TaskSound(call[c])
         /\ StoreSound /\ HostTypeOK
BY DEF IInv, TypeOK, TasksSound, StoreSound

LEMMA NoCallSound == NoCall \in Call /\ TaskSound(NoCall)
<1>1. NoCall \in Call
  BY DEF NoCall, Call
<1>2. None \notin Operation
  BY CallAssumption
<1>3. TaskSound(NoCall)
  BY <1>2 DEF NoCall, TaskSound, Publishing, Await, Operation
<1> QED BY <1>1, <1>3

(* What is loaded is a well-formed record or nothing.                      *)
LEMMA LoadedSound ==
  ASSUME IInv, NEW c \in Calls, call[c].vol \in Volumes, Loaded(c) # None
  PROVE  Loaded(c) \in Volume /\ WellFormed(Loaded(c))
BY DEF IInv, TypeOK, RecordIntegrity, Loaded, Exists

-------------------------------------------------------------------------------
(* Writes to the store.                                                    *)

LEMMA PatchSound ==
  ASSUME StoreSound, NEW v \in Volumes, NEW r \in Volume, WellFormed(r),
         Patch(v, r) \/ Post(v, r)
  PROVE  StoreSound'
<1>1. store' = [store EXCEPT ![v] = r]
  BY DEF Patch, Post
<1> QED BY <1>1 DEF StoreSound, RecordIntegrity, Exists

LEMMA RemoveSound ==
  ASSUME StoreSound, NEW v \in Volumes, Remove(v)
  PROVE  StoreSound'
<1>1. store' = [store EXCEPT ![v] = None]
  BY DEF Remove
<1> QED BY <1>1 DEF StoreSound, RecordIntegrity, Exists

-------------------------------------------------------------------------------
(* What the handlers make of a record.                                     *)

LEMMA NewVolumeSound ==
  ASSUME NEW base \in Bases, NEW fs \in Filesystem, NEW configs \in SUBSET VolumeMode,
         NEW size \in Nat
  PROVE  /\ NewVolume(base, fs, configs, size) \in Volume
         /\ WellFormed(NewVolume(base, fs, configs, size))
BY DEF NewVolume, Volume, VolumeState, WellFormed, SingleMount

LEMMA ControllerPublishedSound ==
  ASSUME NEW r \in Volume, WellFormed(r), NEW q \in Call,
         r.state = "Open", q.config \in r.valid_configs
  PROVE  ControllerPublished(r, q) \in Volume /\ WellFormed(ControllerPublished(r, q))
<1>1. q.config \in VolumeMode /\ q.config # None /\ q.readonly \in BOOLEAN
  BY NoneAssumption DEF Volume, Call
<1>2. ControllerPublished(r, q) \in Volume
  BY <1>1 DEF ControllerPublished, Volume, VolumeState
<1>3. WellFormed(ControllerPublished(r, q))
  BY <1>1 DEF ControllerPublished, WellFormed, SingleMount, Volume
<1> QED BY <1>2, <1>3

LEMMA ControllerUnpublishedSound ==
  ASSUME NEW r \in Volume, WellFormed(r), r.state = "ControllerPublished"
  PROVE  ControllerUnpublished(r) \in Volume /\ WellFormed(ControllerUnpublished(r))
<1>1. ControllerUnpublished(r) \in Volume
  BY DEF ControllerUnpublished, Volume, VolumeState
<1>2. WellFormed(ControllerUnpublished(r))
  BY DEF ControllerUnpublished, WellFormed, SingleMount, Volume
<1> QED BY <1>1, <1>2

LEMMA AssignedSound ==
  ASSUME NEW q \in Call, q.rec \in Volume, WellFormed(q.rec), q.node \in Nodes, Publishable(q)
  PROVE  LET r == Assigned(q)
             p == [q EXCEPT !.rec = r]
         IN  r \in Volume /\ WellFormed(r) /\ Publishable(p)
<1>1. Assigned(q) \in Volume
  BY DEF Assigned, Volume
<1>2. WellFormed(Assigned(q))
  BY DEF Assigned, WellFormed, SingleMount, Volume
<1>3. Publishable([q EXCEPT !.rec = Assigned(q)])
  BY DEF Assigned, Publishable, Volume, Call
<1> QED BY <1>1, <1>2, <1>3

LEMMA NodePublishedSound ==
  ASSUME NEW q \in Call, q.rec \in Volume, WellFormed(q.rec), Publishable(q),
         q.target \in Targets, q.dev \in Devices
  PROVE  NodePublished(q) \in Volume /\ WellFormed(NodePublished(q))
<1>1. NodePublished(q) \in Volume
  BY DEF NodePublished, Volume, VolumeState
<1>2. None \notin Devices
  BY NoneAssumption
<1>3. WellFormed(NodePublished(q))
  BY <1>2 DEF NodePublished, WellFormed, SingleMount, Publishable, Volume, VolumeState
<1> QED BY <1>1, <1>3

LEMMA NodeUnpublishedSound ==
  ASSUME NEW q \in Call, q.rec \in Volume, WellFormed(q.rec), q.target \in q.rec.mount_paths
  PROVE  NodeUnpublished(q) \in Volume /\ WellFormed(NodeUnpublished(q))
<1>1. NodeUnpublished(q) \in Volume
  BY DEF NodeUnpublished, Volume, VolumeState
<1>2. WellFormed(NodeUnpublished(q))
  BY DEF NodeUnpublished, WellFormed, SingleMount, Volume
<1> QED BY <1>1, <1>2

LEMMA ExpandedSound ==
  ASSUME NEW r \in Volume, WellFormed(r), NEW size \in Nat
  PROVE  Expanded(r, size) \in Volume /\ WellFormed(Expanded(r, size))
<1>1. Expanded(r, size) \in Volume
  BY DEF Expanded, Volume
<1>2. WellFormed(Expanded(r, size))
  BY DEF Expanded, WellFormed, SingleMount, Volume
<1> QED BY <1>1, <1>2

-------------------------------------------------------------------------------
(* The host keeps its types.                                               *)

LEMMA BackingFileFields ==
  ASSUME NEW f \in BackingFile, NEW size \in Nat
  PROVE  /\ f.size \in Nat
         /\ [f EXCEPT !.size = size] \in BackingFile
         /\ [f EXCEPT !.exists = TRUE] \in BackingFile
         /\ [f EXCEPT !.fs = size] \in BackingFile
BY DEF BackingFile

LEMMA LoopDeviceFields ==
  ASSUME NEW f \in LoopDevice
  PROVE  /\ f.file \in Volumes \cup {None, Deleted}
         /\ [f EXCEPT !.file = Deleted] \in LoopDevice
         /\ [f EXCEPT !.autoclear = TRUE] \in LoopDevice
         /\ FreeDevice \in LoopDevice
BY DEF LoopDevice, FreeDevice

LEMMA TargetPathFields ==
  ASSUME NEW f \in TargetPath
  PROVE  /\ [f EXCEPT !.dir = TRUE] \in TargetPath
         /\ [f EXCEPT !.shows = Deleted] \in TargetPath
         /\ [f EXCEPT !.shows = None, !.ro = FALSE] \in TargetPath
         /\ NoTarget \in TargetPath
BY DEF TargetPath, NoTarget

LEMMA TargetTyped ==
  ASSUME HostTypeOK, NEW n \in Nodes, NEW v \in Volumes, NEW t \in Targets
  PROVE  mounts[n][v][t] \in TargetPath
BY DEF HostTypeOK

LEMMA DiskStep ==
  ASSUME HostTypeOK, NEW n \in Nodes, NEW v \in Volumes, NEW f \in BackingFile,
         disk' = [disk EXCEPT ![n][v] = f], UNCHANGED <<loops, mounts>>
  PROVE  HostTypeOK'
BY DEF HostTypeOK

LEMMA LoopStep ==
  ASSUME HostTypeOK, NEW n \in Nodes, NEW d \in Devices, NEW f \in LoopDevice,
         loops' = [loops EXCEPT ![n][d] = f], UNCHANGED <<disk, mounts>>
  PROVE  HostTypeOK'
BY DEF HostTypeOK

LEMMA MountStep ==
  ASSUME HostTypeOK, NEW n \in Nodes, NEW v \in Volumes, NEW t \in Targets,
         NEW f \in TargetPath,
         mounts' = [mounts EXCEPT ![n][v][t] = f], UNCHANGED <<disk, loops>>
  PROVE  HostTypeOK'
BY DEF HostTypeOK

LEMMA CreateFileType ==
  ASSUME HostTypeOK, NEW n \in Nodes, NEW v \in Volumes,
         CreateFile(n, v), UNCHANGED <<loops, mounts>>
  PROVE  HostTypeOK'
BY DEF CreateFile, HostTypeOK, BackingFile

LEMMA MakeDirectoryType ==
  ASSUME HostTypeOK, NEW n \in Nodes, NEW v \in Volumes,
         MakeDirectory(n, v), UNCHANGED <<loops, mounts>>
  PROVE  HostTypeOK'
<1>1. disk[n][v] \in BackingFile
  BY DEF HostTypeOK
<1>2. [disk[n][v] EXCEPT !.exists = TRUE] \in BackingFile
  BY <1>1, BackingFileFields, Zenon
<1>3. disk' = [disk EXCEPT ![n][v] = [disk[n][v] EXCEPT !.exists = TRUE]]
  BY DEF MakeDirectory, HostTypeOK
<1> QED BY <1>2, <1>3, DiskStep

LEMMA MkfsType ==
  ASSUME HostTypeOK, NEW n \in Nodes, NEW v \in Volumes,
         Mkfs(n, v), UNCHANGED <<loops, mounts>>
  PROVE  HostTypeOK'
<1>1. disk[n][v] \in BackingFile
  BY DEF HostTypeOK
<1>2. [disk[n][v] EXCEPT !.fs = disk[n][v].size] \in BackingFile
  BY <1>1, BackingFileFields, Zenon
<1>3. disk' = [disk EXCEPT ![n][v] = [disk[n][v] EXCEPT !.fs = disk[n][v].size]]
  BY DEF Mkfs, HostTypeOK
<1> QED BY <1>2, <1>3, DiskStep

LEMMA TruncateType ==
  ASSUME HostTypeOK, NEW n \in Nodes, NEW v \in Volumes, NEW size \in Nat,
         Truncate(n, v, size), UNCHANGED <<loops, mounts>>
  PROVE  HostTypeOK'
<1>1. disk[n][v] \in BackingFile
  BY DEF HostTypeOK
<1>2. [disk[n][v] EXCEPT !.size = size] \in BackingFile
  BY <1>1, BackingFileFields, Zenon
<1>3. disk' = [disk EXCEPT ![n][v] = [disk[n][v] EXCEPT !.size = size]]
  BY DEF Truncate, HostTypeOK
<1> QED BY <1>2, <1>3, DiskStep

LEMMA GrowType ==
  ASSUME HostTypeOK, NEW n \in Nodes, NEW d,
         Grow(n, d), UNCHANGED <<loops, mounts>>
  PROVE  HostTypeOK'
<1>1. PICK v \in Volumes : v = loops[n][d].file
  BY DEF Grow, CanGrow
<1>2. disk[n][v] \in BackingFile
  BY DEF HostTypeOK
<1>3. [disk[n][v] EXCEPT !.fs = disk[n][v].size] \in BackingFile
  BY <1>2, BackingFileFields, Zenon
<1>4. disk' = [disk EXCEPT ![n][v] = [disk[n][v] EXCEPT !.fs = disk[n][v].size]]
  BY <1>1 DEF Grow, HostTypeOK
<1> QED BY <1>3, <1>4, DiskStep

LEMMA UnlinkType ==
  ASSUME HostTypeOK, NEW n \in Nodes, NEW v \in Volumes, Unlink(n, v)
  PROVE  HostTypeOK'
<1>1. disk' \in [Nodes -> [Volumes -> BackingFile]]
  BY DEF HostTypeOK, Unlink, NoFile, BackingFile
<1>2. ASSUME NEW d \in Devices
      PROVE  /\ loops[n][d] \in LoopDevice
             /\ [loops[n][d] EXCEPT !.file = Deleted] \in LoopDevice
  BY LoopDeviceFields, Zenon DEF HostTypeOK
<1>3. loops' \in [Nodes -> [Devices -> LoopDevice]]
  BY <1>2 DEF HostTypeOK, Unlink
<1>4. ASSUME NEW u \in Volumes, NEW t \in Targets
      PROVE  /\ mounts[n][u][t] \in TargetPath
             /\ [mounts[n][u][t] EXCEPT !.shows = Deleted] \in TargetPath
  BY TargetTyped, TargetPathFields, Zenon
<1>5. mounts' \in [Nodes -> [Volumes -> [Targets -> TargetPath]]]
  BY <1>4 DEF HostTypeOK, Unlink
<1> QED BY <1>1, <1>3, <1>5 DEF HostTypeOK

LEMMA LosetupType ==
  ASSUME HostTypeOK, NEW n \in Nodes, NEW v \in Volumes, NEW d \in Devices,
         Losetup(n, v, d), UNCHANGED <<disk, mounts>>
  PROVE  HostTypeOK'
BY DEF Losetup, HostTypeOK, LoopDevice

LEMMA LosetupDetachType ==
  ASSUME HostTypeOK, NEW n \in Nodes, NEW d \in Devices,
         LosetupDetach(n, d), UNCHANGED <<disk, mounts>>
  PROVE  HostTypeOK'
<1> DEFINE f == IF Showing(n, loops[n][d].file) # {}
                THEN [loops[n][d] EXCEPT !.autoclear = TRUE] ELSE FreeDevice
<1>1. loops[n][d] \in LoopDevice
  BY DEF HostTypeOK
<1>2. f \in LoopDevice
  BY <1>1, LoopDeviceFields, Zenon
<1>3. loops' = [loops EXCEPT ![n][d] = f]
  BY DEF LosetupDetach
<1> QED BY <1>2, <1>3, LoopStep

LEMMA MakeTargetType ==
  ASSUME HostTypeOK, NEW n \in Nodes, NEW v \in Volumes, NEW t \in Targets,
         MakeTarget(n, v, t), UNCHANGED <<disk, loops>>
  PROVE  HostTypeOK'
<1>1. mounts[n][v][t] \in TargetPath
  BY DEF HostTypeOK
<1>2. [mounts[n][v][t] EXCEPT !.dir = TRUE] \in TargetPath
  BY <1>1, TargetPathFields, Zenon
<1>3. mounts' = [mounts EXCEPT ![n][v][t] = [mounts[n][v][t] EXCEPT !.dir = TRUE]]
  BY DEF MakeTarget, HostTypeOK
<1> QED BY <1>2, <1>3, MountStep

LEMMA MountType ==
  ASSUME HostTypeOK, NEW n \in Nodes, NEW v \in Volumes, NEW t \in Targets,
         NEW d \in Devices, NEW ro \in BOOLEAN,
         Mount(n, v, t, d, ro), UNCHANGED <<disk, loops>>
  PROVE  HostTypeOK'
<1>1. [dir |-> TRUE, shows |-> loops[n][d].file, ro |-> ro] \in TargetPath
  BY DEF HostTypeOK, LoopDevice, TargetPath
<1> QED BY <1>1, MountStep DEF Mount

LEMMA UmountType ==
  ASSUME HostTypeOK, NEW n \in Nodes, NEW v \in Volumes, NEW t \in Targets,
         Umount(n, v, t), UNCHANGED disk
  PROVE  HostTypeOK'
<1>1. mounts' \in [Nodes -> [Volumes -> [Targets -> TargetPath]]]
  BY DEF HostTypeOK, Umount, TargetPath
<1>2. loops' \in [Nodes -> [Devices -> LoopDevice]]
  BY DEF HostTypeOK, Umount, LoopDevice, FreeDevice
<1> QED BY <1>1, <1>2 DEF HostTypeOK

LEMMA RemoveTargetType ==
  ASSUME HostTypeOK, NEW n \in Nodes, NEW v \in Volumes, NEW t \in Targets,
         RemoveTarget(n, v, t), UNCHANGED <<disk, loops>>
  PROVE  HostTypeOK'
BY DEF RemoveTarget, HostTypeOK, NoTarget, TargetPath

LEMMA LoseKernelStateType ==
  ASSUME HostTypeOK, NEW n \in Nodes, LoseKernelState(n)
  PROVE  HostTypeOK'
<1>1. loops' \in [Nodes -> [Devices -> LoopDevice]]
  BY DEF HostTypeOK, LoseKernelState, LoopDevice, FreeDevice
<1>2. ASSUME NEW v \in Volumes, NEW t \in Targets
      PROVE  [mounts[n][v][t] EXCEPT !.shows = None, !.ro = FALSE] \in TargetPath
  BY TargetTyped, TargetPathFields, Zenon
<1>3. mounts' \in [Nodes -> [Volumes -> [Targets -> TargetPath]]]
  BY <1>2 DEF HostTypeOK, LoseKernelState
<1> QED BY <1>1, <1>3 DEF HostTypeOK, LoseKernelState

-------------------------------------------------------------------------------
(* Requests.                                                               *)

LEMMA StartStep ==
  ASSUME IInv, NEW c \in Calls, NEW v, NEW q \in Call, TaskSound(q), Start(c, v, q)
  PROVE  IInv'
<1>1. StoreSound' /\ HostTypeOK'
  BY TaskBefore, StoreUnchanged, HostUnchanged DEF Start
<1> QED BY <1>1, TaskStep DEF Start

(* A request changes no record and no node.                                *)
LEMMA RequestQuiet ==
  ASSUME NEW c \in Calls, Request(c)
  PROVE  UNCHANGED <<store, hostVars>>
BY DEF Request, CreateVolume, DeleteVolume, ControllerPublish, ControllerUnpublish,
       NodePublish, NodeUnpublish, NodeExpand, NodeGetStats, Start

LEMMA RequestStep ==
  ASSUME IInv, NEW c \in Calls, Request(c)
  PROVE  IInv'
<1>1. PICK v \in Volumes :
        \/ CreateVolume(c, v)      \/ DeleteVolume(c, v)
        \/ ControllerPublish(c, v) \/ ControllerUnpublish(c, v)
        \/ NodePublish(c, v)       \/ NodeUnpublish(c, v)
        \/ NodeExpand(c, v)       \/ NodeGetStats(c, v)
  BY DEF Request
<1>2. CASE CreateVolume(c, v)
  <2>1. PICK base \in Bases, fs \in Filesystems, configs \in ConfigSets, size \in Sizes :
          Start(c, v, [NoCall EXCEPT !.op = "CreateVolume", !.pc = "get", !.vol = v,
                                     !.host_base_path = base, !.filesystem = fs,
                                     !.configs = configs, !.size = size])
    BY <1>2 DEF CreateVolume
  <2> DEFINE q == [NoCall EXCEPT !.op = "CreateVolume", !.pc = "get", !.vol = v,
                                 !.host_base_path = base, !.filesystem = fs,
                                 !.configs = configs, !.size = size]
  <2>2. q \in Call
    BY RequestAssumption DEF NoCall, Call, Operation, Await
  <2>3. TaskSound(q)
    BY RequestAssumption DEF NoCall, TaskSound, Publishing
  <2> QED BY <2>1, <2>2, <2>3, StartStep
<1>3. CASE DeleteVolume(c, v)
  <2>1. PICK n \in Nodes :
          Start(c, v, [NoCall EXCEPT !.op = "DeleteVolume", !.pc = "load", !.vol = v,
                                     !.node = n])
    BY <1>3 DEF DeleteVolume
  <2> DEFINE q == [NoCall EXCEPT !.op = "DeleteVolume", !.pc = "load", !.vol = v, !.node = n]
  <2>2. q \in Call
    BY DEF NoCall, Call, Operation, Await
  <2>3. TaskSound(q)
    BY DEF NoCall, TaskSound, Publishing
  <2> QED BY <2>1, <2>2, <2>3, StartStep
<1>4. CASE ControllerPublish(c, v)
  <2>1. PICK n \in Nodes, config \in Modes, fs \in RequestFilesystems, ro \in Readonlys :
          Start(c, v, [NoCall EXCEPT !.op = "ControllerPublish", !.pc = "load", !.vol = v,
                                     !.node = n, !.config = config, !.filesystem = fs,
                                     !.readonly = ro])
    BY <1>4 DEF ControllerPublish
  <2> DEFINE q == [NoCall EXCEPT !.op = "ControllerPublish", !.pc = "load", !.vol = v,
                                 !.node = n, !.config = config, !.filesystem = fs,
                                 !.readonly = ro]
  <2>2. q \in Call
    BY RequestAssumption DEF NoCall, Call, Operation, Await
  <2>3. TaskSound(q)
    BY DEF NoCall, TaskSound, Publishing
  <2> QED BY <2>1, <2>2, <2>3, StartStep
<1>5. CASE ControllerUnpublish(c, v)
  <2> DEFINE q == [NoCall EXCEPT !.op = "ControllerUnpublish", !.pc = "load", !.vol = v]
  <2>2. q \in Call
    BY DEF NoCall, Call, Operation, Await
  <2>3. TaskSound(q)
    BY DEF NoCall, TaskSound, Publishing
  <2> QED BY <1>5, <2>2, <2>3, StartStep DEF ControllerUnpublish
<1>6. CASE NodePublish(c, v)
  <2>1. PICK n \in Nodes, t \in Targets, config \in Modes, fs \in RequestFilesystems,
             ro \in Readonlys :
          Start(c, v, [NoCall EXCEPT !.op = "NodePublish", !.pc = "load", !.vol = v,
                                     !.node = n, !.target = t, !.config = config,
                                     !.filesystem = fs, !.readonly = ro])
    BY <1>6 DEF NodePublish
  <2> DEFINE q == [NoCall EXCEPT !.op = "NodePublish", !.pc = "load", !.vol = v,
                                 !.node = n, !.target = t, !.config = config,
                                 !.filesystem = fs, !.readonly = ro]
  <2>2. q \in Call
    BY RequestAssumption DEF NoCall, Call, Operation, Await
  <2>3. TaskSound(q)
    BY DEF NoCall, TaskSound, Publishing
  <2> QED BY <2>1, <2>2, <2>3, StartStep
<1>7. CASE NodeUnpublish(c, v)
  <2>1. PICK n \in Nodes, t \in Targets :
          Start(c, v, [NoCall EXCEPT !.op = "NodeUnpublish", !.pc = "load", !.vol = v,
                                     !.node = n, !.target = t])
    BY <1>7 DEF NodeUnpublish
  <2> DEFINE q == [NoCall EXCEPT !.op = "NodeUnpublish", !.pc = "load", !.vol = v,
                                 !.node = n, !.target = t]
  <2>2. q \in Call
    BY DEF NoCall, Call, Operation, Await
  <2>3. TaskSound(q)
    BY DEF NoCall, TaskSound, Publishing
  <2> QED BY <2>1, <2>2, <2>3, StartStep
<1>8. CASE NodeExpand(c, v)
  <2>1. PICK n \in Nodes, t \in Targets, size \in Sizes :
          Start(c, v, [NoCall EXCEPT !.op = "NodeExpand", !.pc = "load", !.vol = v,
                                     !.node = n, !.target = t, !.size = size])
    BY <1>8 DEF NodeExpand
  <2> DEFINE q == [NoCall EXCEPT !.op = "NodeExpand", !.pc = "load", !.vol = v,
                                 !.node = n, !.target = t, !.size = size]
  <2>2. q \in Call
    BY RequestAssumption DEF NoCall, Call, Operation, Await
  <2>3. TaskSound(q)
    BY DEF NoCall, TaskSound, Publishing
  <2> QED BY <2>1, <2>2, <2>3, StartStep
<1>9. CASE NodeGetStats(c, v)
  <2>1. PICK n \in Nodes, t \in Targets :
          Start(c, v, [NoCall EXCEPT !.op = "NodeGetStats", !.pc = "load", !.vol = v,
                                     !.node = n, !.target = t])
    BY <1>9 DEF NodeGetStats
  <2> DEFINE q == [NoCall EXCEPT !.op = "NodeGetStats", !.pc = "load", !.vol = v,
                                 !.node = n, !.target = t]
  <2>2. q \in Call
    BY DEF NoCall, Call, Operation, Await
  <2>3. TaskSound(q)
    BY DEF NoCall, TaskSound, Publishing
  <2> QED BY <2>1, <2>2, <2>3, StartStep
<1> QED BY <1>1, <1>2, <1>3, <1>4, <1>5, <1>6, <1>7, <1>8, <1>9

-------------------------------------------------------------------------------
(* Parts that several handlers have.                                       *)

LEMMA QuietReply ==
  ASSUME IInv, NEW c \in Calls, NEW code \in Code, Reply(c, code),
         UNCHANGED <<store, hostVars>>
  PROVE  IInv'
BY TaskBefore, StoreUnchanged, HostUnchanged, ReplyStep

LEMMA DecideStep ==
  ASSUME IInv, NEW c \in Calls, NEW verdict \in Code \cup {"Proceed"}, NEW pc \in Await,
         NEW rec, Decide(c, verdict, pc, rec),
         verdict = "Proceed" =>
           rec \in Volume /\ TaskSound([call[c] EXCEPT !.pc = pc, !.rec = rec])
  PROVE  IInv'
<1>1. StoreSound' /\ HostTypeOK'
  BY TaskBefore, StoreUnchanged, HostUnchanged DEF Decide
<1>2. CASE verdict = "Proceed"
  BY <1>1, <1>2, HoldStep DEF Decide
<1>3. CASE verdict # "Proceed"
  BY <1>1, <1>3, ReplyStep DEF Decide
<1> QED BY <1>2, <1>3

(* The last update of a handler.                                           *)
LEMMA LastUpdate ==
  ASSUME IInv, NEW c \in Calls, call[c].pc = "patch", Update(c, Reply(c, "OK"))
  PROVE  IInv'
<1>1. /\ call[c].vol \in Volumes
      /\ call[c].rec \in Volume /\ WellFormed(call[c].rec)
  BY TaskBefore DEF TaskSound, Await
<1>2. "OK" \in Code /\ "Internal" \in Code
  BY DEF Code
<1>3. HostTypeOK'
  BY TaskBefore, HostUnchanged DEF Update
<1>4. CASE Patch(call[c].vol, call[c].rec) /\ Reply(c, "OK")
  <2>1. StoreSound'
    BY <1>1, <1>4, TaskBefore, PatchSound
  <2> QED BY <1>2, <1>3, <1>4, <2>1, ReplyStep
<1>5. CASE ~Exists(call[c].vol) /\ Reply(c, "Internal") /\ UNCHANGED store
  <2>1. StoreSound'
    BY <1>5, TaskBefore, StoreUnchanged
  <2> QED BY <1>2, <1>3, <1>5, <2>1, ReplyStep
<1> QED BY <1>4, <1>5 DEF Update

-------------------------------------------------------------------------------
(* The controller service.                                                 *)

LEMMA ControllerStepSound ==
  ASSUME IInv, NEW c \in Calls, ControllerStep(c)
  PROVE  IInv'
<1> DEFINE q == call[c]
<1>1. /\ q \in Call /\ TaskSound(q)
      /\ StoreSound /\ HostTypeOK
  BY TaskBefore
<1>2. Code \subseteq Code \cup {"Proceed"} /\ "Proceed" \in Code \cup {"Proceed"}
      /\ "OK" \in Code /\ "Internal" \in Code /\ "AlreadyExists" \in Code
      /\ "NotFound" \in Code /\ "FailedPrecondition" \in Code /\ "InvalidArgument" \in Code
  BY DEF Code
<1>3. q.pc \in Await => q.vol \in Volumes
  BY <1>1 DEF TaskSound
<1>4. CASE CreateVolumeGet(c)
  <2> DEFINE pc == IF Exists(q.vol) THEN "load" ELSE "post"
  <2>1. /\ pc \in Await /\ Goto(c, pc) /\ StoreSound' /\ HostTypeOK'
        /\ q.op = "CreateVolume" /\ q.vol \in Volumes
    BY <1>1, <1>3, <1>4, StoreUnchanged, HostUnchanged DEF CreateVolumeGet, At, Await
  <2>2. TaskSound([q EXCEPT !.pc = pc])
    BY <1>1, <2>1 DEF TaskSound, Publishing, Call
  <2> QED BY <2>1, <2>2, GotoStep
<1>5. CASE CreateVolumePost(c)
  <2>1. /\ q.vol \in Volumes
        /\ q.host_base_path \in Bases /\ q.filesystem \in Filesystem
    BY <1>1, <1>3, <1>5 DEF CreateVolumePost, At, TaskSound, Await
  <2>2. Requested(c) \in Volume /\ WellFormed(Requested(c))
    BY <1>1, <2>1, NewVolumeSound DEF Requested, Call
  <2>3. HostTypeOK'
    BY <1>1, <1>5, HostUnchanged DEF CreateVolumePost
  <2>4. CASE Post(q.vol, Requested(c)) /\ Reply(c, "OK")
    <3>1. StoreSound'
      BY <1>1, <2>1, <2>2, <2>4, PatchSound
    <3> QED BY <1>2, <2>3, <2>4, <3>1, ReplyStep
  <2>5. CASE Exists(q.vol) /\ Reply(c, "Internal") /\ UNCHANGED store
    <3>1. StoreSound'
      BY <1>1, <2>5, StoreUnchanged
    <3> QED BY <1>2, <2>3, <2>5, <3>1, ReplyStep
  <2> QED BY <1>5, <2>4, <2>5 DEF CreateVolumePost
<1>6. CASE CreateVolumeLoad(c)
  <2>1. PICK code \in Code : Reply(c, code)
    BY <1>2, <1>6 DEF CreateVolumeLoad
  <2> QED BY <1>6, <2>1, QuietReply DEF CreateVolumeLoad
<1>7. CASE DeleteVolumeLoad(c)
  <2> DEFINE verdict == DeleteVerdict(Loaded(c))
  <2>1. verdict \in Code \cup {"Proceed"}
    BY <1>2 DEF DeleteVerdict
  <2>2. /\ q.op = "DeleteVolume" /\ q.vol \in Volumes
        /\ Decide(c, verdict, "unlink", Loaded(c))
    BY <1>3, <1>7 DEF DeleteVolumeLoad, At, Await
  <2>3. verdict = "Proceed" =>
          Loaded(c) \in Volume /\ TaskSound([q EXCEPT !.pc = "unlink", !.rec = Loaded(c)])
    <3>1. SUFFICES ASSUME verdict = "Proceed"
                   PROVE  Loaded(c) \in Volume
                          /\ TaskSound([q EXCEPT !.pc = "unlink", !.rec = Loaded(c)])
      OBVIOUS
    <3>2. Loaded(c) \in Volume
      BY <2>2, <3>1, LoadedSound DEF DeleteVerdict
    <3>3. TaskSound([q EXCEPT !.pc = "unlink", !.rec = Loaded(c)])
      BY <1>1, <2>2 DEF TaskSound, Publishing, Call
    <3> QED BY <3>2, <3>3
  <2>4. "unlink" \in Await
    BY DEF Await
  <2> QED BY <2>1, <2>2, <2>3, <2>4, DecideStep
<1>8. CASE DeleteVolumeUnlink(c)
  <2>1. q.op = "DeleteVolume" /\ q.vol \in Volumes /\ q.node \in Nodes /\ StoreSound'
    BY <1>1, <1>3, <1>8, StoreUnchanged DEF DeleteVolumeUnlink, At, TaskSound, Await
  <2>2. CASE Unlink(q.node, q.vol) /\ Goto(c, "delete")
    <3>1. HostTypeOK'
      BY <1>1, <2>1, <2>2, UnlinkType
    <3>2. "delete" \in Await
      BY DEF Await
    <3>3. TaskSound([q EXCEPT !.pc = "delete"])
      BY <1>1, <2>1 DEF TaskSound, Publishing, Call
    <3> QED BY <2>1, <2>2, <3>1, <3>2, <3>3, GotoStep
  <2>3. CASE Reply(c, "Internal") /\ UNCHANGED hostVars
    BY <1>1, <1>2, <2>1, <2>3, HostUnchanged, ReplyStep
  <2> QED BY <1>8, <2>2, <2>3 DEF DeleteVolumeUnlink
<1>9. CASE DeleteVolumeDelete(c)
  <2>1. q.vol \in Volumes /\ HostTypeOK'
    BY <1>1, <1>3, <1>9, HostUnchanged DEF DeleteVolumeDelete, At, Await
  <2>2. CASE Remove(q.vol) /\ Reply(c, "OK")
    <3>1. StoreSound'
      BY <1>1, <2>1, <2>2, RemoveSound
    <3> QED BY <1>2, <2>1, <2>2, <3>1, ReplyStep
  <2>3. CASE Reply(c, "Internal") /\ UNCHANGED store
    <3>1. StoreSound'
      BY <1>1, <2>3, StoreUnchanged
    <3> QED BY <1>2, <2>1, <2>3, <3>1, ReplyStep
  <2> QED BY <1>9, <2>2, <2>3 DEF DeleteVolumeDelete
<1>10. CASE ControllerPublishLoad(c)
  <2> DEFINE verdict == ControllerPublishVerdict(q, Loaded(c))
             rec == ControllerPublished(Loaded(c), q)
  <2>1. verdict \in Code \cup {"Proceed"}
    BY <1>2 DEF ControllerPublishVerdict
  <2>2. /\ q.op = "ControllerPublish" /\ q.vol \in Volumes
        /\ Decide(c, verdict, "patch", rec)
    BY <1>3, <1>10 DEF ControllerPublishLoad, At, Await
  <2>3. ASSUME verdict = "Proceed"
        PROVE  rec \in Volume /\ TaskSound([q EXCEPT !.pc = "patch", !.rec = rec])
    <3>1. Loaded(c) # None
      BY <2>3 DEF ControllerPublishVerdict
    <3>2. Loaded(c) \in Volume /\ WellFormed(Loaded(c))
      BY <2>2, <3>1, LoadedSound
    <3>3. Loaded(c).state = "Open" /\ q.config \in Loaded(c).valid_configs
      BY <2>3, <3>2 DEF ControllerPublishVerdict, Volume, VolumeState
    <3>4. rec \in Volume /\ WellFormed(rec)
      BY <1>1, <3>2, <3>3, ControllerPublishedSound
    <3>5. TaskSound([q EXCEPT !.pc = "patch", !.rec = rec])
      BY <1>1, <2>2, <3>4 DEF TaskSound, Publishing, Call
    <3> QED BY <3>4, <3>5
  <2>4. "patch" \in Await
    BY DEF Await
  <2> QED BY <2>1, <2>2, <2>3, <2>4, DecideStep
<1>11. CASE ControllerPublishPatch(c)
  BY <1>11, LastUpdate DEF ControllerPublishPatch, At
<1>12. CASE ControllerUnpublishLoad(c)
  <2> DEFINE verdict == ControllerUnpublishVerdict(Loaded(c))
             rec == ControllerUnpublished(Loaded(c))
  <2>1. verdict \in Code \cup {"Proceed"}
    BY <1>2 DEF ControllerUnpublishVerdict
  <2>2. /\ q.op = "ControllerUnpublish" /\ q.vol \in Volumes
        /\ Decide(c, verdict, "patch", rec)
    BY <1>3, <1>12 DEF ControllerUnpublishLoad, At, Await
  <2>3. ASSUME verdict = "Proceed"
        PROVE  rec \in Volume /\ TaskSound([q EXCEPT !.pc = "patch", !.rec = rec])
    <3>1. Loaded(c) # None
      BY <2>3 DEF ControllerUnpublishVerdict
    <3>2. Loaded(c) \in Volume /\ WellFormed(Loaded(c))
      BY <2>2, <3>1, LoadedSound
    <3>3. Loaded(c).state = "ControllerPublished"
      BY <2>3, <3>2 DEF ControllerUnpublishVerdict, Volume, VolumeState
    <3>4. rec \in Volume /\ WellFormed(rec)
      BY <3>2, <3>3, ControllerUnpublishedSound
    <3>5. TaskSound([q EXCEPT !.pc = "patch", !.rec = rec])
      BY <1>1, <2>2, <3>4 DEF TaskSound, Publishing, Call
    <3> QED BY <3>4, <3>5
  <2>4. "patch" \in Await
    BY DEF Await
  <2> QED BY <2>1, <2>2, <2>3, <2>4, DecideStep
<1>13. CASE ControllerUnpublishPatch(c)
  BY <1>13, LastUpdate DEF ControllerUnpublishPatch, At
<1> QED BY <1>4, <1>5, <1>6, <1>7, <1>8, <1>9, <1>10, <1>11, <1>12, <1>13
        DEF ControllerStep

-------------------------------------------------------------------------------
(* NodePublish.                                                            *)

LEMMA NodePublishStepSound ==
  ASSUME IInv, NEW c \in Calls, NodePublishStep(c)
  PROVE  IInv'
<1> DEFINE q == call[c]
<1>1. /\ q \in Call /\ TaskSound(q)
      /\ StoreSound /\ HostTypeOK
  BY TaskBefore
<1>2. /\ q.op = "NodePublish" /\ q.pc \in Await
      /\ q.vol \in Volumes /\ q.node \in Nodes /\ q.target \in Targets
  BY <1>1 DEF NodePublishStep, NodePublishLoad, NodePublishMkdir, NodePublishStat,
              NodePublishMake, NodePublishCreate, NodePublishAllocate, NodePublishMkfs,
              NodePublishAssign, NodePublishLosetup, NodePublishMount, NodePublishPatch,
              At, TaskSound, Await
<1>3. Publishing \subseteq Await /\ "patch" \in Await /\ "Internal" \in Code
  BY DEF Publishing, Await, Code
<1>4. q.pc \in Publishing =>
        q.rec \in Volume /\ WellFormed(q.rec) /\ Publishable(q)
  BY <1>1, <1>2 DEF TaskSound
(* The task goes on publishing with what it has.                           *)
<1>5. ASSUME NEW pc \in Publishing, pc # "mount", q.pc \in Publishing
      PROVE  TaskSound([q EXCEPT !.pc = pc])
  <2>1. Publishable([q EXCEPT !.pc = pc])
    BY <1>1, <1>4, <1>5 DEF Publishable, Call
  <2> QED BY <1>1, <1>2, <1>4, <1>5, <2>1 DEF TaskSound, Publishing, Call, Await
<1>6. CASE NodePublishLoad(c)
  <2> DEFINE verdict == NodePublishVerdict(q, Loaded(c))
  <2>1. verdict \in Code \cup {"Proceed"}
    BY DEF NodePublishVerdict, Code
  <2>2. ASSUME verdict = "Proceed"
        PROVE  Loaded(c) \in Volume
               /\ TaskSound([q EXCEPT !.pc = "mkdir", !.rec = Loaded(c)])
    <3>1. Loaded(c) # None
      BY <2>2 DEF NodePublishVerdict
    <3>2. Loaded(c) \in Volume /\ WellFormed(Loaded(c))
      BY <1>2, <3>1, LoadedSound
    <3>3. /\ Loaded(c).state # "Open" /\ ~PublishedOtherwise(Loaded(c), q)
          /\ q.target \notin Loaded(c).mount_paths
      BY <2>2, <3>1 DEF NodePublishVerdict
    <3>4. Loaded(c).mount_paths # {} =>
            Loaded(c).published_config = "SingleNodeMultiWriter"
      BY <3>2, <3>3 DEF PublishedOtherwise, WellFormed
    <3>5. Publishable([q EXCEPT !.pc = "mkdir", !.rec = Loaded(c)])
      BY <1>1, <3>3, <3>4 DEF Publishable, Call
    <3>6. TaskSound([q EXCEPT !.pc = "mkdir", !.rec = Loaded(c)])
      BY <1>1, <1>2, <3>2, <3>5 DEF TaskSound, Publishing, Call
    <3> QED BY <3>2, <3>6
  <2>3. "mkdir" \in Await
    BY DEF Await
  <2> QED BY <1>6, <2>1, <2>2, <2>3, DecideStep DEF NodePublishLoad
<1>7. CASE NodePublishMkdir(c)
  <2>1. StoreSound' /\ HostTypeOK'
    BY <1>1, <1>2, <1>7, StoreUnchanged, MakeTargetType DEF NodePublishMkdir
  <2>2. "stat" \in Publishing /\ q.pc \in Publishing
    BY <1>7 DEF NodePublishMkdir, At, Publishing
  <2> QED BY <1>3, <1>5, <1>7, <2>1, <2>2, GotoStep DEF NodePublishMkdir
<1>8. CASE NodePublishStat(c)
  <2>1. StoreSound' /\ HostTypeOK'
    BY <1>1, <1>8, StoreUnchanged, HostUnchanged DEF NodePublishStat
  <2>2. PICK pc \in {"losetup", "make"} : Goto(c, pc)
    BY <1>8 DEF NodePublishStat
  <2>3. pc \in Publishing /\ pc # "mount" /\ q.pc \in Publishing
    BY <1>8, <2>2 DEF NodePublishStat, At, Publishing
  <2> QED BY <1>3, <1>5, <2>1, <2>2, <2>3, GotoStep
<1>9. CASE NodePublishMake(c)
  <2>1. StoreSound' /\ HostTypeOK'
    BY <1>1, <1>9, StoreUnchanged, HostUnchanged DEF NodePublishMake
  <2>2. "create" \in Publishing /\ q.pc \in Publishing
    BY <1>9 DEF NodePublishMake, At, Publishing
  <2>3. Reply(c, "Internal") \/ Goto(c, "create")
    BY <1>9 DEF NodePublishMake
  <2> QED BY <1>3, <1>5, <2>1, <2>2, <2>3, ReplyStep, GotoStep
(* After the file is made, the node is noted in the record.                *)
<1>10. ASSUME q.pc \in Publishing
       PROVE  /\ Assigned(q) \in Volume
              /\ TaskSound([q EXCEPT !.pc = "assign", !.rec = Assigned(q)])
  <2>1. /\ Assigned(q) \in Volume /\ WellFormed(Assigned(q))
        /\ Publishable([q EXCEPT !.rec = Assigned(q)])
    BY <1>1, <1>2, <1>4, <1>10, AssignedSound
  <2>2. Publishable([q EXCEPT !.pc = "assign", !.rec = Assigned(q)])
    BY <1>1, <2>1 DEF Publishable, Call
  <2>3. TaskSound([q EXCEPT !.pc = "assign", !.rec = Assigned(q)])
    BY <1>1, <1>2, <2>1, <2>2 DEF TaskSound, Publishing, Call
  <2> QED BY <2>1, <2>3
<1>11. CASE NodePublishCreate(c)
  <2>1. q.pc \in Publishing /\ "allocate" \in Publishing /\ "assign" \in Await
    BY <1>11 DEF NodePublishCreate, At, Publishing, Await
  <2>3. StoreSound' /\ HostTypeOK'
    BY <1>1, <1>2, <1>11, StoreUnchanged, CreateFileType, MakeDirectoryType
       DEF NodePublishCreate
  <2>4. CASE Hold(c, "assign", Assigned(q))
    BY <1>10, <2>1, <2>3, <2>4, HoldStep
  <2>5. CASE Goto(c, "allocate")
    BY <1>3, <1>5, <2>1, <2>3, <2>5, GotoStep
  <2> QED BY <1>11, <2>4, <2>5 DEF NodePublishCreate
<1>17. CASE NodePublishAllocate(c)
  <2>1. q.pc \in Publishing /\ "mkfs" \in Publishing
    BY <1>17 DEF NodePublishAllocate, At, Publishing
  <2>2. q.rec.size \in Nat
    BY <1>4, <2>1 DEF Volume
  <2>3. StoreSound' /\ Goto(c, "mkfs")
    BY <1>1, <1>17, StoreUnchanged DEF NodePublishAllocate
  <2>4. HostTypeOK'
    BY <1>1, <1>2, <1>17, <2>2, TruncateType, HostUnchanged
       DEF NodePublishAllocate, hostVars
  <2> QED BY <1>3, <1>5, <2>1, <2>3, <2>4, GotoStep
<1>12. CASE NodePublishMkfs(c)
  <2>1. q.pc \in Publishing /\ "assign" \in Await /\ StoreSound'
    BY <1>1, <1>12, StoreUnchanged DEF NodePublishMkfs, At, Publishing, Await
  <2>2. CASE Mkfs(q.node, q.vol) /\ Hold(c, "assign", Assigned(q))
    <3>1. HostTypeOK'
      BY <1>1, <1>2, <1>12, <2>2, MkfsType DEF NodePublishMkfs
    <3> QED BY <1>10, <2>1, <2>2, <3>1, HoldStep
  <2>3. CASE Reply(c, "Internal") /\ UNCHANGED disk
    <3>1. HostTypeOK'
      BY <1>1, <1>12, <2>3, HostUnchanged DEF NodePublishMkfs, hostVars
    <3> QED BY <1>3, <2>1, <2>3, <3>1, ReplyStep
  <2> QED BY <1>12, <2>2, <2>3 DEF NodePublishMkfs
<1>13. CASE NodePublishAssign(c)
  <2>1. q.pc \in Publishing /\ "losetup" \in Publishing
    BY <1>13 DEF NodePublishAssign, At, Publishing
  <2>2. HostTypeOK'
    BY <1>1, <1>13, HostUnchanged DEF NodePublishAssign, Update
  <2>3. CASE Patch(q.vol, q.rec) /\ Goto(c, "losetup")
    <3>1. StoreSound'
      BY <1>1, <1>2, <1>4, <2>1, <2>3, PatchSound
    <3> QED BY <1>3, <1>5, <2>1, <2>2, <2>3, <3>1, GotoStep
  <2>4. CASE Reply(c, "Internal") /\ UNCHANGED store
    BY <1>1, <1>3, <2>2, <2>4, StoreUnchanged, ReplyStep
  <2> QED BY <1>13, <2>3, <2>4 DEF NodePublishAssign, Update
<1>14. CASE NodePublishLosetup(c)
  <2>1. q.pc \in Publishing /\ "mount" \in Await /\ StoreSound'
    BY <1>1, <1>14, StoreUnchanged DEF NodePublishLosetup, At, Publishing, Await
  <2>2. ASSUME NEW d \in Devices
        PROVE  TaskSound([q EXCEPT !.pc = "mount", !.rec = q.rec, !.dev = d])
    <3>1. Publishable([q EXCEPT !.pc = "mount", !.rec = q.rec, !.dev = d])
      BY <1>1, <1>4, <2>1 DEF Publishable, Call
    <3> QED BY <1>1, <1>2, <1>4, <2>1, <3>1 DEF TaskSound, Publishing, Call
  <2>3. CASE Reply(c, "Internal") /\ UNCHANGED loops
    <3>1. HostTypeOK'
      BY <1>1, <1>14, <2>3, HostUnchanged DEF NodePublishLosetup, hostVars
    <3> QED BY <1>3, <2>1, <2>3, <3>1, ReplyStep
  <2>4. CASE /\ q.rec.loop_device # None /\ UNCHANGED loops
             /\ HoldDevice(c, "mount", q.rec, q.rec.loop_device)
    <3>1. HostTypeOK'
      BY <1>1, <1>14, <2>4, HostUnchanged DEF NodePublishLosetup, hostVars
    <3>2. q.rec.loop_device \in Devices /\ q.rec \in Volume \cup {None}
      BY <1>4, <2>1, <2>4 DEF Volume
    <3> QED BY <2>1, <2>2, <2>4, <3>1, <3>2, HoldDeviceStep
  <2>5. CASE \E d \in Devices :
               Losetup(q.node, q.vol, d) /\ HoldDevice(c, "mount", q.rec, d)
    <3>1. PICK d \in Devices :
            Losetup(q.node, q.vol, d) /\ HoldDevice(c, "mount", q.rec, d)
      BY <2>5
    <3>2. HostTypeOK'
      BY <1>1, <1>2, <1>14, <3>1, LosetupType DEF NodePublishLosetup
    <3>3. q.rec \in Volume \cup {None}
      BY <1>4, <2>1
    <3> QED BY <2>1, <2>2, <3>1, <3>2, <3>3, HoldDeviceStep
  <2> QED BY <1>14, <2>3, <2>4, <2>5 DEF NodePublishLosetup
<1>15. CASE NodePublishMount(c)
  <2>1. q.pc = "mount" /\ q.pc \in Publishing /\ q.dev \in Devices /\ StoreSound'
    BY <1>1, <1>15, StoreUnchanged DEF NodePublishMount, At, Publishing, TaskSound
  <2>2. CASE /\ Mount(q.node, q.vol, q.target, q.dev, MountReadonly(q))
             /\ Hold(c, "patch", NodePublished(q))
    <3>1. MountReadonly(q) \in BOOLEAN
      BY <1>1, <1>4, <2>1 DEF MountReadonly, Call, Volume
    <3>2. HostTypeOK'
      BY <1>1, <1>2, <1>15, <2>1, <2>2, <3>1, MountType DEF NodePublishMount
    <3>3. NodePublished(q) \in Volume /\ WellFormed(NodePublished(q))
      BY <1>1, <1>2, <1>4, <2>1, NodePublishedSound
    <3>4. TaskSound([q EXCEPT !.pc = "patch", !.rec = NodePublished(q)])
      BY <1>1, <1>2, <3>3 DEF TaskSound, Publishing, Call
    <3> QED BY <1>3, <2>1, <2>2, <3>2, <3>3, <3>4, HoldStep
  <2>3. CASE Reply(c, "Internal") /\ UNCHANGED mounts
    <3>1. HostTypeOK'
      BY <1>1, <1>15, <2>3, HostUnchanged DEF NodePublishMount, hostVars
    <3> QED BY <1>3, <2>1, <2>3, <3>1, ReplyStep
  <2> QED BY <1>15, <2>2, <2>3 DEF NodePublishMount
<1>16. CASE NodePublishPatch(c)
  BY <1>16, LastUpdate DEF NodePublishPatch, At
<1> QED BY <1>6, <1>7, <1>8, <1>9, <1>11, <1>12, <1>13, <1>14, <1>15, <1>16, <1>17
        DEF NodePublishStep

-------------------------------------------------------------------------------
(* NodeUnpublish.                                                          *)

LEMMA NodeUnpublishStepSound ==
  ASSUME IInv, NEW c \in Calls,
         \/ NodeUnpublishLoad(c)  \/ NodeUnpublishUmount(c) \/ NodeUnpublishUnloop(c)
         \/ NodeUnpublishPatch(c) \/ NodeUnpublishRmdir(c)
  PROVE  IInv'
<1> DEFINE q == call[c]
<1>1. /\ q \in Call /\ TaskSound(q)
      /\ StoreSound /\ HostTypeOK
  BY TaskBefore
<1>2. /\ q.op = "NodeUnpublish" /\ q.pc \in Await
      /\ q.vol \in Volumes /\ q.node \in Nodes /\ q.target \in Targets
  BY <1>1 DEF NodeUnpublishLoad, NodeUnpublishUmount, NodeUnpublishUnloop,
              NodeUnpublishPatch, NodeUnpublishRmdir, At, TaskSound, Await
<1>3. /\ "umount" \in Await /\ "unloop" \in Await /\ "patch" \in Await
      /\ "rmdir" \in Await /\ "OK" \in Code /\ "Internal" \in Code
  BY DEF Await, Code
<1>4. CASE NodeUnpublishLoad(c)
  <2> DEFINE verdict == NodeUnpublishVerdict(q, Loaded(c))
  <2>1. verdict \in Code \cup {"Proceed"}
    BY DEF NodeUnpublishVerdict, Code
  <2>2. ASSUME verdict = "Proceed"
        PROVE  Loaded(c) \in Volume
               /\ TaskSound([q EXCEPT !.pc = "umount", !.rec = Loaded(c)])
    <3>1. Loaded(c) # None /\ q.target \in Loaded(c).mount_paths
      BY <2>2 DEF NodeUnpublishVerdict, PublishedAt
    <3>2. Loaded(c) \in Volume /\ WellFormed(Loaded(c))
      BY <1>2, <3>1, LoadedSound
    <3>3. TaskSound([q EXCEPT !.pc = "umount", !.rec = Loaded(c)])
      BY <1>1, <1>2, <3>1, <3>2 DEF TaskSound, Publishing, Call
    <3> QED BY <3>2, <3>3
  <2> QED BY <1>3, <1>4, <2>1, <2>2, DecideStep DEF NodeUnpublishLoad
<1>5. CASE NodeUnpublishUmount(c)
  <2> DEFINE rec == NodeUnpublished(q)
  <2>1. /\ q.rec \in Volume /\ WellFormed(q.rec) /\ q.target \in q.rec.mount_paths
        /\ StoreSound'
    BY <1>1, <1>5, StoreUnchanged DEF NodeUnpublishUmount, At, TaskSound
  <2>2. rec \in Volume /\ WellFormed(rec)
    BY <1>1, <2>1, NodeUnpublishedSound
  <2>3. CASE Umount(q.node, q.vol, q.target)
             /\ q.rec.loop_device # None /\ HoldDevice(c, "unloop", rec, q.rec.loop_device)
    <3>1. HostTypeOK'
      BY <1>1, <1>2, <1>5, <2>3, UmountType DEF NodeUnpublishUmount
    <3>2. q.rec.loop_device \in Devices
      BY <2>1, <2>3 DEF Volume
    <3>3. TaskSound([q EXCEPT !.pc = "unloop", !.rec = rec, !.dev = q.rec.loop_device])
      BY <1>1, <1>2, <2>2, <3>2 DEF TaskSound, Publishing, Call
    <3> QED BY <1>3, <2>1, <2>2, <2>3, <3>1, <3>2, <3>3, HoldDeviceStep
  <2>4. CASE Umount(q.node, q.vol, q.target) /\ Hold(c, "patch", rec)
    <3>1. HostTypeOK'
      BY <1>1, <1>2, <1>5, <2>4, UmountType DEF NodeUnpublishUmount
    <3>2. TaskSound([q EXCEPT !.pc = "patch", !.rec = rec])
      BY <1>1, <1>2, <2>2 DEF TaskSound, Publishing, Call
    <3> QED BY <1>3, <2>1, <2>2, <2>4, <3>1, <3>2, HoldStep
  <2>5. CASE Reply(c, "Internal") /\ UNCHANGED <<loops, mounts>>
    <3>1. HostTypeOK'
      BY <1>1, <1>5, <2>5, HostUnchanged DEF NodeUnpublishUmount, hostVars
    <3> QED BY <1>3, <2>1, <2>5, <3>1, ReplyStep
  <2> QED BY <1>5, <2>3, <2>4, <2>5 DEF NodeUnpublishUmount
<1>6. CASE NodeUnpublishUnloop(c)
  <2>1. /\ q.rec \in Volume /\ WellFormed(q.rec) /\ q.dev \in Devices
        /\ StoreSound' /\ Goto(c, "patch")
    BY <1>1, <1>6, StoreUnchanged DEF NodeUnpublishUnloop, At, TaskSound
  <2>2. HostTypeOK'
    BY <1>1, <1>2, <1>6, <2>1, LosetupDetachType, HostUnchanged
       DEF NodeUnpublishUnloop, hostVars
  <2>3. TaskSound([q EXCEPT !.pc = "patch"])
    BY <1>1, <1>2, <2>1 DEF TaskSound, Publishing, Call
  <2> QED BY <1>3, <2>1, <2>2, <2>3, GotoStep
<1>7. CASE NodeUnpublishPatch(c)
  <2>1. q.rec \in Volume /\ WellFormed(q.rec) /\ HostTypeOK'
    BY <1>1, <1>7, HostUnchanged DEF NodeUnpublishPatch, Update, At, TaskSound
  <2>2. CASE Patch(q.vol, q.rec) /\ Goto(c, "rmdir")
    <3>1. StoreSound'
      BY <1>1, <1>2, <2>1, <2>2, PatchSound
    <3>2. TaskSound([q EXCEPT !.pc = "rmdir"])
      BY <1>1, <1>2 DEF TaskSound, Publishing, Call
    <3> QED BY <1>3, <2>1, <2>2, <3>1, <3>2, GotoStep
  <2>3. CASE Reply(c, "Internal") /\ UNCHANGED store
    BY <1>1, <1>3, <2>1, <2>3, StoreUnchanged, ReplyStep
  <2> QED BY <1>7, <2>2, <2>3 DEF NodeUnpublishPatch, Update
<1>8. CASE NodeUnpublishRmdir(c)
  <2>1. StoreSound' /\ Reply(c, "OK")
    BY <1>1, <1>8, StoreUnchanged DEF NodeUnpublishRmdir
  <2>2. HostTypeOK'
    BY <1>1, <1>2, <1>8, RemoveTargetType, HostUnchanged DEF NodeUnpublishRmdir, hostVars
  <2> QED BY <1>3, <2>1, <2>2, ReplyStep
<1> QED BY <1>4, <1>5, <1>6, <1>7, <1>8

-------------------------------------------------------------------------------
(* NodeExpand.                                                             *)

LEMMA NodeExpandStepSound ==
  ASSUME IInv, NEW c \in Calls,
         \/ NodeExpandLoad(c) \/ NodeExpandTruncate(c)
         \/ NodeExpandGrow(c) \/ NodeExpandPatch(c)
  PROVE  IInv'
<1> DEFINE q == call[c]
<1>1. /\ q \in Call /\ TaskSound(q)
      /\ StoreSound /\ HostTypeOK
  BY TaskBefore
<1>2. /\ q.op = "NodeExpand" /\ q.pc \in Await
      /\ q.vol \in Volumes /\ q.node \in Nodes /\ q.size \in Nat
  BY <1>1 DEF NodeExpandLoad, NodeExpandTruncate, NodeExpandGrow, NodeExpandPatch,
              At, TaskSound, Await, Call
<1>3. /\ "truncate" \in Await /\ "grow" \in Await /\ "patch" \in Await
      /\ "Internal" \in Code
  BY DEF Await, Code
<1>4. CASE NodeExpandLoad(c)
  <2> DEFINE verdict == NodeExpandVerdict(q, Loaded(c))
             rec == Expanded(Loaded(c), q.size)
             pc == IF Loaded(c).filesystem = "Bind" THEN "patch" ELSE "truncate"
  <2>1. verdict \in Code \cup {"Proceed"}
    BY DEF NodeExpandVerdict, Code
  <2>2. ASSUME verdict = "Proceed"
        PROVE  rec \in Volume /\ TaskSound([q EXCEPT !.pc = pc, !.rec = rec])
    <3>1. Loaded(c) # None
      BY <2>2 DEF NodeExpandVerdict
    <3>2. Loaded(c) \in Volume /\ WellFormed(Loaded(c))
      BY <1>2, <3>1, LoadedSound
    <3>3. rec \in Volume /\ WellFormed(rec)
      BY <1>2, <3>2, ExpandedSound
    <3>4. TaskSound([q EXCEPT !.pc = pc, !.rec = rec])
      BY <1>1, <1>2, <3>3 DEF TaskSound, Publishing, Call
    <3> QED BY <3>3, <3>4
  <2>3. pc \in Await
    BY <1>3
  <2> QED BY <1>4, <2>1, <2>2, <2>3, DecideStep DEF NodeExpandLoad
<1>5. CASE NodeExpandTruncate(c)
  <2>1. q.rec \in Volume /\ WellFormed(q.rec) /\ StoreSound'
    BY <1>1, <1>5, StoreUnchanged DEF NodeExpandTruncate, At, TaskSound
  <2>2. CASE Truncate(q.node, q.vol, q.size) /\ Goto(c, "grow")
    <3>1. HostTypeOK'
      BY <1>1, <1>2, <1>5, <2>2, TruncateType DEF NodeExpandTruncate
    <3>2. TaskSound([q EXCEPT !.pc = "grow"])
      BY <1>1, <1>2, <2>1 DEF TaskSound, Publishing, Call
    <3> QED BY <1>3, <2>1, <2>2, <3>1, <3>2, GotoStep
  <2>3. CASE Reply(c, "Internal") /\ UNCHANGED disk
    <3>1. HostTypeOK'
      BY <1>1, <1>5, <2>3, HostUnchanged DEF NodeExpandTruncate, hostVars
    <3> QED BY <1>3, <2>1, <2>3, <3>1, ReplyStep
  <2> QED BY <1>5, <2>2, <2>3 DEF NodeExpandTruncate
<1>6. CASE NodeExpandGrow(c)
  <2>1. q.rec \in Volume /\ WellFormed(q.rec) /\ StoreSound'
    BY <1>1, <1>6, StoreUnchanged DEF NodeExpandGrow, At, TaskSound
  <2>2. CASE Grow(q.node, q.rec.loop_device) /\ Goto(c, "patch")
    <3>1. HostTypeOK'
      BY <1>1, <1>2, <1>6, <2>2, GrowType DEF NodeExpandGrow
    <3>2. TaskSound([q EXCEPT !.pc = "patch"])
      BY <1>1, <1>2, <2>1 DEF TaskSound, Publishing, Call
    <3> QED BY <1>3, <2>1, <2>2, <3>1, <3>2, GotoStep
  <2>3. CASE Reply(c, "Internal") /\ UNCHANGED disk
    <3>1. HostTypeOK'
      BY <1>1, <1>6, <2>3, HostUnchanged DEF NodeExpandGrow, hostVars
    <3> QED BY <1>3, <2>1, <2>3, <3>1, ReplyStep
  <2> QED BY <1>6, <2>2, <2>3 DEF NodeExpandGrow
<1>7. CASE NodeExpandPatch(c)
  BY <1>7, LastUpdate DEF NodeExpandPatch, At
<1> QED BY <1>4, <1>5, <1>6, <1>7

(* NodeGetVolumeStats.                                                     *)

LEMMA NodeGetStatsStepSound ==
  ASSUME IInv, NEW c \in Calls, NodeGetStatsLoad(c) \/ NodeGetStatsStatfs(c)
  PROVE  IInv'
<1> DEFINE q == call[c]
<1>1. q \in Call /\ TaskSound(q)
  BY TaskBefore
<1>2. CASE NodeGetStatsLoad(c)
  <2> DEFINE verdict == NodeGetStatsVerdict(q, Loaded(c))
             rec == Loaded(c)
  <2>1. verdict \in Code \cup {"Proceed"} /\ "statfs" \in Await
    BY DEF NodeGetStatsVerdict, Code, Await
  <2>2. q.op = "NodeGetStats" /\ q.vol \in Volumes
    BY <1>1, <1>2 DEF NodeGetStatsLoad, At, TaskSound, Await
  <2>3. ASSUME verdict = "Proceed"
        PROVE  rec \in Volume /\ TaskSound([q EXCEPT !.pc = "statfs", !.rec = rec])
    <3>1. rec \in Volume
      BY <2>2, <2>3, LoadedSound DEF NodeGetStatsVerdict
    <3>2. TaskSound([q EXCEPT !.pc = "statfs", !.rec = rec])
      BY <1>1, <2>2 DEF TaskSound, Publishing, Call
    <3> QED BY <3>1, <3>2
  <2> QED BY <1>2, <2>1, <2>3, DecideStep DEF NodeGetStatsLoad
<1>3. CASE NodeGetStatsStatfs(c)
  <2>1. "OK" \in Code /\ "Internal" \in Code
    BY DEF Code
  <2>2. UNCHANGED <<store, hostVars>> /\ (Reply(c, "OK") \/ Reply(c, "Internal"))
    BY <1>3 DEF NodeGetStatsStatfs
  <2> QED BY <2>1, <2>2, QuietReply
<1> QED BY <1>2, <1>3

-------------------------------------------------------------------------------
(* Faults and answers.                                                     *)

(* What was awaited keeps store and host sound, when it is done without    *)
(* the task.                                                               *)
LEMMA RequestServedSound ==
  ASSUME IInv, NEW c \in Calls, RequestServed(c)
  PROVE  StoreSound' /\ HostTypeOK'
<1> DEFINE q == call[c]
<1>1. /\ q \in Call /\ TaskSound(q)
      /\ StoreSound /\ HostTypeOK
  BY TaskBefore
<1>2. HostTypeOK'
  BY <1>1, HostUnchanged DEF RequestServed
<1>3. CASE At(c, "CreateVolume", "post") /\ Post(q.vol, Requested(c))
  <2>1. /\ q.vol \in Volumes
        /\ q.host_base_path \in Bases /\ q.filesystem \in Filesystem
    BY <1>1, <1>3 DEF At, TaskSound, Await
  <2>2. Requested(c) \in Volume /\ WellFormed(Requested(c))
    BY <1>1, <2>1, NewVolumeSound DEF Requested, Call
  <2> QED BY <1>1, <1>2, <1>3, <2>1, <2>2, PatchSound
<1>4. CASE At(c, "DeleteVolume", "delete") /\ Remove(q.vol)
  <2>1. q.vol \in Volumes
    BY <1>1, <1>4 DEF At, TaskSound, Await
  <2> QED BY <1>1, <1>2, <1>4, <2>1, RemoveSound
<1>5. CASE q.pc \in {"assign", "patch"} /\ Patch(q.vol, q.rec)
  <2>1. q.vol \in Volumes /\ q.rec \in Volume /\ WellFormed(q.rec)
    BY <1>1, <1>5 DEF TaskSound, Await, Publishing
  <2> QED BY <1>1, <1>2, <1>5, <2>1, PatchSound
<1> QED BY <1>3, <1>4, <1>5 DEF RequestServed

LEMMA OperationDoneSound ==
  ASSUME IInv, NEW c \in Calls, OperationDone(c)
  PROVE  StoreSound' /\ HostTypeOK'
<1> DEFINE q == call[c]
<1>1. /\ q \in Call /\ TaskSound(q)
      /\ StoreSound /\ HostTypeOK
  BY TaskBefore
<1>2. StoreSound'
  BY <1>1, StoreUnchanged
     DEF OperationDone, FileDone, DeviceDone, TargetDone, UnmountDone, RemovalDone
<1>3. q.vol \in Volumes /\ q.node \in Nodes
  BY <1>1 DEF OperationDone, FileDone, DeviceDone, TargetDone, UnmountDone, RemovalDone,
              At, TaskSound, Await
<1>4. CASE FileDone(c)
  <2>1. q.op = "NodePublish" /\ q.pc = "allocate" => q.rec.size \in Nat
    BY <1>1 DEF TaskSound, Publishing, Volume
  <2>2. q.size \in Nat
    BY <1>1 DEF Call
  <2> QED BY <1>1, <1>2, <1>3, <1>4, <2>1, <2>2, CreateFileType, MakeDirectoryType,
             TruncateType, MkfsType, GrowType DEF FileDone, At
<1>5. CASE DeviceDone(c)
  <2>1. q.pc = "unloop" => q.dev \in Devices
    BY <1>1 DEF TaskSound
  <2> QED BY <1>1, <1>2, <1>3, <1>5, <2>1, LosetupType, LosetupDetachType
          DEF DeviceDone, At
<1>6. CASE TargetDone(c)
  <2>1. q.target \in Targets
    BY <1>1, <1>6 DEF TargetDone, At, TaskSound
  <2>2. CASE At(c, "NodePublish", "mount")
             /\ Mount(q.node, q.vol, q.target, q.dev, MountReadonly(q))
    <3>1. q.dev \in Devices /\ q.rec \in Volume
      BY <1>1, <2>2 DEF At, TaskSound, Publishing
    <3>2. MountReadonly(q) \in BOOLEAN
      BY <1>1, <3>1 DEF MountReadonly, Call, Volume
    <3> QED BY <1>1, <1>2, <1>3, <1>6, <2>1, <2>2, <3>1, <3>2, MountType DEF TargetDone
  <2> QED BY <1>1, <1>2, <1>3, <1>6, <2>1, <2>2, MakeTargetType, RemoveTargetType
          DEF TargetDone
<1>7. CASE UnmountDone(c)
  <2>1. q.target \in Targets
    BY <1>1, <1>7 DEF UnmountDone, At, TaskSound
  <2> QED BY <1>1, <1>2, <1>3, <1>7, <2>1, UmountType DEF UnmountDone
<1>8. CASE RemovalDone(c)
  BY <1>1, <1>2, <1>3, <1>8, UnlinkType DEF RemovalDone
<1> QED BY <1>4, <1>5, <1>6, <1>7, <1>8 DEF OperationDone

LEMMA FailSound ==
  ASSUME IInv, NEW c \in Calls, Fail(c)
  PROVE  IInv'
<1>1. "OK" \in Code /\ "Internal" \in Code /\ "patch" \in Await /\ "unloop" \in Await
  BY DEF Code, Await
<1>2. StoreSound' /\ HostTypeOK'
  BY TaskBefore, StoreUnchanged, HostUnchanged, RequestServedSound DEF Fail
<1>3. CASE call[c].pc = "unloop"
  <2>1. Goto(c, "patch")
    BY <1>3 DEF Fail
  <2>2. TaskSound([call[c] EXCEPT !.pc = "patch"])
    BY <1>3, TaskBefore DEF TaskSound, Publishing, Call, Await
  <2> QED BY <1>1, <1>2, <2>1, <2>2, GotoStep
<1>4. CASE call[c].pc # "unloop"
  <2>1. Reply(c, "OK") \/ Reply(c, "Internal")
    BY <1>4 DEF Fail
  <2> QED BY <1>1, <1>2, <2>1, ReplyStep
<1> QED BY <1>3, <1>4

LEMMA DropSound ==
  ASSUME IInv, NEW c \in Calls, Cancel(c) \/ Return(c)
  PROVE  IInv'
<1>1. StoreSound' /\ HostTypeOK'
  BY TaskBefore, StoreUnchanged, HostUnchanged, RequestServedSound, OperationDoneSound
     DEF Cancel, Return
<1> QED BY <1>1, NoCallSound, TaskStep DEF Cancel, Return

LEMMA RebootSound ==
  ASSUME IInv, NEW n \in Nodes, Reboot(n)
  PROVE  IInv'
<1>1. StoreSound' /\ HostTypeOK'
  BY StoreUnchanged, LoseKernelStateType DEF IInv, TypeOK, StoreSound, Reboot
<1>2. call' \in [Calls -> Call] /\ TasksSound'
  BY NoCallSound DEF IInv, TypeOK, TasksSound, Reboot
<1> QED BY <1>1, <1>2 DEF IInv, TypeOK, StoreSound

-------------------------------------------------------------------------------

LEMMA InitSound == Init => IInv
<1> SUFFICES ASSUME Init PROVE IInv
  OBVIOUS
<1>1. StoreSound
  BY DEF Init, StoreInit, StoreSound, RecordIntegrity, Exists
<1>2. HostTypeOK
  BY DEF Init, HostInit, HostTypeOK, NoFile, BackingFile, FreeDevice, LoopDevice,
         NoTarget, TargetPath
<1>3. call \in [Calls -> Call] /\ TasksSound
  BY NoCallSound DEF Init, CallInit, TasksSound
<1> QED BY <1>1, <1>2, <1>3 DEF IInv, TypeOK, StoreSound

LEMMA NextSound == IInv /\ [Next]_vars => IInv'
<1> SUFFICES ASSUME IInv, [Next]_vars PROVE IInv'
  OBVIOUS
<1>1. ASSUME NEW c \in Calls, Request(c) PROVE IInv'
  BY <1>1, RequestStep
<1>2. ASSUME NEW c \in Calls, ControllerStep(c) PROVE IInv'
  BY <1>2, ControllerStepSound
<1>3. ASSUME NEW c \in Calls, NodeStep(c) PROVE IInv'
  BY <1>3, NodePublishStepSound, NodeUnpublishStepSound, NodeExpandStepSound,
     NodeGetStatsStepSound DEF NodeStep
<1>4. ASSUME NEW c \in Calls, Fail(c) PROVE IInv'
  BY <1>4, FailSound
<1>5. ASSUME NEW c \in Calls, Cancel(c) \/ Return(c) PROVE IInv'
  BY <1>5, DropSound
<1>6. ASSUME NEW n \in Nodes, Reboot(n) PROVE IInv'
  BY <1>6, RebootSound
<1>7. CASE UNCHANGED vars
  BY <1>7 DEF vars, IInv, TypeOK, HostTypeOK, RecordIntegrity, Exists, TasksSound
<1> QED BY <1>1, <1>2, <1>3, <1>4, <1>5, <1>6, <1>7 DEF Next

(* Types, well-formed records and well-formed copies of them, in every     *)
(* reachable state: for any number of calls, with any fault.               *)
THEOREM Soundness == Spec => []IInv
BY InitSound, NextSound, PTL DEF Spec

(* Every variable holds a value of its type.                               *)
THEOREM TypeCorrect == Spec => []TypeOK
<1>1. IInv => TypeOK
  BY DEF IInv
<1> QED BY <1>1, Soundness, PTL

(* No interleaving of the handlers and no fault leaves a record that       *)
(* contradicts itself.                                                     *)
THEOREM RecordsIntact == Spec => []RecordIntegrity
<1>1. IInv => RecordIntegrity
  BY DEF IInv
<1> QED BY <1>1, Soundness, PTL

(* No task is about to write a record that contradicts itself.             *)
THEOREM TasksIntact == Spec => []TasksSound
<1>1. IInv => TasksSound
  BY DEF IInv
<1> QED BY <1>1, Soundness, PTL
===============================================================================
