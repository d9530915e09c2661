------------------------------ MODULE HostProofs ------------------------------
(***************************************************************************)
(* Loop devices and files, whatever fails.                                 *)
(***************************************************************************)
EXTENDS LifecycleProofs

(***************************************************************************)
(* A file never has two loop devices, whatever runs at once and whatever   *)
(* fails.  Only losetup attaches a device, and it takes a free one only if *)
(* the file has none; every other step releases devices or leaves them     *)
(* alone.  Types are those of module LvpProofs.                            *)
(***************************************************************************)

Attached == OneDevicePerFile /\ loops \in [Nodes -> [Devices -> LoopDevice]]

Releases ==
  \A n \in Nodes, d \in Devices :
    \/ loops'[n][d].file = loops[n][d].file
    \/ loops'[n][d].file \notin Volumes

LEMMA ReleaseUnique == OneDevicePerFile /\ Releases => OneDevicePerFile'
BY DEF OneDevicePerFile, Releases

LEMMA QuietReleases == UNCHANGED loops => Releases
BY DEF Releases

LEMMA NotVolumes == None \notin Volumes /\ Deleted \notin Volumes
BY NoneAssumption, DeletedAssumption

LEMMA LosetupUnique ==
  ASSUME Attached, NEW n \in Nodes, NEW v, NEW e \in Devices, Losetup(n, v, e)
  PROVE  OneDevicePerFile'
<1> DEFINE new == [file |-> v, autoclear |-> FALSE]
<1>1. loops' = [loops EXCEPT ![n][e] = new]
  BY DEF Losetup
<1>2. \A m \in Nodes, d \in Devices :
        loops'[m][d] = IF m = n /\ d = e THEN new ELSE loops[m][d]
  BY <1>1 DEF Attached
<1>3. \A d \in Devices : loops[n][d].file = v /\ v \in Volumes => d = e
  <2>1. CASE {d \in Devices : loops[n][d].file = v} = {}
    BY <2>1
  <2>2. CASE {d \in Devices : loops[n][d].file = v} # {}
    <3>1. loops[n][e].file = v
      BY <2>2 DEF Losetup, LosetupChoices
    <3> QED BY <3>1 DEF Attached, OneDevicePerFile
  <2> QED BY <2>1, <2>2
<1> SUFFICES ASSUME NEW m \in Nodes, NEW a \in Devices, NEW b \in Devices,
                    loops'[m][a].file = loops'[m][b].file,
                    loops'[m][a].file \in Volumes
             PROVE  a = b
  BY DEF OneDevicePerFile
<1>4. CASE m # n
  BY <1>2, <1>4 DEF Attached, OneDevicePerFile
<1>5. CASE m = n /\ a # e /\ b # e
  BY <1>2, <1>5 DEF Attached, OneDevicePerFile
<1>6. CASE m = n /\ (a = e \/ b = e)
  BY <1>2, <1>3, <1>6
<1> QED BY <1>4, <1>5, <1>6

LEMMA DetachReleases ==
  ASSUME Attached, NEW n \in Nodes, NEW e \in Devices, LosetupDetach(n, e)
  PROVE  Releases
<1> DEFINE new == IF Showing(n, loops[n][e].file) # {}
                  THEN [loops[n][e] EXCEPT !.autoclear = TRUE] ELSE FreeDevice
<1>1. loops' = [loops EXCEPT ![n][e] = new]
  BY DEF LosetupDetach
<1>2. \A m \in Nodes, d \in Devices :
        loops'[m][d] = IF m = n /\ d = e THEN new ELSE loops[m][d]
  BY <1>1 DEF Attached
<1>3. loops[n][e] \in LoopDevice
  BY DEF Attached
<1>4. new.file \in {loops[n][e].file, None}
  BY <1>3 DEF LoopDevice, FreeDevice
<1> QED BY <1>2, <1>4, NotVolumes DEF Releases

LEMMA UmountReleases ==
  ASSUME Attached, NEW n \in Nodes, NEW v \in Volumes, NEW t \in Targets, Umount(n, v, t)
  PROVE  Releases
<1>1. \A m \in Nodes, d \in Devices :
        loops'[m][d] = loops[m][d] \/ loops'[m][d] = FreeDevice
  BY DEF Attached, Umount
<1> QED BY <1>1, NotVolumes DEF Releases, FreeDevice

LEMMA UnlinkReleases ==
  ASSUME Attached, NEW n \in Nodes, NEW v \in Volumes, Unlink(n, v)
  PROVE  Releases
<1>1. \A m \in Nodes, d \in Devices :
        \/ loops'[m][d] = loops[m][d]
        \/ loops'[m][d] = [loops[m][d] EXCEPT !.file = Deleted]
  BY DEF Attached, Unlink
<1>2. \A m \in Nodes, d \in Devices :
        [loops[m][d] EXCEPT !.file = Deleted].file = Deleted
  BY DEF Attached, LoopDevice
<1>3. ASSUME NEW m \in Nodes, NEW d \in Devices
      PROVE  \/ loops'[m][d].file = loops[m][d].file
             \/ loops'[m][d].file \notin Volumes
  <2>1. CASE loops'[m][d] = loops[m][d]
    BY <2>1
  <2>2. CASE loops'[m][d] = [loops[m][d] EXCEPT !.file = Deleted]
    <3>1. loops'[m][d].file = Deleted
      BY <1>2, <2>2, Zenon
    <3> QED BY <3>1, NotVolumes
  <2> QED BY <1>1, <2>1, <2>2
<1> QED BY <1>3 DEF Releases

LEMMA RebootReleases ==
  ASSUME Attached, NEW n \in Nodes, LoseKernelState(n)
  PROVE  Releases
<1>1. \A m \in Nodes, d \in Devices :
        loops'[m][d] = loops[m][d] \/ loops'[m][d] = FreeDevice
  BY DEF Attached, LoseKernelState
<1> QED BY <1>1, NotVolumes DEF Releases, FreeDevice

-------------------------------------------------------------------------------
LEMMA ControllerStepUnique ==
  ASSUME IInv, OneDevicePerFile, NEW c \in Calls, ControllerStep(c)
  PROVE  OneDevicePerFile'
<1>1. CASE DeleteVolumeUnlink(c)
  <2>1. call[c].vol \in Volumes /\ call[c].node \in Nodes
    BY <1>1, TaskBefore DEF DeleteVolumeUnlink, At, TaskSound, Await
  <2>2. CASE Unlink(call[c].node, call[c].vol)
    BY <2>1, <2>2, UnlinkReleases, ReleaseUnique DEF Attached, IInv, TypeOK, HostTypeOK
  <2>3. CASE UNCHANGED hostVars
    BY <2>3, QuietReleases, ReleaseUnique DEF hostVars
  <2> QED BY <1>1, <2>2, <2>3 DEF DeleteVolumeUnlink
<1>2. CASE ~DeleteVolumeUnlink(c)
  <2>1. UNCHANGED loops
    BY <1>2 DEF ControllerStep, CreateVolumeGet, CreateVolumePost, CreateVolumeLoad,
       DeleteVolumeLoad, DeleteVolumeDelete, ControllerPublishLoad,
       ControllerPublishPatch, ControllerUnpublishLoad, ControllerUnpublishPatch,
       Decide, Update, hostVars
  <2> QED BY <2>1, QuietReleases, ReleaseUnique
<1> QED BY <1>1, <1>2

LEMMA NodeStepUnique ==
  ASSUME IInv, OneDevicePerFile, NEW c \in Calls, NodeStep(c)
  PROVE  OneDevicePerFile'
<1> DEFINE q == call[c]
<1>1. Attached
  BY DEF Attached, IInv, TypeOK, HostTypeOK
<1>2. CASE NodePublishLosetup(c)
  <2>1. q.node \in Nodes
    BY <1>2, TaskBefore DEF NodePublishLosetup, At, TaskSound
  <2>2. CASE \E d \in Devices : Losetup(q.node, q.vol, d)
    BY <1>1, <2>1, <2>2, LosetupUnique
  <2>3. CASE UNCHANGED loops
    BY <2>3, QuietReleases, ReleaseUnique
  <2> QED BY <1>2, <2>2, <2>3 DEF NodePublishLosetup
<1>3. CASE NodeUnpublishUmount(c)
  <2>1. q.node \in Nodes /\ q.vol \in Volumes /\ q.target \in Targets
    BY <1>3, TaskBefore DEF NodeUnpublishUmount, At, TaskSound, Await
  <2>2. CASE Umount(q.node, q.vol, q.target)
    BY <1>1, <2>1, <2>2, UmountReleases, ReleaseUnique
  <2>3. CASE UNCHANGED loops
    BY <2>3, QuietReleases, ReleaseUnique
  <2> QED BY <1>3, <2>2, <2>3 DEF NodeUnpublishUmount
<1>4. CASE NodeUnpublishUnloop(c)
  <2>1. q.node \in Nodes /\ q.dev \in Devices
    BY <1>4, TaskBefore DEF NodeUnpublishUnloop, At, TaskSound
  <2>2. CASE LosetupDetach(q.node, q.dev)
    BY <1>1, <2>1, <2>2, DetachReleases, ReleaseUnique
  <2>3. CASE UNCHANGED loops
    BY <2>3, QuietReleases, ReleaseUnique
  <2> QED BY <1>4, <2>2, <2>3 DEF NodeUnpublishUnloop
<1>5. CASE NodePublishStep(c) /\ ~NodePublishLosetup(c)
  <2>1. UNCHANGED loops
    BY <1>5 DEF NodePublishStep, NodePublishLoad, NodePublishMkdir, NodePublishStat,
       NodePublishMake, NodePublishCreate, NodePublishAllocate, NodePublishMkfs,
       NodePublishAssign, NodePublishMount, NodePublishPatch, Decide, Update, hostVars
  <2> QED BY <2>1, QuietReleases, ReleaseUnique
<1>6. CASE \/ NodeUnpublishLoad(c) \/ NodeUnpublishPatch(c) \/ NodeUnpublishRmdir(c)
           \/ NodeExpandLoad(c) \/ NodeExpandTruncate(c)
           \/ NodeExpandGrow(c) \/ NodeExpandPatch(c)
           \/ NodeGetStatsLoad(c) \/ NodeGetStatsStatfs(c)
  <2>1. UNCHANGED loops
    BY <1>6 DEF NodeUnpublishLoad, NodeUnpublishPatch, NodeUnpublishRmdir,
       NodeExpandLoad, NodeExpandTruncate, NodeExpandGrow, NodeExpandPatch,
       NodeGetStatsLoad, NodeGetStatsStatfs, Decide, Update, hostVars
  <2> QED BY <2>1, QuietReleases, ReleaseUnique
<1> QED BY <1>2, <1>3, <1>4, <1>5, <1>6 DEF NodeStep

(* What a dropped task awaited may still be done.                          *)
LEMMA CutOffUnique ==
  ASSUME IInv, OneDevicePerFile, NEW c \in Calls, Fail(c) \/ Cancel(c)
  PROVE  OneDevicePerFile'
<1> DEFINE q == call[c]
<1>1. Attached
  BY DEF Attached, IInv, TypeOK, HostTypeOK
<1>2. CASE UNCHANGED loops
  BY <1>2, QuietReleases, ReleaseUnique
<1>3. CASE DeviceDone(c)
  <2>1. q.node \in Nodes /\ (q.pc = "unloop" => q.dev \in Devices)
    BY <1>3, TaskBefore DEF DeviceDone, At, TaskSound
  <2>2. CASE \E d \in Devices : Losetup(q.node, q.vol, d)
    BY <1>1, <2>1, <2>2, LosetupUnique
  <2>3. CASE q.pc = "unloop" /\ LosetupDetach(q.node, q.dev)
    BY <1>1, <2>1, <2>3, DetachReleases, ReleaseUnique
  <2> QED BY <1>3, <2>2, <2>3 DEF DeviceDone, At
<1>4. CASE UnmountDone(c)
  <2>1. q.node \in Nodes /\ q.vol \in Volumes /\ q.target \in Targets
    BY <1>4, TaskBefore DEF UnmountDone, At, TaskSound, Await
  <2> QED BY <1>1, <1>4, <2>1, UmountReleases, ReleaseUnique DEF UnmountDone
<1>5. CASE RemovalDone(c)
  <2>1. q.node \in Nodes /\ q.vol \in Volumes
    BY <1>5, TaskBefore DEF RemovalDone, At, TaskSound, Await
  <2> QED BY <1>1, <1>5, <2>1, UnlinkReleases, ReleaseUnique DEF RemovalDone
<1>6. \/ UNCHANGED loops \/ DeviceDone(c) \/ UnmountDone(c) \/ RemovalDone(c)
  BY DEF Fail, Cancel, RequestServed, OperationDone, FileDone, TargetDone, hostVars
<1> QED BY <1>2, <1>3, <1>4, <1>5, <1>6

LEMMA NextUnique == IInv /\ OneDevicePerFile /\ [Next]_vars => OneDevicePerFile'
<1> SUFFICES ASSUME IInv, OneDevicePerFile, [Next]_vars PROVE OneDevicePerFile'
  OBVIOUS
<1>1. ASSUME NEW c \in Calls, ControllerStep(c) \/ NodeStep(c) PROVE OneDevicePerFile'
  BY <1>1, ControllerStepUnique, NodeStepUnique
<1>2. ASSUME NEW c \in Calls, Request(c) PROVE OneDevicePerFile'
  BY <1>2, RequestQuiet, QuietReleases, ReleaseUnique DEF hostVars
<1>3. ASSUME NEW c \in Calls, Fail(c) \/ Cancel(c) \/ Return(c) PROVE OneDevicePerFile'
  BY <1>3, CutOffUnique, QuietReleases, ReleaseUnique DEF Return, hostVars
<1>4. ASSUME NEW n \in Nodes, Reboot(n) PROVE OneDevicePerFile'
  BY <1>4, RebootReleases, ReleaseUnique DEF Reboot, Attached, IInv, TypeOK, HostTypeOK
<1>5. CASE UNCHANGED vars
  BY <1>5, QuietReleases, ReleaseUnique DEF vars
<1> QED BY <1>1, <1>2, <1>3, <1>4, <1>5 DEF Next

(* No interleaving and no fault gives a file a second loop device.         *)
THEOREM DevicesUnique == Spec => []OneDevicePerFile
<1>1. Init => OneDevicePerFile
  BY NotVolumes DEF Init, HostInit, OneDevicePerFile, FreeDevice
<1> QED BY <1>1, NextUnique, Soundness, PTL DEF Spec

-------------------------------------------------------------------------------
(***************************************************************************)
(* No filesystem is made anew, or lost while its volume is in use, when    *)
(* there is one call in flight per volume, whatever fails                  *)
(* (FilesystemsKept).                                                      *)
(*                                                                         *)
(* Only make_volume empties a file, and it looks for the file first.  With *)
(* one call per volume nobody makes the file between that look and         *)
(* File::create, nor a filesystem in it before mkfs.  Only DeleteVolume    *)
(* takes a file away, and the state it has read is still that of the       *)
(* record (InSync).                                                        *)
(***************************************************************************)

Making == {"create", "allocate", "mkfs"}

Blank(q) ==
  /\ q.pc \in Making => q.node \in Nodes /\ disk[q.node][q.vol].fs = 0
  /\ q.pc = "create" => ~disk[q.node][q.vol].exists

NoStrayFilesystem ==
  \A n \in Nodes, v \in Volumes : ~disk[n][v].exists => disk[n][v].fs = 0

BlankFiles == NoStrayFilesystem /\ \A c \in Calls : Blank(call[c])

Intact ==
  \A n \in Nodes, v \in Volumes :
    disk[n][v].fs > 0 =>
      IF disk'[n][v].exists THEN disk'[n][v].fs > 0
      ELSE Exists(v) /\ store[v].state = "Open"

Kept == BlankFiles' /\ Intact

LEMMA DiskType ==
  ASSUME IInv, NEW n \in Nodes, NEW v \in Volumes
  PROVE  /\ disk[n][v] \in BackingFile /\ disk[n][v].fs \in Nat
         /\ disk[n][v].size \in Nat
BY DEF IInv, TypeOK, HostTypeOK, BackingFile

-------------------------------------------------------------------------------
(* Steps that leave the files alone, and do not come to create or mkfs.    *)

Moved == \A d \in Calls : call'[d] = call[d] \/ call'[d].pc \notin Making

LEMMA QuietKept ==
  ASSUME IInv, BlankFiles, UNCHANGED disk, Moved
  PROVE  Kept
<1>1. Intact
  BY DEF Intact, BlankFiles, NoStrayFilesystem
<1>2. NoStrayFilesystem'
  BY DEF BlankFiles, NoStrayFilesystem
<1>3. ASSUME NEW c \in Calls PROVE Blank(call[c])'
  BY DEF BlankFiles, Blank, Moved, Making
<1> QED BY <1>1, <1>2, <1>3 DEF Kept, BlankFiles

LEMMA HoldMoved ==
  ASSUME IInv, NEW c \in Calls, NEW pc, NEW rec, pc \notin Making,
         Hold(c, pc, rec)
  PROVE  Moved
BY TaskBefore DEF Hold, Moved, IInv, TypeOK, Call

LEMMA HoldDeviceMoved ==
  ASSUME IInv, NEW c \in Calls, NEW pc, NEW rec, NEW d, pc \notin Making,
         HoldDevice(c, pc, rec, d)
  PROVE  Moved
BY TaskBefore DEF HoldDevice, Moved, IInv, TypeOK, Call

LEMMA GotoMoved ==
  ASSUME IInv, NEW c \in Calls, NEW pc, pc \notin Making, Goto(c, pc)
  PROVE  Moved
BY HoldMoved DEF Goto

LEMMA ReplyMoved ==
  ASSUME IInv, NEW c \in Calls, NEW code, Reply(c, code)
  PROVE  Moved
BY TaskBefore DEF Reply, Moved, Making, IInv, TypeOK, Call

LEMMA DecideKept ==
  ASSUME IInv, BlankFiles, NEW c \in Calls, NEW verdict, NEW pc, NEW rec,
         pc \notin Making, Decide(c, verdict, pc, rec)
  PROVE  Kept
BY HoldMoved, ReplyMoved, QuietKept DEF Decide, hostVars

LEMMA LastUpdateKept ==
  ASSUME IInv, BlankFiles, NEW c \in Calls,
         \/ Update(c, Reply(c, "OK")) \/ Update(c, Goto(c, "rmdir"))
         \/ Update(c, Goto(c, "losetup"))
  PROVE  Kept
BY GotoMoved, ReplyMoved, QuietKept DEF Update, Making, hostVars

-------------------------------------------------------------------------------
(* Steps that change a file: only the task's own volume loses blankness.   *)

BlankElsewhere(c) ==
  \A n \in Nodes, v \in Volumes :
    v # call[c].vol =>
      /\ ~disk[n][v].exists => ~disk'[n][v].exists
      /\ disk[n][v].fs = 0 => disk'[n][v].fs = 0

(* What the step of task c does to the files, whatever becomes of c.       *)
Spares(c) == BlankElsewhere(c) /\ Intact /\ NoStrayFilesystem'

LEMMA SparedKept ==
  ASSUME IInv, LInv, BlankFiles, NEW c \in Calls, Spares(c), Blank(call[c])',
         call[c].vol \in Volumes, \A d \in Calls \ {c} : call'[d] = call[d]
  PROVE  Kept
<1> SUFFICES ASSUME NEW d \in Calls, d # c PROVE Blank(call[d])'
  BY DEF BlankFiles, Spares, Kept
<1>1. CASE call[d].pc \in Making
  <2>1. call[d].vol \in Volumes
    BY <1>1, TaskBefore DEF TaskSound, Await, Making
  <2>2. call[d].vol # call[c].vol
    BY <2>1, NoneAssumption DEF LInv, OneCallPerVolume
  <2>3. call[d].node \in Nodes
    BY <1>1 DEF BlankFiles, Blank
  <2> QED BY <2>1, <2>2, <2>3 DEF BlankFiles, Blank, Spares, BlankElsewhere
<1>2. CASE call[d].pc \notin Making
  BY <1>2 DEF Blank, Making
<1> QED BY <1>1, <1>2

(* A step after which task c is past making its file.                      *)
LEMMA SparedMoved ==
  ASSUME IInv, LInv, BlankFiles, NEW c \in Calls, Spares(c), Moved,
         call[c].vol \in Volumes, call'[c].pc \notin Making,
         \A d \in Calls \ {c} : call'[d] = call[d]
  PROVE  Kept
<1>1. Blank(call[c])'
  BY DEF Blank, Making
<1> QED BY <1>1, SparedKept

(* A step that changes the file of one volume on one node.                 *)
LEMMA FileSpared ==
  ASSUME IInv, BlankFiles, NEW n \in Nodes, NEW v \in Volumes, NEW f,
         disk' = [disk EXCEPT ![n][v] = f],
         disk[n][v].fs > 0 =>
           IF f.exists THEN f.fs > 0 ELSE Exists(v) /\ store[v].state = "Open",
         ~f.exists => f.fs = 0
  PROVE  Intact /\ NoStrayFilesystem'
<1>1. \A m \in Nodes, w \in Volumes :
        disk'[m][w] = IF m = n /\ w = v THEN f ELSE disk[m][w]
  BY DEF IInv, TypeOK, HostTypeOK
<1>2. NoStrayFilesystem
  BY DEF BlankFiles
<1>3. Intact
  BY <1>1, <1>2 DEF Intact, NoStrayFilesystem
<1>4. NoStrayFilesystem'
  BY <1>1, <1>2 DEF NoStrayFilesystem
<1> QED BY <1>3, <1>4

(* A step that changes the file of the task's own volume.                  *)
LEMMA OwnFile ==
  ASSUME IInv, BlankFiles, NEW c \in Calls, NEW n \in Nodes, NEW f,
         call[c].vol \in Volumes,
         disk' = [disk EXCEPT ![n][call[c].vol] = f],
         disk[n][call[c].vol].fs > 0 =>
           IF f.exists THEN f.fs > 0
           ELSE Exists(call[c].vol) /\ store[call[c].vol].state = "Open",
         ~f.exists => f.fs = 0
  PROVE  Spares(c)
<1>1. Intact /\ NoStrayFilesystem'
  BY FileSpared
<1>2. BlankElsewhere(c)
  BY DEF BlankElsewhere, IInv, TypeOK, HostTypeOK
<1> QED BY <1>1, <1>2 DEF Spares

-------------------------------------------------------------------------------
(* What the awaited operations do to the files.                            *)

LEMMA CreateSpares ==
  ASSUME IInv, BlankFiles, NEW c \in Calls, At(c, "NodePublish", "create"),
         \/ MakeDirectory(call[c].node, call[c].vol)
         \/ CreateFile(call[c].node, call[c].vol)
  PROVE  /\ Spares(c)
         /\ disk'[call[c].node][call[c].vol].fs = 0
<1> DEFINE q == call[c]
           file == disk[q.node][q.vol]
<1>1. q.vol \in Volumes /\ q.node \in Nodes
  BY TaskBefore DEF At, TaskSound, Await
<1>2. file.fs = 0
  BY DEF At, BlankFiles, Blank, Making
<1>3. file \in BackingFile
  BY <1>1, DiskType
<1>4. CASE MakeDirectory(q.node, q.vol)
  <2> DEFINE f == [file EXCEPT !.exists = TRUE]
  <2>1. disk' = [disk EXCEPT ![q.node][q.vol] = f]
    BY <1>1, <1>4 DEF MakeDirectory, IInv, TypeOK, HostTypeOK
  <2>2. f.fs = 0 /\ f.exists
    BY <1>2, <1>3 DEF BackingFile
  <2> HIDE DEF f, file
  <2>3. Spares(c)
    BY <1>1, <1>2, <2>1, <2>2, OwnFile DEF file
  <2>4. disk'[q.node][q.vol] = f
    BY <1>1, <2>1 DEF IInv, TypeOK, HostTypeOK
  <2> QED BY <2>2, <2>3, <2>4
<1>5. CASE CreateFile(q.node, q.vol)
  <2> DEFINE f == [exists |-> TRUE, size |-> 0, fs |-> 0]
  <2>1. disk' = [disk EXCEPT ![q.node][q.vol] = f] /\ f.fs = 0 /\ f.exists
    BY <1>5 DEF CreateFile
  <2> HIDE DEF f, file
  <2>2. Spares(c)
    BY <1>1, <1>2, <2>1, OwnFile DEF file
  <2>3. disk'[q.node][q.vol] = f
    BY <1>1, <2>1 DEF IInv, TypeOK, HostTypeOK
  <2> QED BY <2>1, <2>2, <2>3
<1> QED BY <1>4, <1>5

LEMMA TruncateSpares ==
  ASSUME IInv, BlankFiles, NEW c \in Calls, NEW size \in Nat,
         call[c].vol \in Volumes, call[c].node \in Nodes,
         Truncate(call[c].node, call[c].vol, size)
  PROVE  /\ Spares(c)
         /\ disk'[call[c].node][call[c].vol].fs = disk[call[c].node][call[c].vol].fs
<1> DEFINE q == call[c]
           file == disk[q.node][q.vol]
           f == [file EXCEPT !.size = size]
<1>1. disk' = [disk EXCEPT ![q.node][q.vol] = f] /\ file.exists
  BY DEF Truncate, IInv, TypeOK, HostTypeOK
<1>2. f.fs = file.fs /\ f.exists
  BY <1>1, DiskType DEF BackingFile
<1> HIDE DEF f, file
<1>3. Spares(c)
  BY <1>1, <1>2, OwnFile DEF file
<1>4. disk'[q.node][q.vol] = f
  BY <1>1 DEF IInv, TypeOK, HostTypeOK
<1> QED BY <1>2, <1>3, <1>4 DEF file

LEMMA MkfsSpares ==
  ASSUME IInv, BlankFiles, NEW c \in Calls,
         call[c].vol \in Volumes, call[c].node \in Nodes, Mkfs(call[c].node, call[c].vol)
  PROVE  Spares(c)
<1> DEFINE q == call[c]
           file == disk[q.node][q.vol]
           f == [file EXCEPT !.fs = file.size]
<1>1. disk' = [disk EXCEPT ![q.node][q.vol] = f] /\ file.exists /\ file.size > 0
  BY DEF Mkfs, CanMkfs, IInv, TypeOK, HostTypeOK
<1>2. f.fs > 0 /\ f.exists
  BY <1>1, DiskType DEF BackingFile
<1> HIDE DEF f
<1> QED BY <1>1, <1>2, OwnFile

(* The device may have gone over to another volume: that one has a         *)
(* filesystem, too.                                                        *)
LEMMA GrowSpares ==
  ASSUME IInv, BlankFiles, NEW c \in Calls, NEW n \in Nodes, NEW d, Grow(n, d)
  PROVE  Spares(c)
<1> DEFINE v == loops[n][d].file
           f == [disk[n][v] EXCEPT !.fs = disk[n][v].size]
<1>1. v \in Volumes /\ 0 < disk[n][v].fs /\ disk[n][v].fs <= disk[n][v].size
  BY DEF Grow, CanGrow
<1>2. disk' = [disk EXCEPT ![n][v] = f]
  BY <1>1 DEF Grow, IInv, TypeOK, HostTypeOK
<1>3. disk[n][v].exists
  BY <1>1 DEF BlankFiles, NoStrayFilesystem
<1>4. f.exists /\ f.fs > 0
  BY <1>1, <1>3, DiskType DEF BackingFile
<1> HIDE DEF v, f
<1>5. Intact /\ NoStrayFilesystem'
  BY <1>1, <1>2, <1>4, FileSpared
<1>6. BlankElsewhere(c)
  BY <1>1, <1>2, <1>3 DEF BlankElsewhere, IInv, TypeOK, HostTypeOK
<1> QED BY <1>5, <1>6 DEF Spares

LEMMA UnlinkSpares ==
  ASSUME IInv, LInv, BlankFiles, NEW c \in Calls, At(c, "DeleteVolume", "unlink"),
         Unlink(call[c].node, call[c].vol)
  PROVE  Spares(c)
<1> DEFINE q == call[c]
<1>1. q.vol \in Volumes /\ q.node \in Nodes
  BY TaskBefore DEF At, TaskSound, Await
<1>2. Exists(q.vol) /\ store[q.vol].state = "Open"
  BY DEF LInv, InSync, Sync, At, Exists
<1>3. disk' = [disk EXCEPT ![q.node][q.vol] = NoFile] /\ ~NoFile.exists /\ NoFile.fs = 0
  BY DEF Unlink, NoFile
<1> QED BY <1>1, <1>2, <1>3, OwnFile

-------------------------------------------------------------------------------
(* make_volume.                                                            *)
LEMMA MakeKept ==
  ASSUME IInv, LInv, BlankFiles, NEW c \in Calls,
         \/ NodePublishMake(c)     \/ NodePublishCreate(c)
         \/ NodePublishAllocate(c) \/ NodePublishMkfs(c)
  PROVE  Kept
<1> DEFINE q == call[c]
           file == disk[q.node][q.vol]
<1>1. /\ q \in Call /\ q.vol \in Volumes /\ q.node \in Nodes
      /\ q.pc \in Publishing /\ q.rec \in Volume /\ q.rec.size \in Nat
      /\ \A d \in Calls \ {c} : call'[d] = call[d]
  BY TaskBefore DEF NodePublishMake, NodePublishCreate, NodePublishAllocate,
       NodePublishMkfs, At, TaskSound, Await, Publishing, Reply, Goto, Hold, Volume,
       IInv, TypeOK
<1>2. CASE NodePublishMake(c)
  <2>1. UNCHANGED disk
    BY <1>2 DEF NodePublishMake, hostVars
  <2>2. CASE file.exists
    BY <1>2, <2>1, <2>2, ReplyMoved, QuietKept DEF NodePublishMake
  <2>3. CASE ~file.exists
    <3>1. Goto(c, "create")
      BY <1>2, <2>3 DEF NodePublishMake
    <3>2. call'[c].pc = "create" /\ call'[c].node = q.node /\ call'[c].vol = q.vol
      BY <1>1, <3>1 DEF Goto, Hold, Call, IInv, TypeOK
    <3>3. file.fs = 0
      BY <1>1, <2>3 DEF BlankFiles, NoStrayFilesystem
    <3>4. Blank(call[c])'
      BY <1>1, <2>1, <2>3, <3>2, <3>3 DEF Blank
    <3>5. Spares(c)
      BY <2>1 DEF Spares, BlankElsewhere, Intact, BlankFiles, NoStrayFilesystem
    <3> QED BY <1>1, <3>4, <3>5, SparedKept
  <2> QED BY <2>2, <2>3
<1>3. CASE NodePublishCreate(c)
  <2>1. Spares(c) /\ disk'[q.node][q.vol].fs = 0
    BY <1>3, CreateSpares DEF NodePublishCreate
  <2>2. CASE Hold(c, "assign", Assigned(q))
    <3>1. call'[c].pc = "assign"
      BY <1>1, <2>2 DEF Hold, Call, IInv, TypeOK
    <3>2. Blank(call[c])'
      BY <3>1 DEF Blank, Making
    <3> QED BY <1>1, <2>1, <3>2, SparedKept
  <2>3. CASE Goto(c, "allocate")
    <3>1. call'[c].pc = "allocate" /\ call'[c].node = q.node /\ call'[c].vol = q.vol
      BY <1>1, <2>3 DEF Goto, Hold, Call, IInv, TypeOK
    <3>2. Blank(call[c])'
      BY <1>1, <2>1, <3>1 DEF Blank
    <3> QED BY <1>1, <2>1, <3>2, SparedKept
  <2> QED BY <1>3, <2>2, <2>3 DEF NodePublishCreate
<1>4. CASE NodePublishAllocate(c)
  <2>1. file.fs = 0
    BY <1>4 DEF NodePublishAllocate, At, BlankFiles, Blank, Making
  <2>2. Spares(c) /\ disk'[q.node][q.vol].fs = file.fs
    <3>1. CASE Truncate(q.node, q.vol, q.rec.size)
      BY <1>1, <3>1, TruncateSpares
    <3>2. CASE UNCHANGED disk
      BY <3>2 DEF Spares, BlankElsewhere, Intact, BlankFiles, NoStrayFilesystem
    <3> QED BY <1>4, <3>1, <3>2 DEF NodePublishAllocate
  <2>3. Goto(c, "mkfs")
    BY <1>4 DEF NodePublishAllocate
  <2>4. call'[c].pc = "mkfs" /\ call'[c].node = q.node /\ call'[c].vol = q.vol
    BY <1>1, <2>3 DEF Goto, Hold, Call, IInv, TypeOK
  <2>5. Blank(call[c])'
    BY <1>1, <2>1, <2>2, <2>4 DEF Blank
  <2> QED BY <1>1, <2>2, <2>5, SparedKept
<1>5. CASE NodePublishMkfs(c)
  <2>1. CASE Mkfs(q.node, q.vol) /\ Hold(c, "assign", Assigned(q))
    <3>1. Spares(c)
      BY <1>1, <2>1, MkfsSpares
    <3>2. call'[c].pc = "assign"
      BY <1>1, <2>1 DEF Hold, Call, IInv, TypeOK
    <3>3. Blank(call[c])'
      BY <3>2 DEF Blank, Making
    <3> QED BY <1>1, <3>1, <3>3, SparedKept
  <2>2. CASE Reply(c, "Internal") /\ UNCHANGED disk
    BY <2>2, ReplyMoved, QuietKept
  <2> QED BY <1>5, <2>1, <2>2 DEF NodePublishMkfs
<1> QED BY <1>2, <1>3, <1>4, <1>5

(* expand_volume.                                                          *)
LEMMA ExpandKept ==
  ASSUME IInv, LInv, BlankFiles, NEW c \in Calls,
         NodeExpandTruncate(c) \/ NodeExpandGrow(c)
  PROVE  Kept
<1> DEFINE q == call[c]
<1>1. /\ q \in Call /\ q.vol \in Volumes /\ q.node \in Nodes /\ q.size \in Nat
      /\ \A d \in Calls \ {c} : call'[d] = call[d]
  BY TaskBefore DEF NodeExpandTruncate, NodeExpandGrow, At, TaskSound, Await,
       Reply, Goto, Hold, Call, IInv, TypeOK
<1>2. Moved
  BY GotoMoved, ReplyMoved DEF NodeExpandTruncate, NodeExpandGrow, Making
<1>3. CASE UNCHANGED disk
  BY <1>2, <1>3, QuietKept
<1>4. ASSUME Spares(c), NEW pc, pc \notin Making, Goto(c, pc) PROVE Kept
  <2>1. call'[c].pc \notin Making
    BY <1>1, <1>4 DEF Goto, Hold, Call, IInv, TypeOK
  <2> QED BY <1>1, <1>2, <1>4, <2>1, SparedMoved
<1>5. CASE Truncate(q.node, q.vol, q.size) /\ Goto(c, "grow")
  BY <1>1, <1>4, <1>5, TruncateSpares DEF Making
<1>6. CASE Grow(q.node, q.rec.loop_device) /\ Goto(c, "patch")
  BY <1>1, <1>4, <1>6, GrowSpares DEF Making
<1> QED BY <1>3, <1>5, <1>6 DEF NodeExpandTruncate, NodeExpandGrow

(* DeleteVolume.                                                           *)
LEMMA UnlinkKept ==
  ASSUME IInv, LInv, BlankFiles, NEW c \in Calls, DeleteVolumeUnlink(c)
  PROVE  Kept
<1> DEFINE q == call[c]
<1>1. /\ q \in Call /\ q.vol \in Volumes
      /\ \A d \in Calls \ {c} : call'[d] = call[d]
  BY TaskBefore DEF DeleteVolumeUnlink, At, TaskSound, Await, Reply, Goto, Hold, IInv, TypeOK
<1>2. Moved
  BY GotoMoved, ReplyMoved DEF DeleteVolumeUnlink, Making
<1>3. CASE UNCHANGED hostVars
  BY <1>2, <1>3, QuietKept DEF hostVars
<1>4. CASE Unlink(q.node, q.vol) /\ Goto(c, "delete")
  <2>1. Spares(c)
    BY <1>4, UnlinkSpares DEF DeleteVolumeUnlink
  <2>2. call'[c].pc \notin Making
    BY <1>1, <1>4 DEF Goto, Hold, Call, IInv, TypeOK, Making
  <2> QED BY <1>1, <1>2, <2>1, <2>2, SparedMoved
<1> QED BY <1>3, <1>4 DEF DeleteVolumeUnlink

-------------------------------------------------------------------------------
(* The steps that leave the files alone.                                   *)

LEMMA RecordStepKept ==
  ASSUME IInv, BlankFiles, NEW c \in Calls,
         \/ CreateVolumeGet(c)         \/ CreateVolumePost(c)   \/ CreateVolumeLoad(c)
         \/ DeleteVolumeLoad(c)        \/ DeleteVolumeDelete(c)
         \/ ControllerPublishLoad(c)   \/ ControllerPublishPatch(c)
         \/ ControllerUnpublishLoad(c) \/ ControllerUnpublishPatch(c)
  PROVE  Kept
<1>1. CASE CreateVolumeGet(c)
  BY <1>1, GotoMoved, QuietKept DEF CreateVolumeGet, hostVars, Making
<1>2. CASE CreateVolumePost(c) \/ CreateVolumeLoad(c)
  BY <1>2, ReplyMoved, QuietKept DEF CreateVolumePost, CreateVolumeLoad, hostVars, Making
<1>3. CASE DeleteVolumeLoad(c)
  BY <1>3, DecideKept DEF DeleteVolumeLoad, Making
<1>4. CASE DeleteVolumeDelete(c)
  BY <1>4, ReplyMoved, QuietKept DEF DeleteVolumeDelete, hostVars, Making
<1>5. CASE ControllerPublishLoad(c)
  BY <1>5, DecideKept DEF ControllerPublishLoad, Making
<1>6. CASE ControllerUnpublishLoad(c)
  BY <1>6, DecideKept DEF ControllerUnpublishLoad, Making
<1>7. CASE ControllerPublishPatch(c) \/ ControllerUnpublishPatch(c)
  BY <1>7, LastUpdateKept DEF ControllerPublishPatch, ControllerUnpublishPatch, Making
<1> QED BY <1>1, <1>2, <1>3, <1>4, <1>5, <1>6, <1>7

LEMMA PublishStepKept ==
  ASSUME IInv, BlankFiles, NEW c \in Calls,
         \/ NodePublishLoad(c)   \/ NodePublishMkdir(c) \/ NodePublishStat(c)
         \/ NodePublishAssign(c) \/ NodePublishLosetup(c)
         \/ NodePublishMount(c)  \/ NodePublishPatch(c)
  PROVE  Kept
<1>1. CASE NodePublishLoad(c)
  BY <1>1, DecideKept DEF NodePublishLoad, Making
<1>2. CASE NodePublishMkdir(c)
  BY <1>2, GotoMoved, QuietKept DEF NodePublishMkdir, Making
<1>3. CASE NodePublishStat(c)
  BY <1>3, GotoMoved, QuietKept DEF NodePublishStat, hostVars, Making
<1>4. CASE NodePublishAssign(c) \/ NodePublishPatch(c)
  BY <1>4, LastUpdateKept DEF NodePublishAssign, NodePublishPatch, Making
<1>5. CASE NodePublishLosetup(c)
  BY <1>5, ReplyMoved, HoldDeviceMoved, QuietKept DEF NodePublishLosetup, Making
<1>6. CASE NodePublishMount(c)
  BY <1>6, ReplyMoved, HoldMoved, QuietKept DEF NodePublishMount, Making
<1> QED BY <1>1, <1>2, <1>3, <1>4, <1>5, <1>6

LEMMA NodeStepKept ==
  ASSUME IInv, BlankFiles, NEW c \in Calls,
         \/ NodeUnpublishLoad(c)  \/ NodeUnpublishUmount(c) \/ NodeUnpublishUnloop(c)
         \/ NodeUnpublishPatch(c) \/ NodeUnpublishRmdir(c)
         \/ NodeExpandLoad(c)     \/ NodeExpandPatch(c)
         \/ NodeGetStatsLoad(c)   \/ NodeGetStatsStatfs(c)
  PROVE  Kept
<1>1. CASE NodeUnpublishLoad(c)
  BY <1>1, DecideKept DEF NodeUnpublishLoad, Making
<1>2. CASE NodeUnpublishUmount(c)
  BY <1>2, ReplyMoved, HoldMoved, HoldDeviceMoved, QuietKept DEF NodeUnpublishUmount, Making
<1>3. CASE NodeUnpublishUnloop(c)
  BY <1>3, GotoMoved, QuietKept DEF NodeUnpublishUnloop, Making
<1>4. CASE NodeUnpublishPatch(c) \/ NodeExpandPatch(c)
  BY <1>4, LastUpdateKept DEF NodeUnpublishPatch, NodeExpandPatch, Making
<1>5. CASE NodeUnpublishRmdir(c)
  BY <1>5, ReplyMoved, QuietKept DEF NodeUnpublishRmdir, Making
<1>6. CASE NodeExpandLoad(c)
  BY <1>6, DecideKept DEF NodeExpandLoad, Making
<1>7. CASE NodeGetStatsLoad(c)
  BY <1>7, DecideKept DEF NodeGetStatsLoad, Making
<1>8. CASE NodeGetStatsStatfs(c)
  BY <1>8, ReplyMoved, QuietKept DEF NodeGetStatsStatfs, hostVars, Making
<1> QED BY <1>1, <1>2, <1>3, <1>4, <1>5, <1>6, <1>7, <1>8

LEMMA RequestKept ==
  ASSUME IInv, BlankFiles, NEW c \in Calls, Request(c)
  PROVE  Kept
<1>1. UNCHANGED disk
  BY RequestQuiet DEF hostVars
<1>2. /\ call'[c].pc \in {"get", "load"}
      /\ \A d \in Calls \ {c} : call'[d] = call[d]
  BY Started
<1> QED BY <1>1, <1>2, QuietKept DEF Moved, Making

(* What a dropped task awaited may still be done.                          *)
LEMMA CancelKept ==
  ASSUME IInv, LInv, BlankFiles, NEW c \in Calls, Cancel(c)
  PROVE  Kept
<1> DEFINE q == call[c]
<1>1. /\ call'[c].pc \notin Making
      /\ \A d \in Calls \ {c} : call'[d] = call[d]
  BY DEF Cancel, NoCall, Making, IInv, TypeOK
<1>2. Moved
  BY <1>1 DEF Moved
<1>3. CASE UNCHANGED disk
  BY <1>2, <1>3, QuietKept
<1>4. CASE FileDone(c) \/ RemovalDone(c)
  <2>1. /\ q \in Call /\ q.vol \in Volumes /\ q.node \in Nodes /\ q.size \in Nat
        /\ At(c, "NodePublish", "allocate") => q.rec.size \in Nat
    BY <1>4, TaskBefore DEF FileDone, RemovalDone, At, TaskSound, Await, Publishing,
         Volume, Call
  <2>2. CASE RemovalDone(c)
    BY <2>2, UnlinkSpares, <1>1, <1>2, <2>1, SparedMoved DEF RemovalDone
  <2>3. CASE FileDone(c)
    <3>1. Spares(c)
      BY <2>1, <2>3, CreateSpares, TruncateSpares, MkfsSpares, GrowSpares DEF FileDone
    <3> QED BY <1>1, <1>2, <2>1, <3>1, SparedMoved
  <2> QED BY <1>4, <2>2, <2>3
<1> QED BY <1>3, <1>4
     DEF Cancel, RequestServed, OperationDone, DeviceDone, TargetDone, UnmountDone, hostVars

LEMMA FaultKept ==
  ASSUME IInv, LInv, BlankFiles,
         \/ \E c \in Calls : Fail(c) \/ Cancel(c) \/ Return(c)
         \/ \E n \in Nodes : Reboot(n)
         \/ UNCHANGED vars
  PROVE  Kept
<1>1. NoCall.pc \notin Making
  BY DEF NoCall, Making
<1>2. ASSUME NEW c \in Calls, Fail(c) PROVE Kept
  <2>1. Moved
    BY <1>2, GotoMoved, ReplyMoved DEF Fail, Making
  <2> QED BY <1>2, <2>1, QuietKept DEF Fail, RequestServed, hostVars
<1>3. ASSUME NEW c \in Calls, Return(c) PROVE Kept
  BY <1>1, <1>3, QuietKept DEF Return, hostVars, Moved, IInv, TypeOK
<1>4. ASSUME NEW n \in Nodes, Reboot(n) PROVE Kept
  BY <1>1, <1>4, QuietKept DEF Reboot, LoseKernelState, Moved
<1>5. CASE UNCHANGED vars
  BY <1>5, QuietKept DEF vars, Moved
<1> QED BY <1>2, <1>3, <1>4, <1>5, CancelKept

-------------------------------------------------------------------------------

LEMMA InitBlank == Init => BlankFiles
BY DEF Init, CallInit, NoCall, HostInit, NoFile, BlankFiles, NoStrayFilesystem, Blank, Making

LEMMA NextKept == IInv /\ LInv /\ BlankFiles /\ [Next]_vars => Kept
<1> SUFFICES ASSUME IInv, LInv, BlankFiles, [Next]_vars PROVE Kept
  OBVIOUS
<1>1. ASSUME NEW c \in Calls, Request(c) PROVE Kept
  BY <1>1, RequestKept
<1>2. ASSUME NEW c \in Calls, ControllerStep(c) PROVE Kept
  BY <1>2, RecordStepKept, UnlinkKept DEF ControllerStep
<1>3. ASSUME NEW c \in Calls, NodeStep(c) PROVE Kept
  BY <1>3, PublishStepKept, MakeKept, NodeStepKept, ExpandKept
  DEF NodeStep, NodePublishStep
<1> QED BY <1>1, <1>2, <1>3, FaultKept DEF Next

(* make_volume finds no filesystem to empty, as long as there is one call  *)
(* per volume, and DeleteVolume takes none away but that of a volume that  *)
(* its record still says nobody uses, whatever fails and wherever a        *)
(* handler is cut off.                                                     *)
THEOREM FilesystemsIntact == Serial => (Spec => FilesystemsKept)
<1> SUFFICES ASSUME Serial PROVE Spec => FilesystemsKept
  OBVIOUS
<1>1. IInv /\ LInv /\ BlankFiles /\ [Next]_vars => BlankFiles' /\ [Intact]_vars
  BY NextKept DEF Kept
<1>2. Init => BlankFiles
  BY InitBlank
<1>3. Spec => []LInv
  BY CopiesInSync
<1> QED BY <1>1, <1>2, <1>3, Soundness, PTL DEF Spec, FilesystemsKept, Intact
===============================================================================
