---------------------------- MODULE AgreementProofs ----------------------------
(***************************************************************************)
(* Host and records agree when there is one call in flight per volume and  *)
(* nothing fails, for any number of volumes, nodes, targets and devices.   *)
(*                                                                         *)
(* Between calls the host is as the record of a volume says.  While a task *)
(* works on the volume the host is as the copy says that the task is about *)
(* to write, if there is one (Effective), but for what the task is in the  *)
(* middle of: a device before the mount or after the umount (Held), a file *)
(* before its mkfs, after its removal or between its truncation and the    *)
(* growth of the filesystem in it (FilesMatch).                            *)
(***************************************************************************)
EXTENDS LifecycleProofs

(* A size of 0 is the one thing in a request that disturbs a node: mkfs    *)
(* refuses it, after the file was made (see the README).                   *)
Undisturbed == Serial /\ Faults = {} /\ 0 \notin Sizes

(* The record the host follows: that in the store, s, or the one that is   *)
(* about to replace it.                                                    *)
Effective(q, s) == IF q.pc \in {"assign", "unloop", "patch"} THEN q.rec ELSE s

On(r, n) == r # None /\ r.assigned_node_id = n

MountsMatch(m, v, r) ==
  \A n \in Nodes, t \in Targets :
    /\ m[n][v][t].shows = IF On(r, n) /\ t \in r.mount_paths THEN v ELSE None
    /\ r # None /\ r.published_readonly /\ m[n][v][t].shows = v => m[n][v][t].ro

(* The devices a task has attached for a mount, or has yet to detach.      *)
Held(q) == IF q.pc \in {"mount", "unloop"} THEN {<<q.node, q.dev>>} ELSE {}

DevicesMatch(l, v, r, held) ==
  \A n \in Nodes, d \in Devices :
    /\ l[n][d].file = v <=> (On(r, n) /\ r.loop_device = d) \/ <<n, d>> \in held
    /\ l[n][d].file = v => ~l[n][d].autoclear

FilesMatch(f, v, r, q) ==
  \A n \in Nodes :
    /\ f[n][v].exists <=>
         (On(r, n) /\ q.pc # "delete") \/ (q.pc \in {"allocate", "mkfs"} /\ q.node = n)
    /\ q.pc = "mkfs" /\ q.node = n => f[n][v].size = q.rec.size
    /\ On(r, n) /\ r.filesystem # "Bind" /\ q.pc # "delete" =>
         /\ f[n][v].fs = r.size
         /\ f[n][v].size = IF q.pc = "grow" THEN q.size ELSE r.size

(* A volume that is mounted is on a node and no bind volume (`mount bind`).*)
Mountable(r) ==
  r # None =>
    /\ r.size > 0
    /\ r.assigned_node_id = None \/ r.filesystem = "Bind" => r.mount_paths = {}

(* What a task knows of the volume at the await it is at.                  *)
Placed(q, r) ==
  /\ q.pc \in {"make", "create", "allocate", "mkfs"} => r.assigned_node_id = None
  /\ q.pc \in {"assign", "losetup", "mount", "unloop", "grow", "delete"} => On(r, q.node)
  /\ q.pc \in {"allocate", "mkfs", "mount"} => r.filesystem # "Bind"
  /\ q.pc \in {"umount", "statfs"} => r # None /\ q.target \in r.mount_paths
  /\ q.op = "NodePublish" /\ q.pc = "patch" => On(r, q.node) /\ q.target \in r.mount_paths
  /\ q.op = "NodeUnpublish" /\ q.pc \in {"unloop", "patch", "rmdir"} =>
       r # None /\ q.target \notin r.mount_paths
  /\ q.pc = "unloop" => r.mount_paths = {}
  /\ q.pc \in {"truncate", "grow"} =>
       r # None /\ q.rec = Expanded(r, q.size) /\ r.size < q.size
  /\ q.op = "CreateVolume" => q.size > 0

(* What an OK says of the record.                                          *)
Told(q, r) ==
  /\ q.pc # "reply" => q.code = None
  /\ q.code = "OK" =>
       /\ q.op = "NodePublish" => On(r, q.node) /\ q.target \in r.mount_paths
       /\ q.op = "NodeUnpublish" => r # None /\ q.target \notin r.mount_paths
       /\ q.op = "NodeGetStats" => r # None /\ q.target \in r.mount_paths
       /\ q.op = "DeleteVolume" => r = None

TargetMade(m, v, q) ==
  q.op = "NodePublish" /\ q.pc \in Publishing \ {"mkdir"} => m[q.node][v][q.target].dir

(* The record s, the files f, the loop devices l and the mounts m agree on *)
(* volume v, on which task q is at work.                                   *)
HostMatch(f, l, m, v, r, q) ==
  MountsMatch(m, v, r) /\ DevicesMatch(l, v, r, Held(q)) /\ FilesMatch(f, v, r, q)

TaskMatch(m, v, r, q) ==
  Placed(q, r) /\ Told(q, r) /\ TargetMade(m, v, q)

Agree(s, f, l, m, v, q) ==
  /\ HostMatch(f, l, m, v, Effective(q, s), q)
  /\ Mountable(Effective(q, s))
  /\ TaskMatch(m, v, Effective(q, s), q)

AInv ==
  /\ \A v \in Volumes :
       /\ Idle(v) => Agree(store[v], disk, loops, mounts, v, NoCall)
       /\ \A c \in Calls : call[c].vol = v => Agree(store[v], disk, loops, mounts, v, call[c])
  /\ \A c \in Calls : call[c].vol = None => call[c] = NoCall

-------------------------------------------------------------------------------
(* A step leaves the volumes alone that its task does not work on.         *)

Untouched(u) ==
  /\ store'[u] = store[u]
  /\ \A n \in Nodes : disk'[n][u] = disk[n][u]
  /\ \A n \in Nodes, t \in Targets : mounts'[n][u][t] = mounts[n][u][t]
  /\ \A n \in Nodes, d \in Devices :
       /\ loops'[n][d].file = u <=> loops[n][d].file = u
       /\ loops'[n][d].file = u => loops'[n][d].autoclear = loops[n][d].autoclear

LEMMA UntouchedAgree ==
  ASSUME NEW u \in Volumes, NEW q, Agree(store[u], disk, loops, mounts, u, q), Untouched(u),
         q.op = "NodePublish" /\ q.pc \in Publishing => q.node \in Nodes /\ q.target \in Targets
  PROVE  Agree(store'[u], disk', loops', mounts', u, q)
<1> DEFINE r == Effective(q, store[u])
<1>1. r = Effective(q, store'[u])
  BY DEF Untouched
<1> HIDE DEF r
<1>2. MountsMatch(mounts', u, r) /\ TargetMade(mounts', u, q)
  BY <1>1 DEF Agree, HostMatch, TaskMatch, MountsMatch, TargetMade, Untouched, r
<1>3. DevicesMatch(loops', u, r, Held(q))
  BY ZenonT(60), <1>1 DEF Agree, HostMatch, DevicesMatch, Untouched, r
<1>4. FilesMatch(disk', u, r, q)
  BY <1>1 DEF Agree, HostMatch, FilesMatch, Untouched, r
<1> QED BY <1>1, <1>2, <1>3, <1>4 DEF Agree, HostMatch, TaskMatch, r

LEMMA AgreementStep ==
  ASSUME IInv, LInv, AInv, NEW c \in Calls, NEW v \in Volumes, call[c].vol = v,
         call'[c].vol = v, \A d \in Calls \ {c} : call'[d] = call[d],
         \A u \in Volumes \ {v} : Untouched(u),
         Agree(store'[v], disk', loops', mounts', v, call'[c])
  PROVE  AInv'
<1>0. \A d \in Calls : call'[d].vol = None => call'[d] = NoCall
  BY NoneAssumption DEF AInv
<1> SUFFICES ASSUME NEW u \in Volumes
             PROVE  /\ Idle(u)' => Agree(store'[u], disk', loops', mounts', u, NoCall)
                    /\ \A d \in Calls : call'[d].vol = u =>
                         Agree(store'[u], disk', loops', mounts', u, call'[d])
  BY <1>0 DEF AInv
<1>1. CASE u = v
  <2>1. ~Idle(u)'
    BY <1>1 DEF Idle
  <2>2. ASSUME NEW d \in Calls, call'[d].vol = u PROVE d = c
    BY <1>1, <2>2, NoneAssumption DEF LInv, OneCallPerVolume
  <2> QED BY <1>1, <2>1, <2>2
<1>2. CASE u # v
  <2>1. Idle(u)' => Idle(u)
    BY <1>2 DEF Idle
  <2>2. NoCall.op # "NodePublish"
    BY CallAssumption DEF NoCall, Operation
  <2>3. Idle(u)' => Agree(store'[u], disk', loops', mounts', u, NoCall)
    BY <1>2, <2>1, <2>2, UntouchedAgree DEF AInv
  <2>4. ASSUME NEW d \in Calls, call'[d].vol = u
        PROVE  Agree(store'[u], disk', loops', mounts', u, call'[d])
    <3>1. d # c /\ call'[d] = call[d]
      BY <1>2, <2>4
    <3>2. TaskSound(call[d]) /\ call[d].vol = u
      BY <2>4, <3>1, TaskBefore
    <3>3. call[d].op = "NodePublish" => call[d].node \in Nodes /\ call[d].target \in Targets
      BY <3>2 DEF TaskSound
    <3> QED BY <1>2, <3>1, <3>2, <3>3, UntouchedAgree DEF AInv
  <2> QED BY <2>3, <2>4
<1> QED BY <1>1, <1>2

-------------------------------------------------------------------------------
(* What is known before a step of a task.                                  *)

LEMMA Before ==
  ASSUME IInv, LInv, AInv, NEW c \in Calls, call[c].pc \in Await
  PROVE  /\ call[c] \in Call /\ TaskSound(call[c]) /\ call[c].vol \in Volumes
         /\ Sync(call[c], store[call[c].vol])
         /\ Agree(store[call[c].vol], disk, loops, mounts, call[c].vol, call[c])
         /\ store[call[c].vol] # None =>
              store[call[c].vol] \in Volume /\ WellFormed(store[call[c].vol])
         /\ Loaded(c) = store[call[c].vol]
<1>1. call[c] \in Call /\ TaskSound(call[c]) /\ call[c].vol \in Volumes
  BY TaskBefore DEF TaskSound
<1>2. Sync(call[c], store[call[c].vol])
  BY DEF LInv, InSync
<1>3. Agree(store[call[c].vol], disk, loops, mounts, call[c].vol, call[c])
  BY <1>1 DEF AInv
<1> QED BY <1>1, <1>2, <1>3, LoadedSound DEF Loaded

(* No target shows another volume.                                         *)
LEMMA ShowsItsOwn ==
  ASSUME AInv, NEW n \in Nodes, NEW u \in Volumes, NEW t \in Targets
  PROVE  mounts[n][u][t].shows \in {u, None}
<1>1. ASSUME NEW q, Agree(store[u], disk, loops, mounts, u, q)
      PROVE  mounts[n][u][t].shows \in {u, None}
  BY <1>1 DEF Agree, HostMatch, MountsMatch
<1> QED BY <1>1 DEF AInv, Idle

-------------------------------------------------------------------------------
(* What the commands change on the host, and what they leave alone.        *)

OtherFilesKept(n, v) ==
  \A m \in Nodes, u \in Volumes : m # n \/ u # v => disk'[m][u] = disk[m][u]

OtherDevicesKept(n, d) ==
  \A m \in Nodes, e \in Devices : m # n \/ e # d => loops'[m][e] = loops[m][e]

OtherTargetsKept(n, v, t) ==
  \A m \in Nodes, u \in Volumes, x \in Targets :
    m # n \/ u # v \/ x # t => mounts'[m][u][x] = mounts[m][u][x]

LEMMA CreateFileSets ==
  ASSUME IInv, NEW n \in Nodes, NEW v \in Volumes, CreateFile(n, v)
  PROVE  disk'[n][v].exists /\ OtherFilesKept(n, v)
BY DEF CreateFile, OtherFilesKept, IInv, TypeOK, HostTypeOK

LEMMA MakeDirectorySets ==
  ASSUME IInv, NEW n \in Nodes, NEW v \in Volumes, MakeDirectory(n, v)
  PROVE  disk'[n][v].exists /\ OtherFilesKept(n, v)
BY DEF MakeDirectory, OtherFilesKept, IInv, TypeOK, HostTypeOK, BackingFile

LEMMA MkfsSets ==
  ASSUME IInv, NEW n \in Nodes, NEW v \in Volumes, Mkfs(n, v)
  PROVE  /\ disk'[n][v].exists /\ disk'[n][v].size = disk[n][v].size
         /\ disk'[n][v].fs = disk[n][v].size
         /\ OtherFilesKept(n, v)
BY DEF Mkfs, CanMkfs, OtherFilesKept, IInv, TypeOK, HostTypeOK, BackingFile

LEMMA TruncateSets ==
  ASSUME IInv, NEW n \in Nodes, NEW v \in Volumes, NEW size, Truncate(n, v, size)
  PROVE  /\ disk'[n][v].exists /\ disk'[n][v].size = size
         /\ disk'[n][v].fs = disk[n][v].fs
         /\ OtherFilesKept(n, v)
BY DEF Truncate, OtherFilesKept, IInv, TypeOK, HostTypeOK, BackingFile

LEMMA GrowSets ==
  ASSUME IInv, NEW n \in Nodes, NEW v \in Volumes, NEW d, loops[n][d].file = v, Grow(n, d)
  PROVE  /\ disk'[n][v].exists = disk[n][v].exists
         /\ disk'[n][v].size = disk[n][v].size /\ disk'[n][v].fs = disk[n][v].size
         /\ OtherFilesKept(n, v)
BY DEF Grow, OtherFilesKept, IInv, TypeOK, HostTypeOK, BackingFile

LEMMA LosetupSets ==
  ASSUME IInv, NEW n \in Nodes, NEW v \in Volumes, NEW d \in Devices, Losetup(n, v, d)
  PROVE  loops'[n][d] = [file |-> v, autoclear |-> FALSE] /\ OtherDevicesKept(n, d)
BY DEF Losetup, OtherDevicesKept, IInv, TypeOK, HostTypeOK

LEMMA LosetupDetachSets ==
  ASSUME IInv, NEW n \in Nodes, NEW d \in Devices, Showing(n, loops[n][d].file) = {},
         LosetupDetach(n, d)
  PROVE  loops'[n][d] = FreeDevice /\ OtherDevicesKept(n, d)
BY DEF LosetupDetach, OtherDevicesKept, IInv, TypeOK, HostTypeOK

LEMMA MakeTargetSets ==
  ASSUME IInv, NEW n \in Nodes, NEW v \in Volumes, NEW t \in Targets, MakeTarget(n, v, t)
  PROVE  /\ mounts'[n][v][t].dir /\ mounts'[n][v][t].shows = mounts[n][v][t].shows
         /\ mounts'[n][v][t].ro = mounts[n][v][t].ro
         /\ OtherTargetsKept(n, v, t)
BY DEF MakeTarget, OtherTargetsKept, IInv, TypeOK, HostTypeOK, TargetPath

LEMMA MountSets ==
  ASSUME IInv, NEW n \in Nodes, NEW v \in Volumes, NEW t \in Targets, NEW d, NEW ro,
         Mount(n, v, t, d, ro)
  PROVE  /\ mounts'[n][v][t] = [dir |-> TRUE, shows |-> loops[n][d].file, ro |-> ro]
         /\ OtherTargetsKept(n, v, t)
BY DEF Mount, OtherTargetsKept, IInv, TypeOK, HostTypeOK

LEMMA UmountSets ==
  ASSUME IInv, NEW n \in Nodes, NEW v \in Volumes, NEW t \in Targets, Umount(n, v, t),
         \A d \in Devices : loops[n][d].file = mounts[n][v][t].shows => ~loops[n][d].autoclear
  PROVE  /\ mounts'[n][v][t].shows = None
         /\ OtherTargetsKept(n, v, t)
         /\ \A m \in Nodes, d \in Devices : loops'[m][d] = loops[m][d]
BY DEF Umount, OtherTargetsKept, IInv, TypeOK, HostTypeOK

LEMMA RemoveTargetSets ==
  ASSUME IInv, NEW n \in Nodes, NEW v \in Volumes, NEW t \in Targets, RemoveTarget(n, v, t)
  PROVE  /\ mounts[n][v][t].shows = None /\ mounts'[n][v][t].shows = None
         /\ OtherTargetsKept(n, v, t)
BY DEF RemoveTarget, CanRemoveTarget, NoTarget, OtherTargetsKept, IInv, TypeOK, HostTypeOK

-------------------------------------------------------------------------------
(* How a task changes in a step.                                           *)

SameRequest(q, p) ==
  /\ p.op = q.op /\ p.vol = q.vol /\ p.node = q.node /\ p.target = q.target
  /\ p.size = q.size /\ p.readonly = q.readonly

LEMMA HoldFields ==
  ASSUME IInv, NEW c \in Calls, NEW pc, NEW rec, Hold(c, pc, rec)
  PROVE  /\ SameRequest(call[c], call'[c])
         /\ call'[c].pc = pc /\ call'[c].rec = rec
         /\ call'[c].dev = call[c].dev /\ call'[c].code = call[c].code
         /\ \A d \in Calls \ {c} : call'[d] = call[d]
BY TaskBefore DEF Hold, SameRequest, IInv, TypeOK, Call

LEMMA HoldDeviceFields ==
  ASSUME IInv, NEW c \in Calls, NEW pc, NEW rec, NEW e, HoldDevice(c, pc, rec, e)
  PROVE  /\ SameRequest(call[c], call'[c])
         /\ call'[c].pc = pc /\ call'[c].rec = rec
         /\ call'[c].dev = e /\ call'[c].code = call[c].code
         /\ \A d \in Calls \ {c} : call'[d] = call[d]
BY TaskBefore DEF HoldDevice, SameRequest, IInv, TypeOK, Call

LEMMA GotoFields ==
  ASSUME IInv, NEW c \in Calls, NEW pc, Goto(c, pc)
  PROVE  /\ SameRequest(call[c], call'[c])
         /\ call'[c].pc = pc /\ call'[c].rec = call[c].rec
         /\ call'[c].dev = call[c].dev /\ call'[c].code = call[c].code
         /\ \A d \in Calls \ {c} : call'[d] = call[d]
BY HoldFields DEF Goto

LEMMA ReplyFields ==
  ASSUME IInv, NEW c \in Calls, NEW code, Reply(c, code)
  PROVE  /\ SameRequest(call[c], call'[c])
         /\ call'[c].pc = "reply" /\ call'[c].code = code
         /\ \A d \in Calls \ {c} : call'[d] = call[d]
BY TaskBefore DEF Reply, SameRequest, IInv, TypeOK, Call

-------------------------------------------------------------------------------
(* Steps that change nothing but the task.                                 *)

(* The awaits at which the host is not simply as the store has it.         *)
Busy == {"assign", "allocate", "mkfs", "mount", "unloop", "patch", "grow", "delete"}

LEMMA QuietEffective ==
  ASSUME NEW q, NEW s, q.pc \notin Busy
  PROVE  Effective(q, s) = s /\ Held(q) = {}
BY DEF Busy, Effective, Held

LEMMA QuietHost ==
  ASSUME NEW s, NEW f, NEW l, NEW m, NEW v, NEW q, NEW p,
         q.pc \notin Busy, p.pc \notin Busy, Agree(s, f, l, m, v, q)
  PROVE  HostMatch(f, l, m, v, s, p) /\ Mountable(s)
BY QuietEffective DEF Agree, HostMatch, FilesMatch, Busy

LEMMA QuietAgree ==
  ASSUME NEW s, NEW f, NEW l, NEW m, NEW v, NEW q, NEW p,
         q.pc \notin Busy, p.pc \notin Busy, Agree(s, f, l, m, v, q), TaskMatch(m, v, s, p)
  PROVE  Agree(s, f, l, m, v, p)
BY QuietHost, QuietEffective DEF Agree

LEMMA UnchangedUntouched ==
  ASSUME UNCHANGED <<store, hostVars>>, NEW u PROVE Untouched(u)
BY DEF hostVars, Untouched

LEMMA QuietStep ==
  ASSUME IInv, LInv, AInv, NEW c \in Calls, call[c].vol \in Volumes,
         UNCHANGED <<store, hostVars>>,
         SameRequest(call[c], call'[c]), \A d \in Calls \ {c} : call'[d] = call[d],
         call[c].pc \notin Busy, call'[c].pc \notin Busy,
         TaskMatch(mounts, call[c].vol, store[call[c].vol], call'[c])
  PROVE  AInv'
<1> DEFINE v == call[c].vol
<1>1. call'[c].vol = v
  BY DEF SameRequest
<1>2. Agree(store[v], disk, loops, mounts, v, call[c])
  BY DEF AInv
<1>3. Agree(store[v], disk, loops, mounts, v, call'[c])
  BY <1>2, QuietAgree
<1>4. Agree(store'[v], disk', loops', mounts', v, call'[c])
  BY <1>3 DEF hostVars
<1>5. \A u \in Volumes \ {v} : Untouched(u)
  BY UnchangedUntouched
<1> QED BY <1>1, <1>4, <1>5, AgreementStep

(* A quiet answer.                                                         *)
LEMMA AnswerStep ==
  ASSUME IInv, LInv, AInv, NEW c \in Calls, call[c].pc \in Await \ Busy, NEW code,
         Reply(c, code), UNCHANGED <<store, hostVars>>,
         code = "OK" => Told([call[c] EXCEPT !.pc = "reply", !.code = "OK"],
                                 store[call[c].vol])
  PROVE  AInv'
<1> DEFINE q == call[c]
           s == store[q.vol]
<1>1. /\ SameRequest(q, call'[c]) /\ call'[c].pc = "reply" /\ call'[c].code = code
      /\ \A d \in Calls \ {c} : call'[d] = call[d]
  BY ReplyFields
<1>2. q \in Call /\ q.vol \in Volumes /\ Agree(s, disk, loops, mounts, q.vol, q)
  BY Before
<1>3. Placed(call'[c], s)
  BY <1>1, <1>2 DEF Placed, SameRequest, Agree, TaskMatch
<1>4. Told(call'[c], s)
  BY <1>1, <1>2 DEF Told, SameRequest, Call
<1>5. TargetMade(mounts, q.vol, call'[c])
  BY <1>1 DEF TargetMade, Publishing
<1> QED BY <1>1, <1>2, <1>3, <1>4, <1>5, QuietStep DEF TaskMatch, Busy

(* After a load: an early return, or a task that goes on.                  *)
LEMMA DecideAgrees ==
  ASSUME IInv, LInv, AInv, NEW c \in Calls, call[c].pc = "load",
         NEW verdict, NEW pc \in Await \ Busy, NEW rec,
         Decide(c, verdict, pc, rec),
         verdict = "OK" => Told([call[c] EXCEPT !.pc = "reply", !.code = "OK"],
                                    store[call[c].vol]),
         verdict = "Proceed" =>
           /\ Placed([call[c] EXCEPT !.pc = pc, !.rec = rec], store[call[c].vol])
           /\ call[c].op = "NodePublish" => pc = "mkdir"
  PROVE  AInv'
<1> DEFINE q == call[c]
           s == store[q.vol]
<1>1. q.pc \in Await \ Busy
  BY DEF Await, Busy
<1>2. q \in Call /\ q.vol \in Volumes /\ Agree(s, disk, loops, mounts, q.vol, q)
  BY <1>1, Before
<1>3. CASE verdict = "Proceed"
  <2>1. Hold(c, pc, rec) /\ UNCHANGED <<store, hostVars>>
    BY <1>3 DEF Decide
  <2>2. /\ SameRequest(q, call'[c]) /\ call'[c].pc = pc /\ call'[c].code = q.code
        /\ call'[c] = [q EXCEPT !.pc = pc, !.rec = rec]
        /\ \A d \in Calls \ {c} : call'[d] = call[d]
    BY <2>1, HoldFields DEF Hold, IInv, TypeOK
  <2>3. Placed(call'[c], s)
    BY <1>3, <2>2
  <2>4. q.code = None
    BY <1>2, NotAwaiting DEF Agree, TaskMatch, Told
  <2>5. Told(call'[c], s)
    BY <2>2, <2>4, CallAssumption DEF Told, Code
  <2>6. TargetMade(mounts, q.vol, call'[c])
    BY <1>3, <2>2 DEF TargetMade, SameRequest
  <2> QED BY <1>1, <1>2, <2>1, <2>2, <2>3, <2>5, <2>6, QuietStep DEF TaskMatch
<1>4. CASE verdict # "Proceed"
  BY <1>1, <1>4, AnswerStep DEF Decide
<1> QED BY <1>3, <1>4

(* The record that a task was about to write is written.                   *)
LEMMA NotRefused ==
  ASSUME LInv, NEW c \in Calls, call[c].pc \in Writing
  PROVE  Exists(call[c].vol)
BY DEF LInv, InSync, Sync, Exists

LEMMA WriteStep ==
  ASSUME IInv, LInv, AInv, NEW c \in Calls, call[c].pc \in {"assign", "patch"},
         Patch(call[c].vol, call[c].rec), UNCHANGED hostVars,
         SameRequest(call[c], call'[c]), \A d \in Calls \ {c} : call'[d] = call[d],
         call'[c].pc \notin Busy,
         Agree(store[call[c].vol], disk, loops, mounts, call[c].vol, call[c]) =>
           TaskMatch(mounts, call[c].vol, call[c].rec, call'[c])
  PROVE  AInv'
<1> DEFINE q == call[c]
           p == call'[c]
           v == q.vol
<1>1. q.vol \in Volumes /\ Agree(store[v], disk, loops, mounts, v, q)
  BY Before DEF Await
<1>2. store'[v] = q.rec /\ \A u \in Volumes \ {v} : store'[u] = store[u]
  BY <1>1 DEF Patch, IInv, TypeOK
<1>3. Effective(q, store[v]) = q.rec /\ Held(q) = {}
  BY DEF Effective, Held
<1>4. Effective(p, store'[v]) = q.rec /\ Held(p) = {}
  BY <1>2, QuietEffective
<1>5. HostMatch(disk, loops, mounts, v, q.rec, p) /\ Mountable(q.rec)
  BY <1>1, <1>3, <1>4 DEF Agree, HostMatch, FilesMatch, Busy
<1>6. Agree(store'[v], disk', loops', mounts', v, p)
  BY <1>1, <1>4, <1>5 DEF Agree, hostVars
<1>7. \A u \in Volumes \ {v} : Untouched(u)
  BY <1>2 DEF Untouched, hostVars
<1>8. p.vol = v
  BY DEF SameRequest
<1> QED BY <1>1, <1>6, <1>7, <1>8, AgreementStep

(* The last update of a handler.                                           *)
LEMMA LastUpdateAgrees ==
  ASSUME IInv, LInv, AInv, NEW c \in Calls, call[c].pc = "patch",
         \/ /\ Update(c, Reply(c, "OK"))
            /\ call[c].op \notin {"NodeGetStats", "DeleteVolume"}
         \/ Update(c, Goto(c, "rmdir")) /\ call[c].op = "NodeUnpublish"
  PROVE  AInv'
<1> DEFINE q == call[c]
           r == q.rec
<1>1. Patch(q.vol, r) /\ UNCHANGED hostVars
  BY NotRefused DEF Update, Writing
<1>2. ASSUME Agree(store[q.vol], disk, loops, mounts, q.vol, q)
      PROVE  Placed(q, r) /\ Told(q, r)
  BY <1>2 DEF Agree, TaskMatch, Effective
<1>3. CASE Reply(c, "OK") /\ q.op \notin {"NodeGetStats", "DeleteVolume"}
  <2>1. /\ SameRequest(q, call'[c]) /\ call'[c].pc = "reply" /\ call'[c].code = "OK"
        /\ \A d \in Calls \ {c} : call'[d] = call[d]
    BY <1>3, ReplyFields
  <2>2. Placed(q, r) => Placed(call'[c], r)
    BY <2>1 DEF Placed, SameRequest
  <2>3. Placed(q, r) => Told(call'[c], r)
    BY <1>3, <2>1 DEF Placed, Told, SameRequest
  <2>4. TargetMade(mounts, q.vol, call'[c])
    BY <2>1 DEF TargetMade, Publishing
  <2> QED BY <1>1, <1>2, <2>1, <2>2, <2>3, <2>4, WriteStep DEF TaskMatch, Busy
<1>4. CASE Goto(c, "rmdir") /\ q.op = "NodeUnpublish"
  <2>1. /\ SameRequest(q, call'[c]) /\ call'[c].pc = "rmdir" /\ call'[c].code = q.code
        /\ \A d \in Calls \ {c} : call'[d] = call[d]
    BY <1>4, GotoFields
  <2>2. Placed(q, r) => Placed(call'[c], r)
    BY <1>4, <2>1 DEF Placed, SameRequest
  <2>3. Told(q, r) => Told(call'[c], r)
    BY <2>1, CallAssumption DEF Told, Code
  <2>4. TargetMade(mounts, q.vol, call'[c])
    BY <2>1 DEF TargetMade, Publishing
  <2> QED BY <1>1, <1>2, <2>1, <2>2, <2>3, <2>4, WriteStep DEF TaskMatch, Busy
<1>5. \/ Reply(c, "OK") /\ q.op \notin {"NodeGetStats", "DeleteVolume"}
      \/ Goto(c, "rmdir") /\ q.op = "NodeUnpublish"
  BY NotRefused DEF Update, Writing
<1> QED BY <1>3, <1>4, <1>5

-------------------------------------------------------------------------------
(* The controller.                                                         *)

(* A record that is not published on a node: nothing of it is in use.      *)
LEMMA NotInUse ==
  ASSUME NEW r \in Volume, WellFormed(r), r.mount_paths = {} \/ r.state # "NodePublished"
  PROVE  r.mount_paths = {} /\ r.loop_device = None
BY DEF WellFormed

LEMMA NothingShown ==
  ASSUME NEW r, r # None => r.mount_paths = {}, NEW m, NEW v, MountsMatch(m, v, r)
  PROVE  \A n \in Nodes, t \in Targets : m[n][v][t].shows = None
BY DEF MountsMatch, On

LEMMA NothingAttached ==
  ASSUME NEW r, r # None => r.loop_device = None, NEW l, NEW v, DevicesMatch(l, v, r, {})
  PROVE  \A n \in Nodes, d \in Devices : l[n][d].file # v
BY NoneAssumption DEF DevicesMatch, On

(* Records that ask the same of the host, of a volume that is not mounted. *)
LEMMA AlikeAgree ==
  ASSUME NEW s \in Volume, NEW r, r # None, WellFormed(s), s.mount_paths = {},
         SameIdentity(s, r), SameMounts(s, r),
         NEW f, NEW l, NEW m, NEW v \in Volumes, NEW q, NEW p,
         q.pc \notin Busy, p.pc \notin Busy \ {"patch"},
         HostMatch(f, l, m, v, s, q), Mountable(s)
  PROVE  HostMatch(f, l, m, v, r, p) /\ Mountable(r)
<1>1. s # None
  BY NoRecordAssumption
<1>2. MountsMatch(m, v, r)
  BY <1>1, NothingShown, NoneAssumption DEF HostMatch, MountsMatch, SameMounts
<1>3. DevicesMatch(l, v, r, Held(p))
  BY <1>1, NothingAttached, NotInUse, NoneAssumption
     DEF HostMatch, DevicesMatch, SameMounts, Held, Busy
<1>4. FilesMatch(f, v, r, p)
  BY <1>1 DEF HostMatch, FilesMatch, SameIdentity, AsCreated, On, Busy
<1>5. Mountable(r)
  BY <1>1 DEF Mountable, SameIdentity, AsCreated, SameMounts
<1> QED BY <1>2, <1>3, <1>4, <1>5 DEF HostMatch

LEMMA CreateVolumeAgrees ==
  ASSUME IInv, LInv, AInv, NEW c \in Calls,
         CreateVolumeGet(c) \/ CreateVolumePost(c) \/ CreateVolumeLoad(c)
  PROVE  AInv'
<1> DEFINE q == call[c]
           s == store[q.vol]
           p == call'[c]
<1>1. q.op = "CreateVolume" /\ q.pc \in Await \ Busy
  BY DEF CreateVolumeGet, CreateVolumePost, CreateVolumeLoad, At, Await, Busy
<1>2. /\ q \in Call /\ TaskSound(q) /\ q.vol \in Volumes
      /\ Agree(s, disk, loops, mounts, q.vol, q)
  BY <1>1, Before
<1>3. Placed(q, s) /\ Told(q, s) /\ q.code = None /\ q.size > 0
  BY <1>1, <1>2, QuietEffective, NotAwaiting DEF Agree, TaskMatch, Told, Placed
<1>4. CASE CreateVolumeGet(c)
  <2>1. PICK pc \in {"load", "post"} : Goto(c, pc)
    BY <1>4 DEF CreateVolumeGet
  <2>2. /\ SameRequest(q, p) /\ p.pc = pc /\ p.code = None
        /\ \A d \in Calls \ {c} : call'[d] = call[d]
    BY <1>3, <2>1, GotoFields
  <2>3. Placed(p, s) /\ Told(p, s) /\ TargetMade(mounts, q.vol, p)
    BY <1>1, <1>3, <2>1, <2>2, CallAssumption
       DEF Placed, Told, TargetMade, SameRequest, Code
  <2> QED BY <1>1, <1>2, <1>4, <2>1, <2>2, <2>3, QuietStep
          DEF CreateVolumeGet, TaskMatch, Busy
<1>5. CASE CreateVolumeLoad(c)
  <2>1. PICK code : Reply(c, code) /\ UNCHANGED <<store, hostVars>>
    BY <1>5 DEF CreateVolumeLoad
  <2>2. Told([q EXCEPT !.pc = "reply", !.code = "OK"], s)
    BY <1>1, <1>2 DEF Told, Call
  <2> QED BY <1>1, <2>1, <2>2, AnswerStep
<1>6. CASE CreateVolumePost(c)
  <2>1. CASE Reply(c, "Internal") /\ UNCHANGED store
    BY <1>1, <1>6, <2>1, AnswerStep DEF CreateVolumePost
  <2>2. CASE Post(q.vol, Requested(c)) /\ Reply(c, "OK")
    <3> DEFINE r == Requested(c)
    <3>1. /\ SameRequest(q, p) /\ p.pc = "reply" /\ p.code = "OK"
          /\ \A d \in Calls \ {c} : call'[d] = call[d]
      BY <2>2, ReplyFields
    <3>2. s = None /\ store'[q.vol] = r /\ \A u \in Volumes \ {q.vol} : store'[u] = store[u]
      BY <1>2, <2>2 DEF Post, Exists, IInv, TypeOK
    <3>3. HostMatch(disk, loops, mounts, q.vol, None, q)
      BY <1>1, <1>2, <3>2, QuietEffective DEF Agree
    <3>4. r.assigned_node_id = None /\ r.mount_paths = {} /\ r.size = q.size
      BY DEF Requested, NewVolume
    <3> HIDE DEF r
    <3>5. HostMatch(disk, loops, mounts, q.vol, r, p) /\ Mountable(r)
      <4>1. \A n \in Nodes : ~On(r, n) /\ ~On(None, n)
        BY <3>4, NoneAssumption DEF On
      <4>2. Held(p) = {} /\ Held(q) = {}
        BY <1>1, <3>1 DEF Held, Busy
      <4>3. MountsMatch(mounts, q.vol, r)
        BY <1>2, <3>3, <4>1, NoneAssumption DEF HostMatch, MountsMatch
      <4>4. DevicesMatch(loops, q.vol, r, Held(p))
        BY <3>3, <4>1, <4>2 DEF HostMatch, DevicesMatch
      <4>5. FilesMatch(disk, q.vol, r, p)
        BY <1>1, <3>1, <3>3, <4>1 DEF HostMatch, FilesMatch, Busy
      <4> QED BY <1>3, <3>4, <4>3, <4>4, <4>5 DEF HostMatch, Mountable
    <3>6. TaskMatch(mounts, q.vol, r, p)
      BY <1>1, <1>3, <3>1
         DEF TaskMatch, Placed, Told, TargetMade, SameRequest, Publishing
    <3>7. Effective(p, r) = r
      BY <3>1 DEF Effective
    <3>8. UNCHANGED hostVars
      BY <1>6 DEF CreateVolumePost
    <3>9. \A u \in Volumes \ {q.vol} : Untouched(u)
      BY <3>2, <3>8 DEF Untouched, hostVars
    <3> QED BY <1>2, <3>1, <3>2, <3>5, <3>6, <3>7, <3>8, <3>9, AgreementStep
            DEF Agree, SameRequest, hostVars
  <2> QED BY <1>6, <2>1, <2>2 DEF CreateVolumePost
<1> QED BY <1>4, <1>5, <1>6

LEMMA DeleteVolumeAgrees ==
  ASSUME IInv, LInv, AInv, NEW c \in Calls,
         DeleteVolumeLoad(c) \/ DeleteVolumeUnlink(c) \/ DeleteVolumeDelete(c)
  PROVE  AInv'
<1> DEFINE q == call[c]
           v == q.vol
           s == store[v]
           p == call'[c]
<1>1. q.op = "DeleteVolume" /\ q.pc \in {"load", "unlink", "delete"} /\ q.pc \in Await
  BY DEF DeleteVolumeLoad, DeleteVolumeUnlink, DeleteVolumeDelete, At, Await
<1>2. /\ q \in Call /\ TaskSound(q) /\ v \in Volumes /\ Sync(q, s) /\ Loaded(c) = s
      /\ Agree(s, disk, loops, mounts, v, q)
      /\ s # None => s \in Volume /\ WellFormed(s)
  BY <1>1, Before
<1>3. Effective(q, s) = s /\ Held(q) = {} /\ q.node \in Nodes
  BY <1>1, <1>2 DEF Effective, Held, TaskSound
<1>4. HostMatch(disk, loops, mounts, v, s, q) /\ Placed(q, s) /\ Told(q, s)
  BY <1>2, <1>3 DEF Agree, TaskMatch
<1>5. CASE DeleteVolumeLoad(c)
  <2>1. ASSUME DeleteVerdict(s) = "OK"
        PROVE  Told([q EXCEPT !.pc = "reply", !.code = "OK"], s)
    <3>1. s = None
      BY <2>1 DEF DeleteVerdict
    <3> QED BY <1>1, <1>2, <3>1 DEF Told, Call
  <2>2. Placed([q EXCEPT !.pc = "unlink", !.rec = s], s)
    BY <1>1, <1>2 DEF Placed, Call
  <2>3. "unlink" \in Await \ Busy
    BY DEF Await, Busy
  <2> QED BY <1>1, <1>2, <1>5, <2>1, <2>2, <2>3, DecideAgrees DEF DeleteVolumeLoad, At
<1>6. CASE DeleteVolumeUnlink(c)
  <2>1. q.pc = "unlink" /\ s.state = "Open" /\ s # None
    BY <1>2, <1>6 DEF DeleteVolumeUnlink, At, Sync
  <2>2. s.mount_paths = {} /\ s.loop_device = None
    BY <1>2, <2>1, NotInUse
  <2>3. CASE Unlink(q.node, v) /\ Goto(c, "delete")
    <3>1. /\ SameRequest(q, p) /\ p.pc = "delete" /\ p.code = q.code
          /\ \A d \in Calls \ {c} : call'[d] = call[d]
      BY <2>3, GotoFields
    <3>2. \A n \in Nodes, d \in Devices : loops[n][d].file # v
      BY <1>3, <1>4, <2>2, NothingAttached DEF HostMatch
    <3>3. \A n \in Nodes, u \in Volumes, t \in Targets : mounts[n][u][t].shows # v
      <4>1. \A n \in Nodes, t \in Targets : mounts[n][v][t].shows = None
        BY <1>4, <2>2, NothingShown DEF HostMatch
      <4> QED BY <1>2, <4>1, ShowsItsOwn, NoneAssumption
    <3>4. \A n \in Nodes, d \in Devices : loops'[n][d] = loops[n][d]
      BY <1>3, <2>3, <3>2 DEF Unlink, IInv, TypeOK, HostTypeOK
    <3>5. \A n \in Nodes, u \in Volumes, t \in Targets : mounts'[n][u][t] = mounts[n][u][t]
      BY <1>3, <2>3, <3>3 DEF Unlink, IInv, TypeOK, HostTypeOK
    <3>6. /\ ~disk'[q.node][v].exists
          /\ \A n \in Nodes, u \in Volumes :
               n # q.node \/ u # v => disk'[n][u] = disk[n][u]
      BY <1>2, <1>3, <2>3 DEF Unlink, NoFile, IInv, TypeOK, HostTypeOK
    <3>7. On(s, q.node)
      BY <1>3, <1>4, <2>1, <2>3 DEF HostMatch, FilesMatch, Unlink
    <3>8. UNCHANGED store
      BY <1>6 DEF DeleteVolumeUnlink
    <3>9. FilesMatch(disk', v, s, p)
      BY <1>2, <1>3, <1>4, <2>1, <3>1, <3>6, <3>7 DEF HostMatch, FilesMatch, On
    <3>10. MountsMatch(mounts', v, s)
      BY SMTT(60), <1>2, <1>4, <3>5 DEF HostMatch, MountsMatch
    <3>11. DevicesMatch(loops', v, s, Held(p))
      <4>1. Held(p) = {}
        BY <3>1 DEF Held
      <4> QED BY <1>3, <1>4, <3>4, <4>1 DEF HostMatch, DevicesMatch
    <3>12. TaskMatch(mounts', v, s, p)
      <4>1. q.code = None
        BY <1>4, <2>1 DEF Told
      <4> QED BY <1>1, <3>1, <3>7, <4>1, CallAssumption
              DEF TaskMatch, Placed, Told, TargetMade, SameRequest, Code
    <3>13. Effective(p, s) = s /\ p.vol = v
      BY <3>1 DEF Effective, SameRequest
    <3>14. Agree(store'[v], disk', loops', mounts', v, p)
      BY <1>2, <1>3, <3>8, <3>9, <3>10, <3>11, <3>12, <3>13 DEF Agree, HostMatch
    <3>15. \A u \in Volumes \ {v} : Untouched(u)
      BY <3>4, <3>5, <3>6, <3>8 DEF Untouched
    <3> QED BY <1>2, <3>1, <3>13, <3>14, <3>15, AgreementStep
  <2>4. CASE Reply(c, "Internal") /\ UNCHANGED hostVars
    BY <1>1, <1>6, <2>1, <2>4, AnswerStep DEF DeleteVolumeUnlink, Busy
  <2> QED BY <1>6, <2>3, <2>4 DEF DeleteVolumeUnlink
<1>7. CASE DeleteVolumeDelete(c)
  <2>1. q.pc = "delete" /\ s.state = "Open" /\ s # None
    BY <1>2, <1>7 DEF DeleteVolumeDelete, At, Sync
  <2>2. s.mount_paths = {} /\ s.loop_device = None
    BY <1>2, <2>1, NotInUse
  <2>3. Remove(v) /\ Reply(c, "OK") /\ UNCHANGED hostVars
    BY <1>7, <2>1 DEF DeleteVolumeDelete, Exists
  <2>4. /\ SameRequest(q, p) /\ p.pc = "reply" /\ p.code = "OK"
        /\ \A d \in Calls \ {c} : call'[d] = call[d]
    BY <2>3, ReplyFields
  <2>5. store'[v] = None /\ \A u \in Volumes \ {v} : store'[u] = store[u]
    BY <1>2, <2>3 DEF Remove, IInv, TypeOK
  <2>6. MountsMatch(mounts, v, None)
    BY <1>4, <2>2, NothingShown DEF HostMatch, MountsMatch, On
  <2>7. DevicesMatch(loops, v, None, Held(p))
    <3>1. Held(p) = {}
      BY <2>4 DEF Held
    <3>2. \A n \in Nodes, d \in Devices : loops[n][d].file # v
      BY <1>3, <1>4, <2>2, NothingAttached DEF HostMatch
    <3> QED BY <3>1, <3>2 DEF DevicesMatch, On
  <2>8. FilesMatch(disk, v, None, p)
    BY <1>4, <2>1, <2>4 DEF HostMatch, FilesMatch, On
  <2>9. Mountable(None) /\ TaskMatch(mounts, v, None, p)
    BY <1>1, <2>4
       DEF Mountable, TaskMatch, Placed, Told, TargetMade, SameRequest, Publishing
  <2>10. Effective(p, None) = None /\ p.vol = v
    BY <2>4 DEF Effective, SameRequest
  <2>11. Agree(store'[v], disk', loops', mounts', v, p)
    BY <2>3, <2>5, <2>6, <2>7, <2>8, <2>9, <2>10 DEF Agree, HostMatch, hostVars
  <2>12. \A u \in Volumes \ {v} : Untouched(u)
    BY <2>3, <2>5 DEF Untouched, hostVars
  <2> QED BY <1>2, <2>4, <2>10, <2>11, <2>12, AgreementStep
<1> QED BY <1>5, <1>6, <1>7

(* A copy that asks the same of the host is about to be written.           *)
LEMMA PublicationAgrees ==
  ASSUME IInv, LInv, AInv, NEW c \in Calls, call[c].pc = "load",
         call[c].op \in {"ControllerPublish", "ControllerUnpublish"},
         NEW verdict, NEW r, Decide(c, verdict, "patch", r),
         LET s == store[call[c].vol]
         IN  verdict = "Proceed" =>
               /\ s # None /\ s.mount_paths = {} /\ r # None
               /\ SameIdentity(s, r) /\ SameMounts(s, r)
  PROVE  AInv'
<1> DEFINE q == call[c]
           v == q.vol
           s == store[v]
           p == call'[c]
<1>1. q.pc \in Await \ Busy
  BY DEF Await, Busy
<1>2. /\ q \in Call /\ v \in Volumes
      /\ Agree(s, disk, loops, mounts, v, q)
      /\ s # None => s \in Volume /\ WellFormed(s)
  BY <1>1, Before
<1>3. CASE verdict = "Proceed"
  <2>1. Hold(c, "patch", r) /\ UNCHANGED <<store, hostVars>>
    BY <1>3 DEF Decide
  <2>2. /\ SameRequest(q, p) /\ p.pc = "patch" /\ p.rec = r /\ p.code = q.code
        /\ \A d \in Calls \ {c} : call'[d] = call[d]
    BY <2>1, HoldFields
  <2>3. /\ HostMatch(disk, loops, mounts, v, s, q) /\ Mountable(s) /\ Told(q, s)
    BY <1>1, <1>2, QuietEffective DEF Agree, TaskMatch
  <2>4. HostMatch(disk, loops, mounts, v, r, p) /\ Mountable(r)
    BY <1>1, <1>2, <1>3, <2>2, <2>3, AlikeAgree DEF Busy
  <2>5. TaskMatch(mounts, v, r, p)
    <3>1. q.code = None
      BY <2>3 DEF Told
    <3> QED BY <2>2, <3>1, CallAssumption
            DEF TaskMatch, Placed, Told, TargetMade, SameRequest, Code
  <2>6. Effective(p, s) = r /\ p.vol = v
    BY <2>2 DEF Effective, SameRequest
  <2>7. Agree(store'[v], disk', loops', mounts', v, p)
    BY <2>1, <2>4, <2>5, <2>6 DEF Agree, hostVars
  <2> QED BY <1>2, <2>1, <2>2, <2>6, <2>7, UnchangedUntouched, AgreementStep
<1>4. CASE verdict # "Proceed"
  <2>1. Told([q EXCEPT !.pc = "reply", !.code = "OK"], s)
    BY <1>2 DEF Told, Call
  <2> QED BY <1>1, <1>4, <2>1, AnswerStep DEF Decide
<1> QED BY <1>3, <1>4

LEMMA ControllerPublishAgrees ==
  ASSUME IInv, LInv, AInv, NEW c \in Calls,
         \/ ControllerPublishLoad(c) \/ ControllerPublishPatch(c)
         \/ ControllerUnpublishLoad(c) \/ ControllerUnpublishPatch(c)
  PROVE  AInv'
<1> DEFINE q == call[c]
           s == store[q.vol]
<1>1. q.pc \in Await
  BY DEF ControllerPublishLoad, ControllerPublishPatch, ControllerUnpublishLoad,
         ControllerUnpublishPatch, At, Await
<1>2. Loaded(c) = s /\ (s # None => s \in Volume /\ WellFormed(s))
  BY <1>1, Before
<1>3. CASE ControllerPublishLoad(c)
  <2> DEFINE r == ControllerPublished(s, q)
  <2>1. ASSUME ControllerPublishVerdict(q, s) = "Proceed"
        PROVE  /\ s # None /\ s.mount_paths = {} /\ r # None
               /\ SameIdentity(s, r) /\ SameMounts(s, r)
    <3>1. s # None /\ s.state # "NodePublished"
      BY <2>1 DEF ControllerPublishVerdict
    <3>2. r # None
      <4>1. q.config \in VolumeMode /\ q.readonly \in BOOLEAN
        <5>1. q \in Call
          BY <1>1, Before
        <5>2. q.config \in s.valid_configs /\ s \in Volume
          BY <1>2, <2>1, <3>1 DEF ControllerPublishVerdict, Compatible, Volume, VolumeState
        <5> QED BY <5>1, <5>2 DEF Call, Volume
      <4>2. r \in Volume
        BY <1>2, <3>1, <4>1 DEF ControllerPublished, Volume, VolumeState
      <4> QED BY <4>2, NoRecordAssumption
    <3> QED BY <1>2, <3>1, <3>2, NotInUse
            DEF ControllerPublished, Volume, SameIdentity, AsCreated, SameMounts
  <2> HIDE DEF r
  <2>2. q.op = "ControllerPublish" /\ q.pc = "load"
    BY <1>3 DEF ControllerPublishLoad, At
  <2>3. Decide(c, ControllerPublishVerdict(q, s), "patch", r)
    BY <1>2, <1>3 DEF ControllerPublishLoad, r
  <2> QED BY <2>1, <2>2, <2>3, PublicationAgrees
<1>4. CASE ControllerUnpublishLoad(c)
  <2> DEFINE r == ControllerUnpublished(s)
  <2>1. ASSUME ControllerUnpublishVerdict(s) = "Proceed"
        PROVE  /\ s # None /\ s.mount_paths = {} /\ r # None
               /\ SameIdentity(s, r) /\ SameMounts(s, r)
    <3>1. s # None /\ s.state # "NodePublished"
      BY <2>1 DEF ControllerUnpublishVerdict
    <3>2. r # None
      BY <1>2, <3>1, NoRecordAssumption DEF ControllerUnpublished, Volume, VolumeState
    <3> QED BY <1>2, <3>1, <3>2, NotInUse
            DEF ControllerUnpublished, Volume, SameIdentity, AsCreated, SameMounts
  <2> HIDE DEF r
  <2>2. q.op = "ControllerUnpublish" /\ q.pc = "load"
    BY <1>4 DEF ControllerUnpublishLoad, At
  <2>3. Decide(c, ControllerUnpublishVerdict(s), "patch", r)
    BY <1>2, <1>4 DEF ControllerUnpublishLoad, r
  <2> QED BY <2>1, <2>2, <2>3, PublicationAgrees
<1>5. CASE ControllerPublishPatch(c) \/ ControllerUnpublishPatch(c)
  BY <1>5, LastUpdateAgrees DEF ControllerPublishPatch, ControllerUnpublishPatch, At
<1> QED BY <1>3, <1>4, <1>5

-------------------------------------------------------------------------------
(* NodePublishVolume.                                                      *)

(* What is known while the node is being prepared.                         *)
LEMMA PublishBefore ==
  ASSUME IInv, LInv, AInv, NEW c \in Calls, call[c].op = "NodePublish",
         call[c].pc \in Publishing
  PROVE  LET q == call[c]
             s == store[q.vol]
         IN  /\ q \in Call /\ q.vol \in Volumes /\ q.node \in Nodes /\ q.target \in Targets
             /\ q.pc \in Await /\ q.code = None /\ Publishable(q)
             /\ ~LockedElsewhere(q.rec, q.node)
             /\ s \in Volume /\ WellFormed(s) /\ s # None
             /\ q.pc # "assign" =>
                  /\ q.rec = s /\ Effective(q, s) = s
                  /\ HostMatch(disk, loops, mounts, q.vol, s, q) /\ Mountable(s)
                  /\ TaskMatch(mounts, q.vol, s, q)
<1> DEFINE q == call[c]
           s == store[q.vol]
<1>1. q.pc \in Await
  BY NotAwaiting
<1>2. /\ q \in Call /\ TaskSound(q) /\ q.vol \in Volumes /\ Sync(q, s)
      /\ Agree(s, disk, loops, mounts, q.vol, q)
      /\ s # None => s \in Volume /\ WellFormed(s)
  BY <1>1, Before
<1>3. q.code = None
  BY <1>1, <1>2, NotAwaiting DEF Agree, TaskMatch, Told
<1>4. /\ q.node \in Nodes /\ q.target \in Targets /\ Publishable(q)
      /\ q.rec \in Volume /\ ~LockedElsewhere(q.rec, q.node)
  BY <1>2 DEF TaskSound, Sync
<1>5. s # None
  <2>1. CASE q.pc = "assign"
    BY <1>2, <2>1 DEF Sync, Writing
  <2>2. CASE q.pc # "assign"
    BY <1>2, <1>4, <2>2, NoRecordAssumption DEF Sync, Preparing
  <2> QED BY <2>1, <2>2
<1>6. ASSUME q.pc # "assign" PROVE q.rec = s /\ Effective(q, s) = s
  BY <1>2, <1>6 DEF Sync, Preparing, Publishing, Effective
<1> QED BY <1>1, <1>2, <1>3, <1>4, <1>5, <1>6 DEF Agree

(* A task that goes on as it is.                                           *)
LEMMA PublishQuiet ==
  ASSUME IInv, LInv, AInv, NEW c \in Calls, call[c].op = "NodePublish",
         call[c].pc \in Publishing \ (Busy \cup {"mkdir"}),
         NEW pc \in Publishing \ Busy, Goto(c, pc), UNCHANGED <<store, hostVars>>,
         LET s == store[call[c].vol]
         IN  /\ pc \in {"make", "create"} => s.assigned_node_id = None
             /\ pc = "losetup" => On(s, call[c].node)
  PROVE  AInv'
<1> DEFINE q == call[c]
           s == store[q.vol]
           p == call'[c]
<1>1. /\ q.vol \in Volumes /\ q.code = None /\ q.pc # "assign"
      /\ TaskMatch(mounts, q.vol, s, q)
  BY PublishBefore DEF Busy
<1>2. /\ SameRequest(q, p) /\ p.pc = pc /\ p.code = None
      /\ \A d \in Calls \ {c} : call'[d] = call[d]
  BY <1>1, GotoFields
<1>3. Placed(p, s)
  BY <1>2 DEF Placed, SameRequest, Publishing, Busy
<1>4. Told(p, s)
  BY <1>2, CallAssumption DEF Told, Code
<1>5. TargetMade(mounts, q.vol, p)
  BY <1>1, <1>2 DEF TaskMatch, TargetMade, SameRequest
<1> QED BY <1>1, <1>2, <1>3, <1>4, <1>5, QuietStep DEF TaskMatch

LEMMA NodePublishLoadAgrees ==
  ASSUME IInv, LInv, AInv, NEW c \in Calls, NodePublishLoad(c) PROVE AInv'
<1> DEFINE q == call[c]
           s == store[q.vol]
<1>1. q.op = "NodePublish" /\ q.pc = "load" /\ q.pc \in Await \ Busy
  BY DEF NodePublishLoad, At, Await, Busy
<1>2. /\ q \in Call /\ TaskSound(q) /\ Loaded(c) = s
      /\ s # None => s \in Volume /\ WellFormed(s)
      /\ Agree(s, disk, loops, mounts, q.vol, q)
  BY <1>1, Before
<1>3. ASSUME NodePublishVerdict(q, s) = "OK"
      PROVE  Told([q EXCEPT !.pc = "reply", !.code = "OK"], s)
  <2>1. s # None /\ ~LockedElsewhere(s, q.node) /\ q.target \in s.mount_paths
    BY <1>3 DEF NodePublishVerdict
  <2>2. s.assigned_node_id # None
    BY <1>1, <1>2, <2>1, QuietEffective DEF Agree, Mountable
  <2>3. On(s, q.node)
    BY <2>1, <2>2 DEF LockedElsewhere, On
  <2> QED BY <1>1, <1>2, <2>1, <2>3 DEF Told, Call
<1>4. Placed([q EXCEPT !.pc = "mkdir", !.rec = s], s)
  BY <1>1, <1>2 DEF Placed, Call
<1>5. "mkdir" \in Await \ Busy
  BY DEF Await, Busy
<1> QED BY <1>1, <1>2, <1>3, <1>4, <1>5, DecideAgrees DEF NodePublishLoad

LEMMA NodePublishMkdirAgrees ==
  ASSUME IInv, LInv, AInv, NEW c \in Calls, NodePublishMkdir(c) PROVE AInv'
<1> DEFINE q == call[c]
           v == q.vol
           s == store[v]
           p == call'[c]
<1>1. q.op = "NodePublish" /\ q.pc = "mkdir" /\ q.pc \in Publishing
  BY DEF NodePublishMkdir, At, Publishing
<1>2. /\ v \in Volumes /\ q.node \in Nodes /\ q.target \in Targets /\ q.code = None
      /\ HostMatch(disk, loops, mounts, v, s, q) /\ Mountable(s)
  BY <1>1, PublishBefore
<1>3. /\ SameRequest(q, p) /\ p.pc = "stat" /\ p.code = None
      /\ \A d \in Calls \ {c} : call'[d] = call[d]
  BY <1>2, GotoFields DEF NodePublishMkdir
<1>4. /\ mounts'[q.node][v][q.target].dir
      /\ \A n \in Nodes, u \in Volumes, t \in Targets :
           /\ mounts'[n][u][t].shows = mounts[n][u][t].shows
           /\ mounts'[n][u][t].ro = mounts[n][u][t].ro
           /\ u # v => mounts'[n][u][t] = mounts[n][u][t]
  <2>1. MakeTarget(q.node, v, q.target)
    BY DEF NodePublishMkdir
  <2>2. /\ mounts'[q.node][v][q.target].dir
        /\ mounts'[q.node][v][q.target].shows = mounts[q.node][v][q.target].shows
        /\ mounts'[q.node][v][q.target].ro = mounts[q.node][v][q.target].ro
        /\ OtherTargetsKept(q.node, v, q.target)
    BY ZenonT(60), <1>2, <2>1, MakeTargetSets
  <2> QED BY ZenonT(60), <2>2 DEF OtherTargetsKept
<1>5. UNCHANGED <<store, disk, loops>>
  BY DEF NodePublishMkdir
<1>6. MountsMatch(mounts', v, s)
  BY SMTT(60), <1>2, <1>4 DEF HostMatch, MountsMatch
<1>7. Held(p) = Held(q) /\ Effective(p, s) = s /\ p.vol = v
  BY <1>1, <1>3 DEF Held, Effective, SameRequest
<1>8. FilesMatch(disk, v, s, p)
  BY <1>1, <1>2, <1>3 DEF HostMatch, FilesMatch
<1>9. Placed(p, s) /\ Told(p, s)
  BY <1>1, <1>3, CallAssumption DEF Placed, Told, SameRequest, Code
<1>10. TargetMade(mounts', v, p)
  BY <1>3, <1>4 DEF TargetMade, SameRequest
<1>11. Agree(store'[v], disk', loops', mounts', v, p)
  BY <1>2, <1>5, <1>6, <1>7, <1>8, <1>9, <1>10 DEF Agree, HostMatch, TaskMatch
<1>12. \A u \in Volumes \ {v} : Untouched(u)
  BY <1>4, <1>5 DEF Untouched
<1> QED BY <1>2, <1>3, <1>7, <1>11, <1>12, AgreementStep

(* There is a file on the node of a volume only; a volume that is not      *)
(* locked elsewhere and has no file here has no node.                      *)
LEMMA NodePublishStatAgrees ==
  ASSUME IInv, LInv, AInv, NEW c \in Calls, NodePublishStat(c) \/ NodePublishMake(c)
  PROVE  AInv'
<1> DEFINE q == call[c]
           s == store[q.vol]
<1>1. /\ q.op = "NodePublish" /\ q.pc \in {"stat", "make"}
      /\ q.pc \in Publishing \ (Busy \cup {"mkdir"}) /\ q.pc # "assign"
  BY DEF NodePublishStat, NodePublishMake, At, Publishing, Busy
<1>2. /\ q.node \in Nodes /\ q.pc \in Await /\ ~LockedElsewhere(s, q.node) /\ s # None
      /\ HostMatch(disk, loops, mounts, q.vol, s, q)
  BY <1>1, PublishBefore
<1>3. disk[q.node][q.vol].exists <=> On(s, q.node)
  BY <1>1, <1>2 DEF HostMatch, FilesMatch
<1>4. ~On(s, q.node) => s.assigned_node_id = None
  BY <1>2 DEF On, LockedElsewhere
<1>5. UNCHANGED <<store, hostVars>>
  BY DEF NodePublishStat, NodePublishMake
<1>6. CASE Reply(c, "Internal")
  BY <1>1, <1>2, <1>5, <1>6, AnswerStep
<1>7. CASE Goto(c, "losetup") /\ disk[q.node][q.vol].exists
  BY <1>1, <1>3, <1>5, <1>7, PublishQuiet DEF Publishing, Busy
<1>8. CASE (Goto(c, "make") \/ Goto(c, "create")) /\ ~disk[q.node][q.vol].exists
  BY <1>1, <1>3, <1>4, <1>5, <1>8, PublishQuiet DEF Publishing, Busy
<1> QED BY <1>6, <1>7, <1>8 DEF NodePublishStat, NodePublishMake

(* The volume gets its node: where no file was, one is.                    *)
LEMMA AssignedMatch ==
  ASSUME NEW s \in Volume, WellFormed(s), s.assigned_node_id = None, Mountable(s),
         NEW n \in Nodes, NEW r, r = [s EXCEPT !.assigned_node_id = n],
         NEW l, NEW m, NEW v \in Volumes, MountsMatch(m, v, s), DevicesMatch(l, v, s, {})
  PROVE  /\ MountsMatch(m, v, r) /\ DevicesMatch(l, v, r, {})
         /\ Mountable(r) /\ On(r, n) /\ \A k \in Nodes : On(r, k) <=> k = n
<1>1. s # None /\ s.mount_paths = {} /\ s.loop_device = None
  BY NoRecordAssumption, NotInUse DEF Mountable
<1>2. /\ r.assigned_node_id = n /\ r.mount_paths = {} /\ r.loop_device = None
      /\ r.size = s.size /\ r.filesystem = s.filesystem
      /\ r \in Volume
  BY <1>1 DEF Volume
<1>3. r # None
  BY <1>2, NoRecordAssumption
<1>4. \A k \in Nodes, t \in Targets : m[k][v][t].shows = None
  BY <1>1, NothingShown
<1>5. \A k \in Nodes, d \in Devices : l[k][d].file # v
  BY <1>1, NothingAttached
<1>6. MountsMatch(m, v, r)
  BY <1>2, <1>4, NoneAssumption DEF MountsMatch
<1>7. DevicesMatch(l, v, r, {})
  BY <1>2, <1>5, NoneAssumption DEF DevicesMatch
<1>8. Mountable(r)
  BY <1>1, <1>2 DEF Mountable
<1> QED BY <1>2, <1>3, <1>6, <1>7, <1>8 DEF On

LEMMA NodePublishCreateAgrees ==
  ASSUME IInv, LInv, AInv, NEW c \in Calls, NodePublishCreate(c) PROVE AInv'
<1> DEFINE q == call[c]
           v == q.vol
           s == store[v]
           p == call'[c]
           r == Assigned(q)
<1>1. q.op = "NodePublish" /\ q.pc = "create" /\ q.pc \in Publishing
  BY DEF NodePublishCreate, At, Publishing
<1>2. /\ v \in Volumes /\ q.node \in Nodes /\ q.target \in Targets /\ q.code = None
      /\ s \in Volume /\ WellFormed(s) /\ s # None /\ q.rec = s
      /\ HostMatch(disk, loops, mounts, v, s, q) /\ Mountable(s)
      /\ TaskMatch(mounts, v, s, q)
  BY <1>1, PublishBefore
<1>3. s.assigned_node_id = None /\ mounts[q.node][v][q.target].dir
  BY <1>1, <1>2 DEF TaskMatch, Placed, TargetMade, Publishing
<1>4. \A n \in Nodes : ~On(s, n) /\ ~disk[n][v].exists
  BY SMTT(60), <1>1, <1>2, <1>3, NoneAssumption DEF On, HostMatch, FilesMatch
<1>5. UNCHANGED <<store, loops, mounts>>
  BY DEF NodePublishCreate
<1>6. MountsMatch(mounts, v, s) /\ DevicesMatch(loops, v, s, {})
  BY <1>1, <1>2 DEF HostMatch, Held
<1>7. CASE MakeDirectory(q.node, v) /\ Hold(c, "assign", r) /\ s.filesystem = "Bind"
  <2>1. /\ SameRequest(q, p) /\ p.pc = "assign" /\ p.rec = r /\ p.code = None
        /\ \A d \in Calls \ {c} : call'[d] = call[d]
    BY <1>2, <1>7, HoldFields
  <2>2. disk'[q.node][v].exists /\ OtherFilesKept(q.node, v)
    BY <1>2, <1>7, MakeDirectorySets
  <2>3. r = [s EXCEPT !.assigned_node_id = q.node]
    BY <1>2 DEF Assigned
  <2>4. /\ MountsMatch(mounts, v, r) /\ DevicesMatch(loops, v, r, {})
        /\ Mountable(r) /\ On(r, q.node) /\ \A n \in Nodes : On(r, n) <=> n = q.node
    BY <1>2, <1>3, <1>6, <2>3, AssignedMatch
  <2>5. r.filesystem = "Bind"
    BY <1>2, <1>7, <2>3 DEF Volume
  <2> HIDE DEF r
  <2>6. FilesMatch(disk', v, r, p)
    BY <1>2, <1>4, <2>1, <2>2, <2>4, <2>5 DEF FilesMatch, OtherFilesKept
  <2>7. Held(p) = {} /\ Effective(p, s) = r /\ p.vol = v
    BY <2>1 DEF Held, Effective, SameRequest
  <2>8. TaskMatch(mounts, v, r, p)
    BY <1>1, <1>3, <2>1, <2>4, CallAssumption
       DEF TaskMatch, Placed, Told, TargetMade, SameRequest, Code
  <2>9. Agree(store'[v], disk', loops', mounts', v, p)
    BY <1>5, <2>4, <2>6, <2>7, <2>8 DEF Agree, HostMatch
  <2>10. \A u \in Volumes \ {v} : Untouched(u)
    BY <1>5, <2>2 DEF Untouched, OtherFilesKept
  <2> QED BY <1>2, <2>1, <2>7, <2>9, <2>10, AgreementStep
<1>8. CASE CreateFile(q.node, v) /\ Goto(c, "allocate") /\ s.filesystem # "Bind"
  <2>1. /\ SameRequest(q, p) /\ p.pc = "allocate" /\ p.rec = s /\ p.code = None
        /\ \A d \in Calls \ {c} : call'[d] = call[d]
    BY <1>2, <1>8, GotoFields
  <2>2. disk'[q.node][v].exists /\ OtherFilesKept(q.node, v)
    BY <1>2, <1>8, CreateFileSets
  <2>3. FilesMatch(disk', v, s, p)
    BY <1>2, <1>4, <2>1, <2>2 DEF FilesMatch, OtherFilesKept, SameRequest
  <2>4. Held(p) = {} /\ Effective(p, s) = s /\ p.vol = v
    BY <2>1 DEF Held, Effective, SameRequest
  <2>5. TaskMatch(mounts, v, s, p)
    BY <1>1, <1>3, <1>8, <2>1, CallAssumption
       DEF TaskMatch, Placed, Told, TargetMade, SameRequest, Code
  <2>6. Agree(store'[v], disk', loops', mounts', v, p)
    BY <1>2, <1>5, <1>6, <2>3, <2>4, <2>5 DEF Agree, HostMatch
  <2>7. \A u \in Volumes \ {v} : Untouched(u)
    BY <1>5, <2>2 DEF Untouched, OtherFilesKept
  <2> QED BY <1>2, <2>1, <2>4, <2>6, <2>7, AgreementStep
<1> QED BY <1>2, <1>7, <1>8 DEF NodePublishCreate

(* The file gets its length: nobody has unlinked it.                       *)
LEMMA NodePublishAllocateAgrees ==
  ASSUME IInv, LInv, AInv, NEW c \in Calls, NodePublishAllocate(c) PROVE AInv'
<1> DEFINE q == call[c]
           v == q.vol
           s == store[v]
           p == call'[c]
<1>1. q.op = "NodePublish" /\ q.pc = "allocate" /\ q.pc \in Publishing
  BY DEF NodePublishAllocate, At, Publishing
<1>2. /\ v \in Volumes /\ q.node \in Nodes /\ q.target \in Targets /\ q.code = None
      /\ s # None /\ q.rec = s
      /\ HostMatch(disk, loops, mounts, v, s, q) /\ Mountable(s)
      /\ TaskMatch(mounts, v, s, q)
  BY <1>1, PublishBefore
<1>3. /\ s.assigned_node_id = None /\ s.filesystem # "Bind"
      /\ mounts[q.node][v][q.target].dir
  BY <1>1, <1>2 DEF TaskMatch, Placed, TargetMade, Publishing
<1>4. /\ disk[q.node][v].exists
      /\ \A n \in Nodes : ~On(s, n) /\ (disk[n][v].exists => n = q.node)
  BY SMTT(60), <1>1, <1>2, <1>3, NoneAssumption DEF On, HostMatch, FilesMatch
<1>5. UNCHANGED <<store, loops, mounts>>
  BY DEF NodePublishAllocate
<1>6. MountsMatch(mounts, v, s) /\ DevicesMatch(loops, v, s, {})
  BY <1>1, <1>2 DEF HostMatch, Held
<1>7. Truncate(q.node, v, s.size) /\ Goto(c, "mkfs")
  BY <1>2, <1>4 DEF NodePublishAllocate
<1>8. /\ SameRequest(q, p) /\ p.pc = "mkfs" /\ p.rec = s /\ p.code = None
      /\ \A d \in Calls \ {c} : call'[d] = call[d]
  BY <1>2, <1>7, GotoFields
<1>9. /\ disk'[q.node][v].exists /\ disk'[q.node][v].size = s.size
      /\ OtherFilesKept(q.node, v)
  BY <1>2, <1>7, TruncateSets
<1>10. FilesMatch(disk', v, s, p)
  BY <1>2, <1>4, <1>8, <1>9 DEF FilesMatch, OtherFilesKept, SameRequest
<1>11. Held(p) = {} /\ Effective(p, s) = s /\ p.vol = v
  BY <1>8 DEF Held, Effective, SameRequest
<1>12. TaskMatch(mounts, v, s, p)
  BY <1>1, <1>3, <1>8, CallAssumption
     DEF TaskMatch, Placed, Told, TargetMade, SameRequest, Code
<1>13. Agree(store'[v], disk', loops', mounts', v, p)
  BY <1>2, <1>5, <1>6, <1>10, <1>11, <1>12 DEF Agree, HostMatch
<1>14. \A u \in Volumes \ {v} : Untouched(u)
  BY <1>5, <1>9 DEF Untouched, OtherFilesKept
<1> QED BY <1>2, <1>8, <1>11, <1>13, <1>14, AgreementStep

LEMMA NodePublishMkfsAgrees ==
  ASSUME IInv, LInv, AInv, NEW c \in Calls, NodePublishMkfs(c) PROVE AInv'
<1> DEFINE q == call[c]
           v == q.vol
           s == store[v]
           p == call'[c]
           r == Assigned(q)
<1>1. q.op = "NodePublish" /\ q.pc = "mkfs" /\ q.pc \in Publishing
  BY DEF NodePublishMkfs, At, Publishing
<1>2. /\ v \in Volumes /\ q.node \in Nodes /\ q.target \in Targets /\ q.code = None
      /\ s \in Volume /\ WellFormed(s) /\ s # None /\ q.rec = s
      /\ HostMatch(disk, loops, mounts, v, s, q) /\ Mountable(s)
      /\ TaskMatch(mounts, v, s, q)
  BY <1>1, PublishBefore
<1>3. s.assigned_node_id = None /\ mounts[q.node][v][q.target].dir
  BY <1>1, <1>2 DEF TaskMatch, Placed, TargetMade, Publishing
<1>4. /\ disk[q.node][v].exists /\ disk[q.node][v].size = s.size
      /\ \A n \in Nodes : disk[n][v].exists => n = q.node
  BY SMTT(60), <1>1, <1>2, <1>3, NoneAssumption DEF On, HostMatch, FilesMatch
<1>5. UNCHANGED <<store, loops, mounts>>
  BY DEF NodePublishMkfs
<1>6. MountsMatch(mounts, v, s) /\ DevicesMatch(loops, v, s, {})
  BY <1>1, <1>2 DEF HostMatch, Held
(* mkfs does not fail: no volume has size 0.                               *)
<1>7. Mkfs(q.node, v) /\ Hold(c, "assign", r)
  <2>1. CanMkfs(q.node, v)
    BY <1>2, <1>4 DEF CanMkfs, Mountable
  <2> QED BY <2>1 DEF NodePublishMkfs
<1>8. /\ SameRequest(q, p) /\ p.pc = "assign" /\ p.rec = r /\ p.code = None
      /\ \A d \in Calls \ {c} : call'[d] = call[d]
  BY <1>2, <1>7, HoldFields
<1>9. /\ disk'[q.node][v].exists /\ disk'[q.node][v].size = s.size
      /\ disk'[q.node][v].fs = s.size /\ OtherFilesKept(q.node, v)
  BY <1>2, <1>4, <1>7, MkfsSets
<1>10. r = [s EXCEPT !.assigned_node_id = q.node]
  BY <1>2 DEF Assigned
<1>11. /\ MountsMatch(mounts, v, r) /\ DevicesMatch(loops, v, r, {})
       /\ Mountable(r) /\ On(r, q.node) /\ \A n \in Nodes : On(r, n) <=> n = q.node
  BY <1>2, <1>3, <1>6, <1>10, AssignedMatch
<1>12. r.size = s.size
  BY <1>2, <1>10 DEF Volume
<1> HIDE DEF r
<1>13. FilesMatch(disk', v, r, p)
  BY SMTT(60), <1>2, <1>4, <1>8, <1>9, <1>11, <1>12 DEF FilesMatch, OtherFilesKept
<1>14. Held(p) = {} /\ Effective(p, s) = r /\ p.vol = v
  BY <1>8 DEF Held, Effective, SameRequest
<1>15. TaskMatch(mounts, v, r, p)
  BY <1>1, <1>3, <1>8, <1>11, CallAssumption
     DEF TaskMatch, Placed, Told, TargetMade, SameRequest, Code
<1>16. Agree(store'[v], disk', loops', mounts', v, p)
  BY <1>5, <1>11, <1>13, <1>14, <1>15 DEF Agree, HostMatch
<1>17. \A u \in Volumes \ {v} : Untouched(u)
  BY <1>5, <1>9 DEF Untouched, OtherFilesKept
<1> QED BY <1>2, <1>8, <1>14, <1>16, <1>17, AgreementStep

LEMMA NodePublishAssignAgrees ==
  ASSUME IInv, LInv, AInv, NEW c \in Calls, NodePublishAssign(c) PROVE AInv'
<1> DEFINE q == call[c]
           r == q.rec
<1>1. q.op = "NodePublish" /\ q.pc = "assign" /\ q.pc \in Publishing
  BY DEF NodePublishAssign, At, Publishing
<1>2. Patch(q.vol, r) /\ Goto(c, "losetup") /\ UNCHANGED hostVars
  BY <1>1, NotRefused DEF NodePublishAssign, Update, Writing
<1>3. /\ SameRequest(q, call'[c]) /\ call'[c].pc = "losetup" /\ call'[c].code = q.code
      /\ \A d \in Calls \ {c} : call'[d] = call[d]
  BY <1>2, GotoFields
<1>4. ASSUME Agree(store[q.vol], disk, loops, mounts, q.vol, q)
      PROVE  TaskMatch(mounts, q.vol, r, call'[c])
  <2>1. TaskMatch(mounts, q.vol, r, q) /\ q.code = None
    BY <1>1, <1>4, PublishBefore DEF Agree, Effective
  <2> QED BY <1>1, <1>3, <2>1, CallAssumption
          DEF TaskMatch, Placed, Told, TargetMade, SameRequest, Code, Publishing
<1> QED BY <1>1, <1>2, <1>3, <1>4, WriteStep DEF Busy

(* The task holds the device of the volume, or one it attached just now.   *)
LEMMA NodePublishLosetupAgrees ==
  ASSUME IInv, LInv, AInv, NEW c \in Calls, NodePublishLosetup(c) PROVE AInv'
<1> DEFINE q == call[c]
           v == q.vol
           s == store[v]
           p == call'[c]
<1>1. /\ q.op = "NodePublish" /\ q.pc = "losetup" /\ q.pc \in Publishing
      /\ q.pc \in Await \ Busy
  BY DEF NodePublishLosetup, At, Publishing, Await, Busy
<1>2. /\ v \in Volumes /\ q.node \in Nodes /\ q.target \in Targets /\ q.code = None
      /\ s \in Volume /\ WellFormed(s) /\ s # None /\ q.rec = s
      /\ HostMatch(disk, loops, mounts, v, s, q) /\ Mountable(s)
      /\ TaskMatch(mounts, v, s, q)
  BY <1>1, PublishBefore
<1>3. On(s, q.node) /\ mounts[q.node][v][q.target].dir
  BY <1>1, <1>2 DEF TaskMatch, Placed, TargetMade, Publishing
<1>4. UNCHANGED <<store, disk, mounts>>
  BY DEF NodePublishLosetup
<1>5. MountsMatch(mounts, v, s) /\ DevicesMatch(loops, v, s, {}) /\ FilesMatch(disk, v, s, q)
  BY <1>1, <1>2 DEF HostMatch, Held
<1>6. ASSUME NEW d \in Devices, HoldDevice(c, "mount", s, d), s.filesystem # "Bind",
             DevicesMatch(loops', v, s, {<<q.node, d>>}),
             \A u \in Volumes \ {v} : Untouched(u)
      PROVE  AInv'
  <2>1. /\ SameRequest(q, p) /\ p.pc = "mount" /\ p.dev = d /\ p.code = None
        /\ \A e \in Calls \ {c} : call'[e] = call[e]
    BY <1>2, <1>6, HoldDeviceFields
  <2>2. Held(p) = {<<q.node, d>>} /\ Effective(p, s) = s /\ p.vol = v
    BY <2>1 DEF Held, Effective, SameRequest
  <2>3. FilesMatch(disk, v, s, p)
    BY <1>1, <1>5, <2>1 DEF FilesMatch
  <2>4. TaskMatch(mounts, v, s, p)
    BY <1>1, <1>3, <1>6, <2>1, CallAssumption
       DEF TaskMatch, Placed, Told, TargetMade, SameRequest, Code
  <2>5. Agree(store'[v], disk', loops', mounts', v, p)
    BY <1>2, <1>4, <1>5, <1>6, <2>2, <2>3, <2>4 DEF Agree, HostMatch
  <2> QED BY <1>2, <1>6, <2>1, <2>2, <2>5, AgreementStep
<1>7. CASE s.filesystem # "Bind" /\ s.loop_device # None
  <2>1. HoldDevice(c, "mount", s, s.loop_device) /\ UNCHANGED loops
    BY <1>2, <1>7 DEF NodePublishLosetup
  <2>2. s.loop_device \in Devices
    BY <1>2, <1>7 DEF Volume
  <2>3. DevicesMatch(loops', v, s, {<<q.node, s.loop_device>>})
    BY <1>3, <1>5, <2>1 DEF DevicesMatch, On
  <2>4. \A u \in Volumes : Untouched(u)
    BY <1>4, <2>1 DEF Untouched
  <2> QED BY <1>6, <1>7, <2>1, <2>2, <2>3, <2>4
<1>8. CASE s.filesystem # "Bind" /\ s.loop_device = None
  <2>1. \A n \in Nodes, d \in Devices : loops[n][d].file # v
    BY <1>5, <1>8, NothingAttached
  <2>2. ASSUME NEW d \in Devices, Losetup(q.node, v, d), HoldDevice(c, "mount", s, d)
        PROVE  AInv'
    <3>1. loops[q.node][d].file = None
      BY <1>2, <2>1, <2>2 DEF Losetup, LosetupChoices
    <3>2. loops'[q.node][d] = [file |-> v, autoclear |-> FALSE] /\ OtherDevicesKept(q.node, d)
      BY <1>2, <2>2, LosetupSets
    <3>3. DevicesMatch(loops', v, s, {<<q.node, d>>})
      BY <1>2, <1>8, <2>1, <3>2, NoneAssumption DEF DevicesMatch, OtherDevicesKept
    <3>4. \A u \in Volumes \ {v} : Untouched(u)
      BY <1>2, <1>4, <3>1, <3>2, NoneAssumption DEF Untouched, OtherDevicesKept
    <3> QED BY <1>6, <1>8, <2>2, <3>3, <3>4
  <2>3. CASE Reply(c, "Internal") /\ UNCHANGED loops
    BY <1>1, <1>4, <2>3, AnswerStep DEF hostVars
  <2> QED BY <1>2, <1>8, <2>2, <2>3 DEF NodePublishLosetup
<1>9. CASE s.filesystem = "Bind"
  <2>1. Reply(c, "Internal") /\ UNCHANGED loops
    BY <1>2, <1>9 DEF NodePublishLosetup
  <2> QED BY <1>1, <1>4, <2>1, AnswerStep DEF hostVars
<1> QED BY <1>7, <1>8, <1>9

(* Only the volumes themselves are shown, and a volume without targets     *)
(* nowhere.                                                                *)
LEMMA ShownNowhere ==
  ASSUME AInv, NEW v \in Volumes, NEW n \in Nodes,
         \A t \in Targets : mounts[n][v][t].shows = None
  PROVE  Showing(n, v) = {}
<1>1. \A u \in Volumes, t \in Targets : mounts[n][u][t].shows # v
  BY ShowsItsOwn, NoneAssumption
<1>2. ASSUME NEW x \in Showing(n, v) PROVE FALSE
  <2>1. x[1] \in Volumes /\ x[2] \in Targets /\ mounts[n][x[1]][x[2]].shows = v
    BY <1>2 DEF Showing
  <2> QED BY <1>1, <2>1
<1> QED BY <1>2

(* A mount at a further target may fail, and then the volume keeps its     *)
(* device.  The first one does not: the filesystem was made, the target    *)
(* directory too, and nothing of the volume is mounted.                    *)
LEMMA NodePublishMountAgrees ==
  ASSUME IInv, LInv, AInv, NEW c \in Calls, NodePublishMount(c) PROVE AInv'
<1> DEFINE q == call[c]
           v == q.vol
           s == store[v]
           p == call'[c]
           r == NodePublished(q)
           ro == MountReadonly(q)
<1>1. q.op = "NodePublish" /\ q.pc = "mount" /\ q.pc \in Publishing /\ q.pc \in Await
  BY DEF NodePublishMount, At, Publishing, Await
<1>2. /\ q \in Call /\ v \in Volumes /\ q.node \in Nodes /\ q.target \in Targets
      /\ q.code = None /\ Publishable(q)
      /\ s \in Volume /\ WellFormed(s) /\ s # None /\ q.rec = s
      /\ HostMatch(disk, loops, mounts, v, s, q) /\ Mountable(s)
      /\ TaskMatch(mounts, v, s, q)
  BY <1>1, PublishBefore
<1>3. /\ On(s, q.node) /\ s.filesystem # "Bind" /\ mounts[q.node][v][q.target].dir
      /\ \A n \in Nodes : On(s, n) => n = q.node
  BY <1>1, <1>2 DEF TaskMatch, Placed, TargetMade, Publishing, On
<1>4. UNCHANGED <<store, disk, loops>>
  BY DEF NodePublishMount
<1>5. /\ MountsMatch(mounts, v, s) /\ FilesMatch(disk, v, s, q)
      /\ DevicesMatch(loops, v, s, {<<q.node, q.dev>>})
  BY <1>1, <1>2 DEF HostMatch, Held
<1>6. q.dev \in Devices /\ s.loop_device \in {None, q.dev}
  BY <1>1, <1>2, Before DEF TaskSound, Sync
<1>7. loops[q.node][q.dev].file = v
  BY <1>2, <1>5, <1>6 DEF DevicesMatch
<1>8. CASE Mount(q.node, v, q.target, q.dev, ro) /\ Hold(c, "patch", r)
  <2>1. /\ SameRequest(q, p) /\ p.pc = "patch" /\ p.rec = r /\ p.code = None
        /\ \A d \in Calls \ {c} : call'[d] = call[d]
    BY <1>2, <1>8, HoldFields
  <2>2. /\ mounts'[q.node][v][q.target] = [dir |-> TRUE, shows |-> v, ro |-> ro]
        /\ OtherTargetsKept(q.node, v, q.target)
    BY <1>2, <1>7, <1>8, MountSets
  <2>3. /\ r.mount_paths = s.mount_paths \cup {q.target} /\ r.loop_device = q.dev
        /\ r.published_readonly = s.published_readonly
        /\ r.assigned_node_id = s.assigned_node_id
        /\ r.size = s.size /\ r.filesystem = s.filesystem
        /\ r \in Volume
    BY <1>2, <1>6 DEF NodePublished, Volume, VolumeState
  <2>4. s.published_readonly => ro
    BY <1>2 DEF MountReadonly
  <2> HIDE DEF r, ro
  <2>5. r # None /\ \A n \in Nodes : On(r, n) <=> On(s, n)
    BY <1>2, <2>3, NoRecordAssumption DEF On
  <2>6. MountsMatch(mounts', v, r)
    <3> DEFINE Match(n, t) ==
                 /\ mounts'[n][v][t].shows = IF On(r, n) /\ t \in r.mount_paths THEN v ELSE None
                 /\ r.published_readonly /\ mounts'[n][v][t].shows = v => mounts'[n][v][t].ro
    <3>1. Match(q.node, q.target)
      BY SMTT(60), <1>2, <1>3, <2>2, <2>3, <2>4, <2>5
    <3>2. ASSUME NEW n \in Nodes, NEW t \in Targets, n # q.node \/ t # q.target
          PROVE  Match(n, t)
      <4>1. mounts'[n][v][t] = mounts[n][v][t]
        BY <1>2, <2>2, <3>2 DEF OtherTargetsKept
      <4>2. On(r, n) /\ t \in r.mount_paths <=> On(s, n) /\ t \in s.mount_paths
        BY <1>3, <2>3, <2>5, <3>2
      <4>3. /\ mounts[n][v][t].shows = IF On(s, n) /\ t \in s.mount_paths THEN v ELSE None
            /\ s.published_readonly /\ mounts[n][v][t].shows = v => mounts[n][v][t].ro
        BY <1>2, <1>5 DEF MountsMatch
      <4>4. r.published_readonly = s.published_readonly
        BY <2>3
      <4> QED BY <4>1, <4>2, <4>3, <4>4
    <3> HIDE DEF Match
    <3>3. \A n \in Nodes, t \in Targets : Match(n, t)
      BY <3>1, <3>2
    <3> QED BY <3>3 DEF MountsMatch, Match
  <2>7. DevicesMatch(loops', v, r, {})
    BY SMTT(60), <1>2, <1>3, <1>4, <1>5, <1>6, <2>3, <2>5, NoneAssumption DEF DevicesMatch
  <2>8. FilesMatch(disk', v, r, p)
    BY <1>1, <1>4, <1>5, <2>1, <2>3, <2>5 DEF FilesMatch
  <2>9. Mountable(r)
    BY <1>2, <1>3, <2>3, NoneAssumption DEF Mountable, On
  <2>10. Held(p) = {} /\ Effective(p, s) = r /\ p.vol = v
    BY <2>1 DEF Held, Effective, SameRequest
  <2>11. TaskMatch(mounts', v, r, p)
    BY <1>1, <1>2, <1>3, <2>1, <2>3, <2>5, CallAssumption
       DEF TaskMatch, Placed, Told, TargetMade, SameRequest, Code, Publishing
  <2>12. Agree(store'[v], disk', loops', mounts', v, p)
    BY <1>4, <2>6, <2>7, <2>8, <2>9, <2>10, <2>11 DEF Agree, HostMatch
  <2>13. \A u \in Volumes \ {v} : Untouched(u)
    BY <1>4, <2>2 DEF Untouched, OtherTargetsKept
  <2> QED BY <1>2, <2>1, <2>10, <2>12, <2>13, AgreementStep
<1>9. CASE ~CanMount(q.node, v, q.target, q.dev, ro) /\ Reply(c, "Internal") /\ UNCHANGED mounts
  <2>1. s.mount_paths # {}
    <3>1. SUFFICES ASSUME s.mount_paths = {} PROVE CanMount(q.node, v, q.target, q.dev, ro)
      BY <1>9
    <3>2. \A t \in Targets : mounts[q.node][v][t].shows = None
      BY <1>2, <1>5, <3>1, NothingShown
    <3>3. Showing(q.node, v) = {}
      BY <1>2, <3>2, ShownNowhere
    <3>4. disk[q.node][v].fs > 0
      BY <1>1, <1>2, <1>3, <1>5 DEF FilesMatch, Mountable
    <3> QED BY <1>2, <1>3, <1>7, <3>2, <3>3, <3>4, NoneAssumption DEF CanMount
  <2>2. s.loop_device = q.dev
    BY <1>2, <1>6, <2>1 DEF WellFormed
  <2>3. DevicesMatch(loops, v, s, {})
    BY <1>2, <1>3, <1>5, <2>2 DEF DevicesMatch, On
  <2>4. /\ SameRequest(q, p) /\ p.pc = "reply" /\ p.code = "Internal"
        /\ \A d \in Calls \ {c} : call'[d] = call[d]
    BY <1>9, ReplyFields
  <2>5. Held(p) = {} /\ Effective(p, s) = s /\ p.vol = v
    BY <2>4 DEF Held, Effective, SameRequest
  <2>6. FilesMatch(disk, v, s, p)
    BY <1>1, <1>5, <2>4 DEF FilesMatch
  <2>7. TaskMatch(mounts, v, s, p)
    BY <1>1, <2>4 DEF TaskMatch, Placed, Told, TargetMade, SameRequest, Publishing
  <2>8. Agree(store'[v], disk', loops', mounts', v, p)
    BY <1>2, <1>4, <1>5, <1>9, <2>3, <2>5, <2>6, <2>7 DEF Agree, HostMatch
  <2>9. \A u \in Volumes \ {v} : Untouched(u)
    BY <1>4, <1>9 DEF Untouched
  <2> QED BY <1>2, <2>4, <2>5, <2>8, <2>9, AgreementStep
<1> QED BY <1>8, <1>9 DEF NodePublishMount

LEMMA NodePublishAgrees ==
  ASSUME IInv, LInv, AInv, NEW c \in Calls, NodePublishStep(c) PROVE AInv'
<1>1. CASE NodePublishPatch(c)
  BY <1>1, LastUpdateAgrees DEF NodePublishPatch, At
<1> QED BY <1>1, NodePublishLoadAgrees, NodePublishMkdirAgrees, NodePublishStatAgrees,
           NodePublishCreateAgrees, NodePublishAllocateAgrees, NodePublishMkfsAgrees,
           NodePublishAssignAgrees,
           NodePublishLosetupAgrees, NodePublishMountAgrees DEF NodePublishStep

-------------------------------------------------------------------------------
(* NodeUnpublishVolume.                                                    *)

LEMMA NodeUnpublishLoadAgrees ==
  ASSUME IInv, LInv, AInv, NEW c \in Calls, NodeUnpublishLoad(c) PROVE AInv'
<1> DEFINE q == call[c]
           s == store[q.vol]
<1>1. q.op = "NodeUnpublish" /\ q.pc = "load" /\ q.pc \in Await
  BY DEF NodeUnpublishLoad, At, Await
<1>2. /\ q \in Call /\ Loaded(c) = s
      /\ s # None => s \in Volume /\ WellFormed(s)
  BY <1>1, Before
<1>3. ASSUME s # None
      PROVE  PublishedAt(s, q.target) <=> q.target \in s.mount_paths
  BY <1>2, <1>3 DEF PublishedAt, WellFormed
<1>4. ASSUME NodeUnpublishVerdict(q, s) = "OK"
      PROVE  Told([q EXCEPT !.pc = "reply", !.code = "OK"], s)
  <2>1. s # None /\ q.target \notin s.mount_paths
    BY <1>3, <1>4 DEF NodeUnpublishVerdict
  <2> QED BY <1>1, <1>2, <2>1 DEF Told, Call
<1>5. ASSUME NodeUnpublishVerdict(q, s) = "Proceed"
      PROVE  Placed([q EXCEPT !.pc = "umount", !.rec = s], s)
  <2>1. s # None /\ q.target \in s.mount_paths
    BY <1>3, <1>5 DEF NodeUnpublishVerdict
  <2> QED BY <1>1, <1>2, <2>1 DEF Placed, Call
<1>6. "umount" \in Await \ Busy
  BY DEF Await, Busy
<1> QED BY <1>1, <1>2, <1>4, <1>5, <1>6, DecideAgrees DEF NodeUnpublishLoad

(* Another node finds nothing to umount.  On the node of the volume the    *)
(* umount leaves all devices alone: none of them is marked autoclear.      *)
LEMMA NodeUnpublishUmountAgrees ==
  ASSUME IInv, LInv, AInv, NEW c \in Calls, NodeUnpublishUmount(c) PROVE AInv'
<1> DEFINE q == call[c]
           v == q.vol
           s == store[v]
           p == call'[c]
           r == NodeUnpublished(q)
<1>1. q.op = "NodeUnpublish" /\ q.pc = "umount" /\ q.pc \in Await \ Busy
  BY DEF NodeUnpublishUmount, At, Await, Busy
<1>2. /\ q \in Call /\ v \in Volumes /\ TaskSound(q) /\ Sync(q, s)
      /\ s # None => s \in Volume /\ WellFormed(s)
      /\ Agree(s, disk, loops, mounts, v, q)
  BY <1>1, Before
<1>3. /\ q.node \in Nodes /\ q.target \in Targets /\ q.rec = s
      /\ s # None /\ q.target \in s.mount_paths
  BY <1>1, <1>2, NoRecordAssumption DEF TaskSound, Sync
<1>4. /\ MountsMatch(mounts, v, s) /\ FilesMatch(disk, v, s, q)
      /\ DevicesMatch(loops, v, s, {}) /\ Mountable(s) /\ q.code = None
  BY <1>1, <1>2, QuietEffective, NotAwaiting DEF Agree, HostMatch, TaskMatch, Told
<1>5. s.loop_device \in Devices
  BY <1>2, <1>3 DEF WellFormed, Volume
<1>6. UNCHANGED <<store, disk>>
  BY DEF NodeUnpublishUmount
<1>7. CASE Reply(c, "Internal") /\ UNCHANGED <<loops, mounts>>
  BY <1>1, <1>6, <1>7, AnswerStep DEF hostVars
<1>8. CASE Umount(q.node, v, q.target)
  <2>1. On(s, q.node) /\ mounts[q.node][v][q.target].shows = v
    BY <1>2, <1>3, <1>4, <1>8 DEF Umount, MountsMatch
  <2>2. \A d \in Devices : loops[q.node][d].file = v => ~loops[q.node][d].autoclear
    BY <1>3, <1>4 DEF DevicesMatch
  <2>3. /\ mounts'[q.node][v][q.target].shows = None
        /\ OtherTargetsKept(q.node, v, q.target)
        /\ \A m \in Nodes, d \in Devices : loops'[m][d] = loops[m][d]
    <3>1. \A d \in Devices :
            loops[q.node][d].file = mounts[q.node][v][q.target].shows => ~loops[q.node][d].autoclear
      BY <2>1, <2>2
    <3> HIDE DEF q, v
    <3> QED BY <1>2, <1>3, <1>8, <3>1, UmountSets
  <2>4. /\ r.mount_paths = s.mount_paths \ {q.target}
        /\ r.loop_device = IF r.mount_paths = {} THEN None ELSE s.loop_device
        /\ r.published_readonly = s.published_readonly
        /\ r.assigned_node_id = s.assigned_node_id
        /\ r.size = s.size /\ r.filesystem = s.filesystem
        /\ r \in Volume
    BY <1>2, <1>3 DEF NodeUnpublished, Volume, VolumeState
  <2> HIDE DEF r
  <2>5. r # None /\ \A n \in Nodes : On(r, n) <=> On(s, n)
    BY <1>3, <2>4, NoRecordAssumption DEF On
  <2>6. MountsMatch(mounts', v, r)
    <3> DEFINE Match(n, t) ==
                 /\ mounts'[n][v][t].shows = IF On(r, n) /\ t \in r.mount_paths THEN v ELSE None
                 /\ r.published_readonly /\ mounts'[n][v][t].shows = v => mounts'[n][v][t].ro
    <3>1. Match(q.node, q.target)
      BY <1>2, <2>3, <2>4, NoneAssumption
    <3>2. ASSUME NEW n \in Nodes, NEW t \in Targets, n # q.node \/ t # q.target
          PROVE  Match(n, t)
      <4>1. mounts'[n][v][t] = mounts[n][v][t]
        BY <1>2, <2>3, <3>2 DEF OtherTargetsKept
      <4>2. On(r, n) /\ t \in r.mount_paths <=> On(s, n) /\ t \in s.mount_paths
        BY <2>1, <2>4, <2>5, <3>2 DEF On
      <4>3. /\ mounts[n][v][t].shows = IF On(s, n) /\ t \in s.mount_paths THEN v ELSE None
            /\ s.published_readonly /\ mounts[n][v][t].shows = v => mounts[n][v][t].ro
        BY <1>3, <1>4 DEF MountsMatch
      <4>4. r.published_readonly = s.published_readonly
        BY <2>4
      <4> QED BY <4>1, <4>2, <4>3, <4>4
    <3> HIDE DEF Match
    <3>3. \A n \in Nodes, t \in Targets : Match(n, t)
      BY <3>1, <3>2
    <3> QED BY <3>3 DEF MountsMatch, Match
  <2>7. Mountable(r)
    BY <1>3, <1>4, <2>4 DEF Mountable
  <2>8. \A u \in Volumes \ {v} : Untouched(u)
    BY <1>6, <2>3 DEF Untouched, OtherTargetsKept
  <2>9. ASSUME p.pc \in {"unloop", "patch"}, SameRequest(q, p), p.rec = r, p.code = None,
                \A d \in Calls \ {c} : call'[d] = call[d],
                DevicesMatch(loops', v, r, Held(p)),
                p.pc = "unloop" => r.mount_paths = {}
         PROVE  AInv'
    <3>1. FilesMatch(disk', v, r, p)
      BY <1>1, <1>4, <1>6, <2>4, <2>5, <2>9 DEF FilesMatch
    <3>2. TaskMatch(mounts', v, r, p)
      BY <1>1, <1>3, <2>1, <2>4, <2>5, <2>9, CallAssumption
         DEF TaskMatch, Placed, Told, TargetMade, SameRequest, Code
    <3>3. Effective(p, s) = r /\ p.vol = v
      BY <2>9 DEF Effective, SameRequest
    <3>4. Agree(store'[v], disk', loops', mounts', v, p)
      BY <1>6, <2>6, <2>7, <2>9, <3>1, <3>2, <3>3 DEF Agree, HostMatch
    <3> QED BY <1>2, <2>8, <2>9, <3>3, <3>4, AgreementStep
  <2>10. CASE r.mount_paths = {} /\ HoldDevice(c, "unloop", r, s.loop_device)
    <3>1. /\ SameRequest(q, p) /\ p.pc = "unloop" /\ p.rec = r /\ p.code = None
          /\ p.dev = s.loop_device /\ \A d \in Calls \ {c} : call'[d] = call[d]
      BY <1>4, <2>10, HoldDeviceFields
    <3>2. Held(p) = {<<q.node, s.loop_device>>}
      BY <3>1 DEF Held, SameRequest
    <3>3. ASSUME NEW n \in Nodes, NEW d \in Devices
          PROVE  /\ loops'[n][d].file = v <=>
                      (On(r, n) /\ r.loop_device = d) \/ <<n, d>> \in Held(p)
                 /\ loops'[n][d].file = v => ~loops'[n][d].autoclear
      <4>1. loops'[n][d] = loops[n][d]
        BY <2>3
      <4>2. /\ loops[n][d].file = v <=> On(s, n) /\ s.loop_device = d
            /\ loops[n][d].file = v => ~loops[n][d].autoclear
        BY <1>4 DEF DevicesMatch
      <4>3. r.loop_device # d
        BY <2>4, <2>10, NoneAssumption
      <4>4. On(s, n) <=> n = q.node
        BY <2>1 DEF On
      <4>5. <<n, d>> \in Held(p) <=> n = q.node /\ d = s.loop_device
        BY <3>2
      <4> QED BY <4>1, <4>2, <4>3, <4>4, <4>5
    <3>4. DevicesMatch(loops', v, r, Held(p))
      BY <3>3 DEF DevicesMatch
    <3> QED BY <2>9, <2>10, <3>1, <3>4
  <2>11. CASE r.mount_paths # {} /\ Hold(c, "patch", r)
    <3>1. /\ SameRequest(q, p) /\ p.pc = "patch" /\ p.rec = r /\ p.code = None
          /\ \A d \in Calls \ {c} : call'[d] = call[d]
      BY <1>4, <2>11, HoldFields
    <3>2. Held(p) = {}
      BY <3>1 DEF Held
    <3>3. DevicesMatch(loops', v, r, Held(p))
      BY SMTT(60), <1>4, <2>3, <2>4, <2>5, <2>11, <3>2 DEF DevicesMatch
    <3> QED BY <2>9, <3>1, <3>3
  <2> QED BY <1>3, <1>5, <2>1, <2>10, <2>11, <1>7, NoneAssumption DEF NodeUnpublishUmount, r
<1> QED BY <1>7, <1>8 DEF NodeUnpublishUmount

LEMMA NodeUnpublishUnloopAgrees ==
  ASSUME IInv, LInv, AInv, NEW c \in Calls, NodeUnpublishUnloop(c) PROVE AInv'
<1> DEFINE q == call[c]
           v == q.vol
           s == store[v]
           p == call'[c]
           r == q.rec
<1>1. q.op = "NodeUnpublish" /\ q.pc = "unloop" /\ q.pc \in Await
  BY DEF NodeUnpublishUnloop, At, Await
<1>2. /\ v \in Volumes /\ TaskSound(q) /\ Agree(s, disk, loops, mounts, v, q)
  BY <1>1, Before
<1>3. /\ q.node \in Nodes /\ q.dev \in Devices /\ r \in Volume /\ WellFormed(r)
  BY <1>1, <1>2 DEF TaskSound
<1>4. /\ MountsMatch(mounts, v, r) /\ FilesMatch(disk, v, r, q)
      /\ DevicesMatch(loops, v, r, {<<q.node, q.dev>>}) /\ Mountable(r)
      /\ TaskMatch(mounts, v, r, q) /\ q.code = None
  BY <1>1, <1>2 DEF Agree, HostMatch, TaskMatch, Told, Effective, Held
<1>5. r.mount_paths = {} /\ r.loop_device = None
  BY <1>1, <1>3, <1>4, NotInUse DEF TaskMatch, Placed
<1>6. loops[q.node][q.dev].file = v
  BY <1>3, <1>4 DEF DevicesMatch
<1>7. Showing(q.node, v) = {}
  BY <1>2, <1>3, <1>4, <1>5, NothingShown, ShownNowhere
<1>8. LosetupDetach(q.node, q.dev) /\ Goto(c, "patch") /\ UNCHANGED <<store, disk, mounts>>
  BY <1>2, <1>6, NoneAssumption DEF NodeUnpublishUnloop
<1>9. /\ SameRequest(q, p) /\ p.pc = "patch" /\ p.rec = r /\ p.code = None
      /\ \A d \in Calls \ {c} : call'[d] = call[d]
  BY <1>4, <1>8, GotoFields
<1>10. loops'[q.node][q.dev].file = None /\ OtherDevicesKept(q.node, q.dev)
  BY <1>3, <1>6, <1>7, <1>8, LosetupDetachSets DEF FreeDevice
<1>11. DevicesMatch(loops', v, r, {})
  BY <1>2, <1>4, <1>5, <1>10, NoneAssumption DEF DevicesMatch, OtherDevicesKept
<1>12. FilesMatch(disk, v, r, p)
  BY <1>1, <1>4, <1>9 DEF FilesMatch
<1>13. TaskMatch(mounts, v, r, p)
  BY <1>1, <1>4, <1>9, CallAssumption
     DEF TaskMatch, Placed, Told, TargetMade, SameRequest, Code
<1>14. Held(p) = {} /\ Effective(p, s) = r /\ p.vol = v
  BY <1>9 DEF Held, Effective, SameRequest
<1>15. Agree(store'[v], disk', loops', mounts', v, p)
  BY <1>4, <1>8, <1>11, <1>12, <1>13, <1>14 DEF Agree, HostMatch
<1>16. \A u \in Volumes \ {v} : Untouched(u)
  BY <1>6, <1>8, <1>10, NoneAssumption DEF Untouched, OtherDevicesKept
<1> QED BY <1>2, <1>9, <1>14, <1>15, <1>16, AgreementStep

LEMMA NodeUnpublishRmdirAgrees ==
  ASSUME IInv, LInv, AInv, NEW c \in Calls, NodeUnpublishRmdir(c) PROVE AInv'
<1> DEFINE q == call[c]
           v == q.vol
           s == store[v]
           p == call'[c]
<1>1. q.op = "NodeUnpublish" /\ q.pc = "rmdir" /\ q.pc \in Await \ Busy
  BY DEF NodeUnpublishRmdir, At, Await, Busy
<1>2. /\ q \in Call /\ v \in Volumes /\ TaskSound(q) /\ Agree(s, disk, loops, mounts, v, q)
  BY <1>1, Before
<1>3. q.node \in Nodes /\ q.target \in Targets
  BY <1>1, <1>2 DEF TaskSound
<1>4. HostMatch(disk, loops, mounts, v, s, q) /\ Mountable(s) /\ TaskMatch(mounts, v, s, q)
  BY <1>1, <1>2, QuietEffective DEF Agree
<1>5. s # None /\ q.target \notin s.mount_paths
  BY <1>1, <1>4 DEF TaskMatch, Placed
<1>6. Reply(c, "OK") /\ UNCHANGED <<store, disk, loops>>
  BY DEF NodeUnpublishRmdir
<1>7. CASE UNCHANGED mounts
  <2>1. Told([q EXCEPT !.pc = "reply", !.code = "OK"], s)
    BY <1>1, <1>2, <1>5 DEF Told, Call
  <2> QED BY <1>1, <1>6, <1>7, <2>1, AnswerStep DEF hostVars
<1>8. CASE RemoveTarget(q.node, v, q.target)
  <2>1. /\ SameRequest(q, p) /\ p.pc = "reply" /\ p.code = "OK"
        /\ \A d \in Calls \ {c} : call'[d] = call[d]
    BY <1>6, ReplyFields
  <2>2. /\ mounts[q.node][v][q.target].shows = None
        /\ mounts'[q.node][v][q.target].shows = None
        /\ OtherTargetsKept(q.node, v, q.target)
    BY <1>2, <1>3, <1>8, RemoveTargetSets
  <2>3. MountsMatch(mounts', v, s)
    <3> DEFINE Match(n, t) ==
                 /\ mounts'[n][v][t].shows = IF On(s, n) /\ t \in s.mount_paths THEN v ELSE None
                 /\ s.published_readonly /\ mounts'[n][v][t].shows = v => mounts'[n][v][t].ro
    <3>1. Match(q.node, q.target)
      BY <1>2, <1>5, <2>2, NoneAssumption
    <3>2. ASSUME NEW n \in Nodes, NEW t \in Targets, n # q.node \/ t # q.target
          PROVE  Match(n, t)
      <4>1. mounts'[n][v][t] = mounts[n][v][t]
        BY <1>2, <2>2, <3>2 DEF OtherTargetsKept
      <4> QED BY SMTT(60), <1>4, <1>5, <4>1 DEF HostMatch, MountsMatch
    <3> HIDE DEF Match
    <3>3. \A n \in Nodes, t \in Targets : Match(n, t)
      BY <3>1, <3>2
    <3> QED BY <3>3 DEF MountsMatch, Match
  <2>4. Held(p) = {} /\ Held(q) = {} /\ Effective(p, s) = s /\ p.vol = v
    BY <1>1, <2>1, QuietEffective DEF Held, Effective, SameRequest
  <2>5. FilesMatch(disk, v, s, p)
    BY <1>1, <1>4, <2>1 DEF HostMatch, FilesMatch
  <2>6. TaskMatch(mounts', v, s, p)
    BY <1>1, <1>5, <2>1
       DEF TaskMatch, Placed, Told, TargetMade, SameRequest, Publishing
  <2>7. Agree(store'[v], disk', loops', mounts', v, p)
    BY <1>4, <1>6, <2>3, <2>4, <2>5, <2>6 DEF Agree, HostMatch
  <2>8. \A u \in Volumes \ {v} : Untouched(u)
    BY <1>6, <2>2 DEF Untouched, OtherTargetsKept
  <2> QED BY <1>2, <2>1, <2>4, <2>7, <2>8, AgreementStep
<1> QED BY <1>7, <1>8 DEF NodeUnpublishRmdir

LEMMA NodeUnpublishAgrees ==
  ASSUME IInv, LInv, AInv, NEW c \in Calls,
         \/ NodeUnpublishLoad(c)  \/ NodeUnpublishUmount(c) \/ NodeUnpublishUnloop(c)
         \/ NodeUnpublishPatch(c) \/ NodeUnpublishRmdir(c)
  PROVE  AInv'
<1>1. CASE NodeUnpublishPatch(c)
  BY <1>1, LastUpdateAgrees DEF NodeUnpublishPatch, At
<1> QED BY <1>1, NodeUnpublishLoadAgrees, NodeUnpublishUmountAgrees,
           NodeUnpublishUnloopAgrees, NodeUnpublishRmdirAgrees

-------------------------------------------------------------------------------
(* NodeExpandVolume and NodeGetVolumeStats.                                *)

(* A bind volume is never mounted, and so never expanded.                  *)
LEMMA NodeExpandLoadAgrees ==
  ASSUME IInv, LInv, AInv, NEW c \in Calls, NodeExpandLoad(c) PROVE AInv'
<1> DEFINE q == call[c]
           s == store[q.vol]
           verdict == NodeExpandVerdict(q, s)
           r == Expanded(s, q.size)
<1>1. q.op = "NodeExpand" /\ q.pc = "load" /\ q.pc \in Await \ Busy
  BY DEF NodeExpandLoad, At, Await, Busy
<1>2. /\ q \in Call /\ Loaded(c) = s /\ Agree(s, disk, loops, mounts, q.vol, q)
      /\ s # None => s \in Volume /\ WellFormed(s)
  BY <1>1, Before
<1>3. ASSUME verdict = "Proceed"
      PROVE  s # None /\ s.mount_paths # {} /\ s.filesystem # "Bind" /\ s.size < q.size
  <2>1. s # None /\ s.state = "NodePublished" /\ ~(q.size <= s.size)
    BY <1>3 DEF NodeExpandVerdict, PublishedAt
  <2>2. s.mount_paths # {}
    BY <1>2, <2>1 DEF WellFormed
  <2>3. s.filesystem # "Bind"
    BY <1>1, <1>2, <2>1, <2>2, QuietEffective DEF Agree, Mountable
  <2>4. q.size \in Nat /\ s.size \in Nat
    BY <1>2, <2>1 DEF Call, Volume
  <2> QED BY <2>1, <2>2, <2>3, <2>4
<1>4. Decide(c, verdict, "truncate", r)
  BY <1>2, <1>3 DEF NodeExpandLoad, Decide
<1>5. ASSUME verdict = "Proceed"
      PROVE  Placed([q EXCEPT !.pc = "truncate", !.rec = r], s)
  <2> HIDE DEF r
  <2>1. Placed([q EXCEPT !.pc = "truncate", !.rec = r], s) <=> r = Expanded(s, q.size)
    BY <1>1, <1>2, <1>3, <1>5 DEF Placed, Call
  <2> QED BY <2>1 DEF r
<1>6. Told([q EXCEPT !.pc = "reply", !.code = "OK"], s)
  BY <1>1, <1>2 DEF Told, Call
<1>7. "truncate" \in Await \ Busy
  BY DEF Await, Busy
<1> HIDE DEF verdict, r
<1> QED BY <1>1, <1>4, <1>5, <1>6, <1>7, DecideAgrees

LEMMA NodeExpandTruncateAgrees ==
  ASSUME IInv, LInv, AInv, NEW c \in Calls, NodeExpandTruncate(c) PROVE AInv'
<1> DEFINE q == call[c]
           v == q.vol
           s == store[v]
           p == call'[c]
<1>1. q.op = "NodeExpand" /\ q.pc = "truncate" /\ q.pc \in Await \ Busy
  BY DEF NodeExpandTruncate, At, Await, Busy
<1>2. /\ q \in Call /\ v \in Volumes /\ TaskSound(q) /\ Agree(s, disk, loops, mounts, v, q)
  BY <1>1, Before
<1>3. q.node \in Nodes /\ q.code = None
  BY <1>1, <1>2, NotAwaiting DEF TaskSound, Agree, TaskMatch, Told
<1>4. HostMatch(disk, loops, mounts, v, s, q) /\ Mountable(s) /\ TaskMatch(mounts, v, s, q)
  BY <1>1, <1>2, QuietEffective DEF Agree
<1>5. UNCHANGED <<store, loops, mounts>>
  BY DEF NodeExpandTruncate
<1>6. CASE Reply(c, "Internal") /\ UNCHANGED disk
  BY <1>1, <1>5, <1>6, AnswerStep DEF hostVars
<1>7. CASE Truncate(q.node, v, q.size) /\ Goto(c, "grow")
  <2>1. /\ SameRequest(q, p) /\ p.pc = "grow" /\ p.rec = q.rec /\ p.code = None
        /\ \A d \in Calls \ {c} : call'[d] = call[d]
    BY <1>3, <1>7, GotoFields
  <2>2. /\ disk'[q.node][v].exists /\ disk'[q.node][v].size = q.size
        /\ disk'[q.node][v].fs = disk[q.node][v].fs
        /\ OtherFilesKept(q.node, v)
    BY <1>2, <1>3, <1>7, TruncateSets
  <2>3. /\ On(s, q.node)
        /\ \A n \in Nodes : On(s, n) => n = q.node
    BY <1>1, <1>3, <1>4, <1>7 DEF Truncate, HostMatch, FilesMatch, On
  <2>4. FilesMatch(disk', v, s, p)
    <3>1. ASSUME NEW n \in Nodes, n # q.node
          PROVE  disk'[n][v] = disk[n][v] /\ ~On(s, n)
      BY <1>2, <2>2, <2>3, <3>1 DEF OtherFilesKept
    <3>2. s.filesystem # "Bind" => disk[q.node][v].fs = s.size
      BY <1>1, <1>3, <1>4, <2>3 DEF HostMatch, FilesMatch
    <3>3. \A n \in Nodes : n # q.node => ~disk[n][v].exists
      BY <1>1, <1>4, <2>3 DEF HostMatch, FilesMatch
    <3> QED BY <2>1, <2>2, <2>3, <3>1, <3>2, <3>3 DEF FilesMatch, SameRequest
  <2>5. Held(p) = {} /\ Held(q) = {} /\ Effective(p, s) = s /\ p.vol = v
    BY <1>1, <2>1, QuietEffective DEF Held, Effective, SameRequest
  <2>6. TaskMatch(mounts, v, s, p)
    BY <1>1, <1>4, <2>1, <2>3, CallAssumption
       DEF TaskMatch, Placed, Told, TargetMade, SameRequest, Code
  <2>7. Agree(store'[v], disk', loops', mounts', v, p)
    BY <1>4, <1>5, <2>4, <2>5, <2>6 DEF Agree, HostMatch
  <2>8. \A u \in Volumes \ {v} : Untouched(u)
    BY <1>5, <2>2 DEF Untouched, OtherFilesKept
  <2> QED BY <1>2, <2>1, <2>5, <2>7, <2>8, AgreementStep
<1> QED BY <1>6, <1>7 DEF NodeExpandTruncate

(* The filesystem grows: the device of the record has the file.            *)
LEMMA NodeExpandGrowAgrees ==
  ASSUME IInv, LInv, AInv, NEW c \in Calls, NodeExpandGrow(c) PROVE AInv'
<1> DEFINE q == call[c]
           v == q.vol
           s == store[v]
           p == call'[c]
           r == q.rec
           d == r.loop_device
<1>1. q.op = "NodeExpand" /\ q.pc = "grow" /\ q.pc \in Await
  BY DEF NodeExpandGrow, At, Await
<1>2. /\ q \in Call /\ v \in Volumes /\ TaskSound(q) /\ Sync(q, s)
      /\ Agree(s, disk, loops, mounts, v, q)
      /\ s # None => s \in Volume /\ WellFormed(s)
  BY <1>1, Before
<1>3. q.node \in Nodes /\ q.code = None /\ q.size \in Nat
  BY <1>1, <1>2 DEF TaskSound, Agree, TaskMatch, Told, Call
<1>4. /\ HostMatch(disk, loops, mounts, v, s, q) /\ Mountable(s)
      /\ TaskMatch(mounts, v, s, q) /\ Held(q) = {}
  BY <1>1, <1>2 DEF Agree, Effective, Held
<1>5. /\ On(s, q.node) /\ s # None /\ r = Expanded(s, q.size) /\ s.size < q.size
      /\ s \in Volume /\ WellFormed(s)
  BY <1>1, <1>2, <1>4 DEF TaskMatch, Placed
<1>6. /\ r.size = q.size /\ r.loop_device = s.loop_device /\ r.mount_paths = s.mount_paths
      /\ r.assigned_node_id = s.assigned_node_id /\ r.filesystem = s.filesystem
      /\ r.published_readonly = s.published_readonly
      /\ s.size \in Nat /\ r \in Volume
  BY <1>3, <1>5 DEF Expanded, Volume
<1>7. s.state = "NodePublished"
  <2>1. Legal(s, r)
    BY <1>1, <1>2 DEF Sync, Writing
  <2>2. r.size # s.size
    BY <1>3, <1>5, <1>6
  <2> HIDE DEF r, s
  <2>3. Growth(s, r)
    BY <2>1, <2>2 DEF Legal, Publication, Mounting, Remounting, Assignment, SameIdentity
  <2> QED BY <2>3 DEF Growth
<1>8. s.mount_paths # {} /\ d \in Devices
  BY <1>5, <1>6, <1>7 DEF WellFormed, Volume
<1>9. s.filesystem # "Bind" /\ s.size > 0
  BY <1>4, <1>5, <1>8 DEF Mountable
<1>10. /\ disk[q.node][v].exists /\ disk[q.node][v].fs = s.size
       /\ disk[q.node][v].size = q.size
  BY <1>1, <1>3, <1>4, <1>5, <1>9 DEF HostMatch, FilesMatch
<1>11. loops[q.node][d].file = v
  BY <1>3, <1>4, <1>5, <1>6, <1>8 DEF HostMatch, DevicesMatch
<1> HIDE DEF d, r
<1>12. CanGrow(q.node, d)
  BY <1>2, <1>3, <1>5, <1>6, <1>9, <1>10, <1>11 DEF CanGrow
<1>13. Grow(q.node, d) /\ Goto(c, "patch") /\ UNCHANGED <<store, loops, mounts>>
  BY <1>12 DEF NodeExpandGrow, d, r
<1>14. /\ SameRequest(q, p) /\ p.pc = "patch" /\ p.rec = r /\ p.code = None
       /\ \A e \in Calls \ {c} : call'[e] = call[e]
  BY <1>3, <1>13, GotoFields DEF r
<1>15. /\ disk'[q.node][v].exists /\ disk'[q.node][v].size = q.size
       /\ disk'[q.node][v].fs = q.size /\ OtherFilesKept(q.node, v)
  BY <1>2, <1>3, <1>10, <1>11, <1>13, GrowSets
<1>16. /\ r # None /\ \A n \in Nodes : (On(r, n) <=> On(s, n)) /\ (On(s, n) => n = q.node)
  BY <1>5, <1>6, NoRecordAssumption DEF On
<1>17. MountsMatch(mounts, v, r)
  BY <1>4, <1>5, <1>6, <1>16 DEF HostMatch, MountsMatch
<1>18. DevicesMatch(loops, v, r, {})
  BY <1>4, <1>6, <1>16 DEF HostMatch, DevicesMatch
<1>19. FilesMatch(disk', v, r, p)
  <2>1. \A n \in Nodes : n # q.node => ~disk[n][v].exists /\ ~disk'[n][v].exists
    BY <1>1, <1>2, <1>4, <1>15, <1>16 DEF HostMatch, FilesMatch, OtherFilesKept
  <2> QED BY <1>5, <1>6, <1>14, <1>15, <1>16, <2>1 DEF FilesMatch
<1>20. Mountable(r)
  BY <1>3, <1>4, <1>5, <1>6 DEF Mountable
<1>21. Held(p) = {} /\ Effective(p, s) = r /\ p.vol = v
  BY <1>14 DEF Held, Effective, SameRequest
<1>22. TaskMatch(mounts, v, r, p)
  BY <1>1, <1>14, CallAssumption
     DEF TaskMatch, Placed, Told, TargetMade, SameRequest, Code
<1>23. Agree(store'[v], disk', loops', mounts', v, p)
  BY <1>13, <1>17, <1>18, <1>19, <1>20, <1>21, <1>22 DEF Agree, HostMatch
<1>24. \A u \in Volumes \ {v} : Untouched(u)
  BY <1>13, <1>15 DEF Untouched, OtherFilesKept
<1> QED BY <1>2, <1>14, <1>21, <1>23, <1>24, AgreementStep

LEMMA NodeExpandAgrees ==
  ASSUME IInv, LInv, AInv, NEW c \in Calls,
         \/ NodeExpandLoad(c) \/ NodeExpandTruncate(c)
         \/ NodeExpandGrow(c) \/ NodeExpandPatch(c)
  PROVE  AInv'
<1>1. CASE NodeExpandPatch(c)
  BY <1>1, LastUpdateAgrees DEF NodeExpandPatch, At
<1> QED BY <1>1, NodeExpandLoadAgrees, NodeExpandTruncateAgrees, NodeExpandGrowAgrees

LEMMA NodeGetStatsAgrees ==
  ASSUME IInv, LInv, AInv, NEW c \in Calls, NodeGetStatsLoad(c) \/ NodeGetStatsStatfs(c)
  PROVE  AInv'
<1> DEFINE q == call[c]
           s == store[q.vol]
<1>1. q.op = "NodeGetStats" /\ q.pc \in Await \ Busy
  BY DEF NodeGetStatsLoad, NodeGetStatsStatfs, At, Await, Busy
<1>2. /\ q \in Call /\ Loaded(c) = s /\ Agree(s, disk, loops, mounts, q.vol, q)
      /\ s # None => s \in Volume /\ WellFormed(s)
  BY <1>1, Before
<1>3. CASE NodeGetStatsLoad(c)
  <2>1. ASSUME NodeGetStatsVerdict(q, s) = "Proceed"
        PROVE  Placed([q EXCEPT !.pc = "statfs", !.rec = s], s)
    <3>1. s # None /\ q.target \in s.mount_paths
      BY <2>1 DEF NodeGetStatsVerdict, PublishedAt
    <3> QED BY <1>1, <1>2, <3>1 DEF Placed, Call
  <2>2. NodeGetStatsVerdict(q, s) # "OK" /\ "statfs" \in Await \ Busy
    BY DEF NodeGetStatsVerdict, Await, Busy
  <2> QED BY <1>1, <1>2, <1>3, <2>1, <2>2, DecideAgrees DEF NodeGetStatsLoad, At
<1>4. CASE NodeGetStatsStatfs(c)
  <2>1. Placed(q, s) /\ q.pc = "statfs"
    BY <1>1, <1>2, <1>4, QuietEffective DEF Agree, TaskMatch, NodeGetStatsStatfs, At
  <2>2. Told([q EXCEPT !.pc = "reply", !.code = "OK"], s)
    BY <1>1, <1>2, <2>1 DEF Placed, Told, Call
  <2>3. \E code : Reply(c, code) /\ UNCHANGED <<store, hostVars>>
    BY <1>4 DEF NodeGetStatsStatfs
  <2> QED BY <1>1, <2>2, <2>3, AnswerStep
<1> QED BY <1>3, <1>4

-------------------------------------------------------------------------------
(* Requests and answers.                                                   *)

LEMMA StartAgrees ==
  ASSUME IInv, LInv, AInv, NEW c \in Calls, NEW v \in Volumes, Idle(v), call[c] = NoCall,
         UNCHANGED <<store, hostVars>>, \A d \in Calls \ {c} : call'[d] = call[d],
         call'[c].vol = v, call'[c].pc \in {"get", "load"}, call'[c].code = None,
         call'[c].op = "CreateVolume" => call'[c].size > 0
  PROVE  AInv'
<1>1. NoCall.vol = None /\ NoCall.pc = "idle"
  BY DEF NoCall
<1>2. TaskMatch(mounts, v, store[v], call'[c])
  BY CallAssumption DEF TaskMatch, Placed, Told, TargetMade, Publishing, Code
<1>3. Agree(store[v], disk, loops, mounts, v, NoCall)
  BY DEF AInv
<1>4. Agree(store[v], disk, loops, mounts, v, call'[c])
  BY <1>1, <1>2, <1>3, QuietAgree DEF Busy
<1>5. ASSUME NEW u \in Volumes
      PROVE  /\ Idle(u)' => Agree(store[u], disk, loops, mounts, u, NoCall)
             /\ \A d \in Calls : call'[d].vol = u =>
                  Agree(store[u], disk, loops, mounts, u, call'[d])
  <2>1. Idle(u)' => Idle(u)
    BY <1>1, NoneAssumption DEF Idle
  <2> QED BY <1>4, <2>1 DEF AInv
<1>6. \A d \in Calls : call'[d].vol = None => call'[d] = NoCall
  BY NoneAssumption DEF AInv
<1> QED BY <1>5, <1>6 DEF AInv, hostVars

LEMMA RequestAgrees ==
  ASSUME Undisturbed, IInv, LInv, AInv, NEW c \in Calls, Request(c)
  PROVE  AInv'
<1>1. PICK v \in Volumes :
        \/ CreateVolume(c, v)      \/ DeleteVolume(c, v)
        \/ ControllerPublish(c, v) \/ ControllerUnpublish(c, v)
        \/ NodePublish(c, v)       \/ NodeUnpublish(c, v)
        \/ NodeExpand(c, v)       \/ NodeGetStats(c, v)
  BY DEF Request
<1>2. DOMAIN call = Calls
  BY DEF IInv, TypeOK
<1>3. /\ UNCHANGED <<store, hostVars>> /\ Idle(v) /\ call[c] = NoCall
      /\ \A d \in Calls \ {c} : call'[d] = call[d]
  BY <1>1, <1>2 DEF CreateVolume, DeleteVolume, ControllerPublish, ControllerUnpublish,
                    NodePublish, NodeUnpublish, NodeExpand, NodeGetStats, Start,
                    Undisturbed, Idle
<1>4. \A size \in Sizes : size > 0
  BY RequestAssumption DEF Undisturbed
<1>5. /\ call'[c].vol = v /\ call'[c].pc \in {"get", "load"} /\ call'[c].code = None
      /\ call'[c].op = "CreateVolume" => call'[c].size > 0
  <2>1. CASE CreateVolume(c, v)
    BY <1>2, <1>4, <2>1 DEF CreateVolume, Start, NoCall
  <2>2. CASE DeleteVolume(c, v)
    BY <1>2, <2>2 DEF DeleteVolume, Start, NoCall
  <2>8. CASE ControllerUnpublish(c, v)
    BY <1>2, <2>8 DEF ControllerUnpublish, Start, NoCall
  <2>3. CASE ControllerPublish(c, v)
    BY <1>2, <2>3 DEF ControllerPublish, Start, NoCall
  <2>4. CASE NodePublish(c, v)
    BY <1>2, <2>4 DEF NodePublish, Start, NoCall
  <2>5. CASE NodeUnpublish(c, v)
    BY <1>2, <2>5 DEF NodeUnpublish, Start, NoCall
  <2>6. CASE NodeExpand(c, v)
    BY <1>2, <2>6 DEF NodeExpand, Start, NoCall
  <2>7. CASE NodeGetStats(c, v)
    BY <1>2, <2>7 DEF NodeGetStats, Start, NoCall
  <2> QED BY <1>1, <2>1, <2>2, <2>3, <2>4, <2>5, <2>6, <2>7, <2>8
<1> QED BY <1>3, <1>5, StartAgrees

(* Nobody works on a volume when its call has returned.                    *)
LEMMA ReturnAgrees ==
  ASSUME IInv, LInv, AInv, NEW c \in Calls, Return(c) PROVE AInv'
<1>1. /\ call[c].pc = "reply" /\ call'[c] = NoCall /\ UNCHANGED <<store, hostVars>>
      /\ \A d \in Calls \ {c} : call'[d] = call[d]
  BY DEF Return, IInv, TypeOK
<1>2. /\ NoCall.vol = None /\ NoCall.op = None /\ NoCall.pc = "idle" /\ NoCall.code = None
      /\ None \notin Operation \cup Code
  BY CallAssumption DEF NoCall
<1>3. ASSUME NEW u \in Volumes
      PROVE  /\ Idle(u)' => Agree(store[u], disk, loops, mounts, u, NoCall)
             /\ \A d \in Calls : call'[d].vol = u =>
                  Agree(store[u], disk, loops, mounts, u, call'[d])
  <2>1. ASSUME call[c].vol = u PROVE Agree(store[u], disk, loops, mounts, u, NoCall)
    <3>1. Agree(store[u], disk, loops, mounts, u, call[c])
      BY <2>1 DEF AInv
    <3>2. TaskMatch(mounts, u, store[u], NoCall)
      BY <1>2 DEF TaskMatch, Placed, Told, TargetMade, Operation, Code
    <3> QED BY <1>1, <1>2, <3>1, <3>2, QuietAgree DEF Busy
  <2>2. ASSUME call[c].vol # u, Idle(u)' PROVE Idle(u)
    BY <1>1, <2>2 DEF Idle
  <2>3. \A d \in Calls : call'[d].vol = u => d # c
    BY <1>1, <1>2, NoneAssumption
  <2> QED BY <1>1, <2>1, <2>2, <2>3 DEF AInv
<1>4. \A d \in Calls : call'[d].vol = None => call'[d] = NoCall
  BY <1>1 DEF AInv
<1> QED BY <1>1, <1>3, <1>4 DEF AInv, hostVars

-------------------------------------------------------------------------------

LEMMA InitAgrees == Init => AInv
<1> SUFFICES ASSUME Init PROVE AInv
  OBVIOUS
<1>1. /\ NoCall.vol = None /\ NoCall.op = None /\ NoCall.pc = "idle" /\ NoCall.code = None
      /\ None \notin Operation \cup Code
  BY CallAssumption DEF NoCall
<1>2. \A c \in Calls : call[c] = NoCall
  BY DEF Init, CallInit
<1>3. ASSUME NEW v \in Volumes
      PROVE  Agree(store[v], disk, loops, mounts, v, NoCall)
  <2>1. store[v] = None /\ Effective(NoCall, None) = None /\ Held(NoCall) = {}
    BY <1>1, <1>3 DEF Init, StoreInit, Effective, Held
  <2>2. MountsMatch(mounts, v, None)
    BY <1>3 DEF Init, HostInit, MountsMatch, NoTarget, On
  <2>3. DevicesMatch(loops, v, None, {})
    BY <1>3, NoneAssumption DEF Init, HostInit, DevicesMatch, FreeDevice, On
  <2>4. FilesMatch(disk, v, None, NoCall)
    BY <1>1, <1>3 DEF Init, HostInit, FilesMatch, NoFile, On
  <2>5. Mountable(None) /\ TaskMatch(mounts, v, None, NoCall)
    BY <1>1 DEF Mountable, TaskMatch, Placed, Told, TargetMade, Operation, Code
  <2> QED BY <2>1, <2>2, <2>3, <2>4, <2>5 DEF Agree, HostMatch
<1> QED BY <1>1, <1>2, <1>3, NoneAssumption DEF AInv

LEMMA NextAgrees == Undisturbed /\ IInv /\ LInv /\ AInv /\ [Next]_vars => AInv'
<1> SUFFICES ASSUME Undisturbed, IInv, LInv, AInv, [Next]_vars PROVE AInv'
  OBVIOUS
<1>1. ASSUME NEW c \in Calls, Request(c) PROVE AInv'
  BY <1>1, RequestAgrees
<1>2. ASSUME NEW c \in Calls, ControllerStep(c) PROVE AInv'
  BY <1>2, CreateVolumeAgrees, DeleteVolumeAgrees, ControllerPublishAgrees
     DEF ControllerStep
<1>3. ASSUME NEW c \in Calls, NodeStep(c) PROVE AInv'
  BY <1>3, NodePublishAgrees, NodeUnpublishAgrees, NodeExpandAgrees, NodeGetStatsAgrees
     DEF NodeStep
<1>4. ASSUME NEW c \in Calls, Return(c) PROVE AInv'
  BY <1>4, ReturnAgrees
<1>5. CASE UNCHANGED vars
  BY <1>5 DEF vars, AInv, Idle
<1>6. /\ \A c \in Calls : ~Fail(c) /\ ~Cancel(c)
      /\ \A n \in Nodes : ~Reboot(n)
  BY DEF Undisturbed, Fail, Cancel, Reboot
<1> QED BY <1>1, <1>2, <1>3, <1>4, <1>5, <1>6 DEF Next

(* With one call in flight per volume, no fault and no size of 0, host and *)
(* records agree at every await, up to what the task is in the middle of.  *)
THEOREM Agreement == Undisturbed => (Spec => []AInv)
<1> SUFFICES ASSUME Undisturbed PROVE Spec => []AInv
  OBVIOUS
<1>1. Init => AInv
  BY InitAgrees
<1>2. IInv /\ LInv /\ AInv /\ [Next]_vars => AInv'
  BY NextAgrees
<1>3. Spec => []LInv
  BY CopiesInSync DEF Undisturbed
<1> QED BY <1>1, <1>2, <1>3, Soundness, PTL DEF Spec

-------------------------------------------------------------------------------
(* What the CO sees of it.                                                 *)

(* Between calls there is nothing but the record.                          *)
LEMMA IdleAgrees ==
  ASSUME AInv, NEW v \in Volumes, Idle(v)
  PROVE  /\ MountsMatch(mounts, v, store[v]) /\ DevicesMatch(loops, v, store[v], {})
         /\ FilesMatch(disk, v, store[v], NoCall) /\ Mountable(store[v])
<1>1. Agree(store[v], disk, loops, mounts, v, NoCall)
  BY DEF AInv
<1>2. NoCall.pc = "idle"
  BY DEF NoCall
<1> QED BY <1>1, <1>2, QuietEffective DEF Agree, HostMatch, Busy

(* Between calls a volume is mounted at the target paths of its record, on *)
(* its node, and nowhere else: at any number of targets and nodes.         *)
THEOREM MountedAsRecorded == Undisturbed => (Spec => []MountsAgree)
<1>1. AInv => MountsAgree
  BY IdleAgrees DEF MountsAgree, MountsMatch, OnNode, Exists, On
<1> QED BY <1>1, Agreement, PTL

(* Between calls no loop device is left behind and none is missing.        *)
THEOREM AttachedAsRecorded == Undisturbed => (Spec => []DevicesAgree)
<1>1. AInv => DevicesAgree
  BY IdleAgrees DEF DevicesAgree, DevicesMatch, OnNode, Exists, On
<1> QED BY <1>1, Agreement, PTL

(* Between calls a volume has its file on its node only, and none is left  *)
(* of a deleted volume.                                                    *)
THEOREM StoredAsRecorded == Undisturbed => (Spec => []FilesAgree)
<1>1. NoCall.pc = "idle"
  BY DEF NoCall
<1>2. AInv => FilesAgree
  BY <1>1, IdleAgrees DEF FilesAgree, FilesMatch, OnNode, Exists, On
<1> QED BY <1>2, Agreement, PTL

(* Between calls a volume in use has the size of its record.               *)
THEOREM SizedAsRecorded == Undisturbed => (Spec => []CapacityBacked)
<1>1. NoCall.pc = "idle"
  BY DEF NoCall
<1>2. ASSUME IInv, AInv, NEW n \in Nodes, NEW v \in Volumes, Idle(v), OnNode(v, n),
             store[v].state = "NodePublished"
      PROVE  disk[n][v] = [exists |-> TRUE, size |-> store[v].size, fs |-> store[v].size]
  <2>1. store[v].mount_paths # {} /\ On(store[v], n)
    BY <1>2 DEF IInv, RecordIntegrity, OnNode, Exists, WellFormed, On
  <2>2. store[v].filesystem # "Bind"
    BY <1>2, <2>1, IdleAgrees DEF Mountable, On
  <2>3. disk[n][v].exists /\ disk[n][v].fs = store[v].size /\ disk[n][v].size = store[v].size
    BY <1>1, <1>2, <2>1, <2>2, IdleAgrees DEF FilesMatch
  <2>4. disk[n][v] \in BackingFile
    BY <1>2 DEF IInv, TypeOK, HostTypeOK
  <2> QED BY <2>3, <2>4 DEF BackingFile
<1>3. IInv /\ AInv => CapacityBacked
  BY <1>2 DEF CapacityBacked
<1> QED BY <1>3, Agreement, Soundness, PTL

(* A volume that is published readonly is writable at no target, at any    *)
(* moment: a record that is about to change its readonly has no targets.   *)
THEOREM ReadonlyKept == Undisturbed => (Spec => []ReadonlyHonoured)
<1>1. ASSUME IInv, LInv, AInv, NEW n \in Nodes, NEW v \in Volumes, NEW t \in Targets,
             Exists(v), store[v].published_readonly, mounts[n][v][t].shows = v
      PROVE  mounts[n][v][t].ro
  <2> DEFINE s == store[v]
  <2>1. s # None
    BY <1>1 DEF Exists
  <2>2. CASE Idle(v)
    BY <1>1, <2>1, <2>2, IdleAgrees DEF MountsMatch
  <2>3. ASSUME NEW c \in Calls, call[c].vol = v PROVE mounts[n][v][t].ro
    <3> DEFINE q == call[c]
               r == Effective(q, s)
    <3>1. MountsMatch(mounts, v, r)
      BY <1>1, <2>3 DEF AInv, Agree, HostMatch
    <3>2. CASE r = s
      BY <1>1, <2>1, <3>1, <3>2 DEF MountsMatch
    <3>3. CASE r # s
      <4>1. q.pc \in {"assign", "unloop", "patch"} /\ r = q.rec
        BY <3>3 DEF Effective
      <4>2. r \in Volume /\ WellFormed(r) /\ Legal(s, r)
        BY <1>1, <2>3, <4>1, TaskBefore DEF TaskSound, Publishing, LInv, InSync, Sync, Writing
      <4>3. r # None
        BY <4>2, NoRecordAssumption
      <4> HIDE DEF r
      <4>4. r.mount_paths # {}
        BY <1>1, <3>1, NoneAssumption DEF MountsMatch
      <4>5. r.state = "NodePublished"
        BY <4>2, <4>4 DEF WellFormed
      <4>6. SamePublication(s, r)
        BY <3>3, <4>2, <4>5
           DEF Legal, Publication, Mounting, Remounting, Assignment, Growth
      <4> QED BY <1>1, <3>1, <4>3, <4>6 DEF MountsMatch, SamePublication
    <3> QED BY <3>2, <3>3
  <2> QED BY <2>2, <2>3 DEF Idle
<1>2. IInv /\ LInv /\ AInv => ReadonlyHonoured
  BY <1>1 DEF ReadonlyHonoured
<1> SUFFICES ASSUME Undisturbed PROVE Spec => []ReadonlyHonoured
  OBVIOUS
<1>3. Spec => []LInv
  BY CopiesInSync DEF Undisturbed
<1> QED BY <1>2, <1>3, Agreement, Soundness, PTL

(* What an OK says is so when it is given.                                 *)
THEOREM AnswersKept == Undisturbed => (Spec => []AnswersTrue)
<1>1. ASSUME IInv, AInv, NEW c \in Calls, call[c].code = "OK"
      PROVE  LET q == call[c]
             IN  /\ (q.op = "NodePublish" \/ (q.op = "NodeGetStats" /\ OnNode(q.vol, q.node))) =>
                      mounts[q.node][q.vol][q.target].shows = q.vol
                 /\ q.op = "NodeUnpublish" => mounts[q.node][q.vol][q.target].shows = None
                 /\ q.op = "DeleteVolume" =>
                      /\ ~Exists(q.vol)
                      /\ \A n \in Nodes : ~disk[n][q.vol].exists
  <2> DEFINE q == call[c]
             v == q.vol
             s == store[v]
  <2>1. q \in Call /\ TaskSound(q)
    BY <1>1, TaskBefore
  <2>2. v \in Volumes
    <3>1. NoCall.code # "OK"
      BY CallAssumption DEF NoCall, Code
    <3>2. v # None
      BY <1>1, <3>1 DEF AInv
    <3> QED BY <2>1, <3>2 DEF Call
  <2>3. Agree(s, disk, loops, mounts, v, q)
    BY <1>1, <2>2 DEF AInv
  <2>4. q.pc = "reply"
    BY <1>1, <2>3, CallAssumption DEF Agree, TaskMatch, Told, Code
  <2>5. /\ MountsMatch(mounts, v, s) /\ FilesMatch(disk, v, s, q) /\ Told(q, s)
    BY <2>3, <2>4, QuietEffective DEF Agree, HostMatch, TaskMatch, Busy
  <2>6. q.op \in {"NodePublish", "NodeUnpublish", "NodeGetStats"} =>
          q.node \in Nodes /\ q.target \in Targets
    BY <2>1 DEF TaskSound
  <2>7. CASE q.op = "NodePublish"
    BY <1>1, <2>5, <2>6, <2>7 DEF Told, MountsMatch
  <2>8. CASE q.op = "NodeGetStats"
    BY <1>1, <2>5, <2>6, <2>8 DEF Told, MountsMatch, OnNode, Exists, On
  <2>9. CASE q.op = "NodeUnpublish"
    BY <1>1, <2>5, <2>6, <2>9 DEF Told, MountsMatch
  <2>10. CASE q.op = "DeleteVolume"
    <3>1. s = None
      BY <1>1, <2>5, <2>10 DEF Told
    <3> QED BY <2>4, <2>5, <2>10, <3>1 DEF FilesMatch, On, Exists
  <2> QED BY <2>7, <2>8, <2>9, <2>10
<1>2. IInv /\ AInv => AnswersTrue
  BY <1>1 DEF AnswersTrue
<1> QED BY <1>2, Agreement, Soundness, PTL
===============================================================================
