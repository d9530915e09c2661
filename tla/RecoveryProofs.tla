---------------------------- MODULE RecoveryProofs ----------------------------
(***************************************************************************)
(* What the CO of module Recovery believes is so, for any number of        *)
(* volumes, calls, devices and faults.                                     *)
(*                                                                         *)
(* The agreement of AgreementProofs is too much to ask of a node where     *)
(* calls are cut off: an attempt leaves a file, or a device, that no       *)
(* record tells of.  What stays true is one direction: all that a record   *)
(* says is so on the node (Backed), in the store but while a NodeUnpublish *)
(* is between umount and its write, and in every copy that a task is about *)
(* to write.  What is left behind does no harm, since a device is only     *)
(* taken when it is free or has the file of the volume already.            *)
(***************************************************************************)
EXTENDS Recovery, AgreementProofs

(* The call that the CO has in flight while a volume is in stage s.        *)
AskedFor(op, s) ==
  \/ s = "create"  /\ op = "CreateVolume"
  \/ s = "attach"  /\ op = "ControllerPublish"
  \/ s = "mount"   /\ op = "NodePublish"
  \/ s = "expand"  /\ op = "NodeExpand"
  \/ s = "unmount" /\ op = "NodeUnpublish"
  \/ s = "detach"  /\ op = "ControllerUnpublish"
  \/ s = "delete"  /\ op = "DeleteVolume"

(* What record r of volume v tells of loop devices l and mounts m is so.   *)
Backed(l, m, v, r) ==
  r # None =>
    \A n \in Nodes :
      /\ \A t \in Targets : t \in r.mount_paths => m[n][v][t].shows = v
      /\ \A d \in Devices : r.loop_device = d => l[n][d].file = v

Unmounting(q) == q.op = "NodeUnpublish" /\ q.pc \in {"unloop", "patch"}

(* What a task knows of the copy it carries, at the awaits of its handler. *)
Knows(q) ==
  /\ q.pc \in {"assign", "mount"} => q.op = "NodePublish"
  /\ q.pc \in {"unloop", "rmdir"} => q.op = "NodeUnpublish"
  /\ q.pc = "unloop" => q.rec.loop_device = None
  /\ q.pc \in {"truncate", "grow"} =>
       q.op = "NodeExpand" /\ q.rec.state = "NodePublished"
  /\ q.pc = "patch" =>
       \/ q.op = "NodeUnpublish"
       \/ q.op \in {"NodePublish", "NodeExpand"} /\ q.rec.state = "NodePublished"
       \/ /\ q.op \in {"ControllerPublish", "ControllerUnpublish"}
          /\ q.rec.state # "NodePublished"

(* What an OK says of the record s.                                        *)
Confirms(q, s) ==
  q.pc = "reply" /\ q.code = "OK" =>
    /\ q.op = "NodePublish" => s # None /\ s.state = "NodePublished"
    /\ q.op = "DeleteVolume" => s = None

(* The record s, the files f, the loop devices l and the mounts m of       *)
(* volume v, on which task q is at work.                                   *)
Sound(s, f, l, m, v, q) ==
  /\ ~Unmounting(q) => Backed(l, m, v, s)
  /\ q.pc \in Writing => Backed(l, m, v, q.rec)
  /\ q.pc \in {"mount", "unloop"} => l[q.node][q.dev].file = v
  /\ q.pc = "unloop" => \A t \in Targets : m[q.node][v][t].shows # v
  /\ s = None \/ q.pc = "delete" => \A n \in Nodes : ~f[n][v].exists
  /\ \A n \in Nodes, t \in Targets : m[n][v][t].shows \in {v, None, Deleted}
  /\ Knows(q) /\ Confirms(q, s)

InUse == {"used", "expand", "enlarged"}

StageTrue(v) ==
  /\ stage[v] \in InUse => Exists(v) /\ store[v].state = "NodePublished"
  /\ stage[v] = "gone" => ~Exists(v)

NoAutoclear == \A n \in Nodes, d \in Devices : ~loops[n][d].autoclear

BInv ==
  /\ stage \in [Volumes -> Stage]
  /\ NoAutoclear
  /\ \A v \in Volumes :
       /\ StageTrue(v)
       /\ Idle(v) => Sound(store[v], disk, loops, mounts, v, NoCall)
       /\ \A c \in Calls : call[c].vol = v =>
            /\ Sound(store[v], disk, loops, mounts, v, call[c])
            /\ AskedFor(call[c].op, stage[v])

LEMMA OneOfEach ==
  /\ \A m, n \in Nodes : m = n
  /\ \A s, t \in Targets : s = t
BY RecoveryAssumption

-------------------------------------------------------------------------------
(* A step leaves the volumes alone that its task does not work on.         *)

LEMMA UntouchedBacked ==
  ASSUME NEW u \in Volumes, NEW r, Untouched(u), Backed(loops, mounts, u, r)
  PROVE  Backed(loops', mounts', u, r)
BY DEF Untouched, Backed

LEMMA UntouchedSound ==
  ASSUME NEW u \in Volumes, NEW q, Sound(store[u], disk, loops, mounts, u, q), Untouched(u),
         q.pc \in {"mount", "unloop"} => q.node \in Nodes /\ q.dev \in Devices
  PROVE  Sound(store'[u], disk', loops', mounts', u, q)
<1>1. store'[u] = store[u] /\ \A n \in Nodes : disk'[n][u] = disk[n][u]
  BY DEF Untouched
<1>2. \A n \in Nodes, t \in Targets : mounts'[n][u][t].shows = mounts[n][u][t].shows
  BY DEF Untouched
<1>3. q.pc \in {"mount", "unloop"} => loops'[q.node][q.dev].file = u
  BY DEF Untouched, Sound
<1> QED BY <1>1, <1>2, <1>3, UntouchedBacked DEF Sound

LEMMA SoundStep ==
  ASSUME IInv, LInv, BInv, NEW c \in Calls, NEW v \in Volumes, call[c].vol = v,
         SameRequest(call[c], call'[c]), \A d \in Calls \ {c} : call'[d] = call[d],
         \A u \in Volumes \ {v} : Untouched(u), NoAutoclear', UNCHANGED stage,
         StageTrue(v)', Sound(store'[v], disk', loops', mounts', v, call'[c])
  PROVE  BInv'
<1>1. call'[c].vol = v /\ call'[c].op = call[c].op
  BY DEF SameRequest
<1> SUFFICES ASSUME NEW u \in Volumes
             PROVE  /\ StageTrue(u)'
                    /\ Idle(u)' => Sound(store'[u], disk', loops', mounts', u, NoCall)
                    /\ \A d \in Calls : call'[d].vol = u =>
                         /\ Sound(store'[u], disk', loops', mounts', u, call'[d])
                         /\ AskedFor(call'[d].op, stage'[u])
  BY DEF BInv
<1>2. CASE u = v
  <2>1. ~Idle(u)'
    BY <1>1, <1>2 DEF Idle
  <2>2. ASSUME NEW d \in Calls, call'[d].vol = u PROVE d = c
    BY <1>2, <2>2, NoneAssumption DEF LInv, OneCallPerVolume
  <2>3. AskedFor(call'[c].op, stage'[u])
    BY <1>1, <1>2 DEF BInv
  <2> QED BY <1>2, <2>1, <2>2, <2>3
<1>3. CASE u # v
  <2>0. Untouched(u)
    BY <1>3
  <2>1. Idle(u)' => Idle(u)
    BY <1>3 DEF Idle
  <2>2. NoCall.pc = "idle"
    BY DEF NoCall
  <2>3. Idle(u)' => Sound(store'[u], disk', loops', mounts', u, NoCall)
    BY <2>0, <2>1, <2>2, UntouchedSound DEF BInv
  <2>4. ASSUME NEW d \in Calls, call'[d].vol = u
        PROVE  /\ Sound(store'[u], disk', loops', mounts', u, call'[d])
               /\ AskedFor(call'[d].op, stage'[u])
    <3>1. d # c /\ call'[d] = call[d]
      BY <1>1, <1>3, <2>4
    <3>2. TaskSound(call[d]) /\ call[d].vol = u
      BY <2>4, <3>1, TaskBefore
    <3>3. Sound(store[u], disk, loops, mounts, u, call[d]) /\ AskedFor(call[d].op, stage[u])
      BY <3>2 DEF BInv
    <3>4. call[d].pc \in {"mount", "unloop"} => call[d].node \in Nodes /\ call[d].dev \in Devices
      BY <3>2, <3>3 DEF TaskSound, Sound, Knows
    <3> QED BY <2>0, <3>1, <3>3, <3>4, UntouchedSound
  <2>5. StageTrue(u)'
    BY <2>0 DEF BInv, StageTrue, Exists, Untouched
  <2> QED BY <2>3, <2>4, <2>5
<1> QED BY <1>2, <1>3

-------------------------------------------------------------------------------
(* What is known before a step of a task.                                  *)

LEMMA BeforeStep ==
  ASSUME IInv, LInv, BInv, NEW c \in Calls, call[c].pc \in Await
  PROVE  /\ call[c] \in Call /\ TaskSound(call[c]) /\ call[c].vol \in Volumes
         /\ Sync(call[c], store[call[c].vol])
         /\ Sound(store[call[c].vol], disk, loops, mounts, call[c].vol, call[c])
         /\ AskedFor(call[c].op, stage[call[c].vol]) /\ StageTrue(call[c].vol)
         /\ store[call[c].vol] # None =>
              store[call[c].vol] \in Volume /\ WellFormed(store[call[c].vol])
         /\ Loaded(c) = store[call[c].vol]
<1>1. call[c] \in Call /\ TaskSound(call[c]) /\ call[c].vol \in Volumes
  BY TaskBefore DEF TaskSound
<1>2. Sync(call[c], store[call[c].vol])
  BY DEF LInv, InSync
<1>3. /\ Sound(store[call[c].vol], disk, loops, mounts, call[c].vol, call[c])
      /\ AskedFor(call[c].op, stage[call[c].vol]) /\ StageTrue(call[c].vol)
  BY <1>1 DEF BInv
<1> QED BY <1>1, <1>2, <1>3, LoadedSound DEF Loaded

(* A record that is not published on a node says nothing of the node.      *)
LEMMA UnpublishedBacked ==
  ASSUME NEW r \in Volume, WellFormed(r), r.state # "NodePublished", NEW l, NEW m, NEW v
  PROVE  Backed(l, m, v, r)
BY NoneAssumption DEF WellFormed, Backed

-------------------------------------------------------------------------------
(* Steps that change nothing but the task.                                 *)

LEMMA SilentStep ==
  ASSUME IInv, LInv, BInv, NEW c \in Calls, call[c].pc \in Await,
         UNCHANGED <<store, hostVars, stage>>,
         SameRequest(call[c], call'[c]), \A d \in Calls \ {c} : call'[d] = call[d],
         Sound(store[call[c].vol], disk, loops, mounts, call[c].vol, call'[c])
  PROVE  BInv'
<1>1. PICK v \in Volumes : v = call[c].vol /\ StageTrue(v)
  BY BeforeStep
<1>2. StageTrue(v)'
  BY <1>1 DEF StageTrue, Exists
<1>3. NoAutoclear'
  BY DEF NoAutoclear, BInv, hostVars
<1>4. \A u \in Volumes \ {v} : Untouched(u)
  BY UnchangedUntouched
<1>5. Sound(store'[v], disk', loops', mounts', v, call'[c])
  BY <1>1 DEF hostVars
<1> QED BY <1>1, <1>2, <1>3, <1>4, <1>5, SoundStep

(* The awaits at which a task carries nothing that the host has to bear    *)
(* out.                                                                    *)
Light == Await \ (Writing \cup {"mount", "delete", "rmdir"})

LEMMA LightSound ==
  ASSUME NEW s, NEW v, NEW q, NEW p, Sound(s, disk, loops, mounts, v, q), ~Unmounting(q),
         p.pc \in Light
  PROVE  Sound(s, disk, loops, mounts, v, p)
<1>1. p.pc \notin Writing \cup {"mount", "delete", "rmdir", "reply"}
  BY NotAwaiting DEF Light
<1>2. Knows(p) /\ Confirms(p, s) /\ ~Unmounting(p)
  BY <1>1 DEF Knows, Confirms, Unmounting, Writing
<1> QED BY <1>1, <1>2 DEF Sound, Writing

(* A handler that goes on and changes nothing.                             *)
LEMMA SilentGoto ==
  ASSUME IInv, LInv, BInv, NEW c \in Calls, call[c].pc \in Await, NEW pc \in Light,
         Goto(c, pc), ~Unmounting(call[c]), UNCHANGED <<store, hostVars, stage>>
  PROVE  BInv'
<1>1. /\ SameRequest(call[c], call'[c]) /\ call'[c].pc = pc
      /\ \A d \in Calls \ {c} : call'[d] = call[d]
  BY GotoFields
<1> QED BY <1>1, BeforeStep, LightSound, SilentStep

(* A handler that answers and changes nothing.                             *)
LEMMA SilentReply ==
  ASSUME IInv, LInv, BInv, NEW c \in Calls, call[c].pc \in Await, NEW code,
         Reply(c, code), ~Unmounting(call[c]), UNCHANGED <<store, hostVars, stage>>,
         Confirms([call[c] EXCEPT !.pc = "reply", !.code = code], store[call[c].vol])
  PROVE  BInv'
<1> DEFINE q == call[c]
           p == call'[c]
           s == store[q.vol]
<1>1. /\ SameRequest(q, p) /\ p.pc = "reply" /\ p.code = code
      /\ \A d \in Calls \ {c} : call'[d] = call[d]
  BY ReplyFields
<1>2. q \in Call /\ Sound(s, disk, loops, mounts, q.vol, q)
  BY BeforeStep
<1>3. Confirms(p, s) /\ Knows(p) /\ ~Unmounting(p)
  BY <1>1, <1>2 DEF Confirms, Knows, Unmounting, SameRequest, Call
<1>4. Sound(s, disk, loops, mounts, q.vol, p)
  BY <1>1, <1>2, <1>3 DEF Sound, Writing
<1> QED BY <1>1, <1>4, SilentStep

LEMMA SilentRefusal ==
  ASSUME IInv, LInv, BInv, NEW c \in Calls, call[c].pc \in Await, NEW code, code # "OK",
         Reply(c, code), ~Unmounting(call[c]), UNCHANGED <<store, hostVars, stage>>
  PROVE  BInv'
<1>1. [call[c] EXCEPT !.pc = "reply", !.code = code].code = code
  BY TaskBefore DEF Call
<1>2. Confirms([call[c] EXCEPT !.pc = "reply", !.code = code], store[call[c].vol])
  BY <1>1 DEF Confirms
<1> QED BY <1>2, SilentReply

(* After a load: an early return, or a task that goes on.                  *)
LEMMA DecideSound ==
  ASSUME IInv, LInv, BInv, NEW c \in Calls, call[c].pc = "load",
         NEW verdict, NEW pc, NEW rec, Decide(c, verdict, pc, rec), UNCHANGED stage,
         verdict = "OK" =>
           /\ call[c].op = "NodePublish" =>
                store[call[c].vol] # None /\ store[call[c].vol].state = "NodePublished"
           /\ call[c].op = "DeleteVolume" => store[call[c].vol] = None,
         verdict = "Proceed" =>
           \/ pc \in Light
           \/ /\ pc \in {"truncate", "patch"}
              /\ Backed(loops, mounts, call[c].vol, rec)
              /\ Knows([call[c] EXCEPT !.pc = pc, !.rec = rec])
              /\ call[c].op # "NodeUnpublish"
  PROVE  BInv'
<1> DEFINE q == call[c]
           p == call'[c]
           s == store[q.vol]
<1>1. q.pc \in Await /\ ~Unmounting(q)
  BY DEF Await, Unmounting
<1>2. q \in Call /\ Sound(s, disk, loops, mounts, q.vol, q)
  BY <1>1, BeforeStep
<1>3. CASE verdict = "Proceed"
  <2>1. Hold(c, pc, rec) /\ UNCHANGED <<store, hostVars>>
    BY <1>3 DEF Decide
  <2>2. /\ SameRequest(q, p) /\ p.pc = pc /\ p.rec = rec
        /\ \A d \in Calls \ {c} : call'[d] = call[d]
    BY <2>1, HoldFields
  <2>3. p = [q EXCEPT !.pc = pc, !.rec = rec]
    BY <2>1 DEF Hold, IInv, TypeOK
  <2>4. CASE pc \in Light
    BY <1>1, <1>2, <2>1, <2>2, <2>4, LightSound, SilentStep
  <2>5. CASE pc \notin Light
    <3>1. /\ pc \in {"truncate", "patch"} /\ Backed(loops, mounts, q.vol, rec) /\ Knows(p)
          /\ q.op # "NodeUnpublish"
      BY <1>3, <2>3, <2>5
    <3>2. ~Unmounting(p) /\ Confirms(p, s)
      BY <2>2, <3>1 DEF Unmounting, Confirms, SameRequest
    <3>3. Sound(s, disk, loops, mounts, q.vol, p)
      BY <1>1, <1>2, <2>2, <3>1, <3>2 DEF Sound
    <3> QED BY <1>1, <2>1, <2>2, <3>3, SilentStep
  <2> QED BY <2>4, <2>5
<1>4. CASE verdict # "Proceed"
  <2>1. Reply(c, verdict) /\ UNCHANGED <<store, hostVars>>
    BY <1>4 DEF Decide
  <2>2. Confirms([q EXCEPT !.pc = "reply", !.code = verdict], s)
    BY <1>2 DEF Confirms, Call
  <2> QED BY <1>1, <2>1, <2>2, SilentReply
<1> QED BY <1>3, <1>4

-------------------------------------------------------------------------------
(* Writes to the store.                                                    *)

LEMMA StoreStep ==
  ASSUME IInv, LInv, BInv, NEW c \in Calls, call[c].pc \in Await,
         NEW v \in Volumes, v = call[c].vol, NEW r,
         store' = [store EXCEPT ![v] = r], UNCHANGED <<hostVars, stage>>,
         SameRequest(call[c], call'[c]), \A d \in Calls \ {c} : call'[d] = call[d],
         StageTrue(v)', Sound(r, disk, loops, mounts, v, call'[c])
  PROVE  BInv'
<1>1. store'[v] = r /\ \A u \in Volumes \ {v} : store'[u] = store[u]
  BY DEF IInv, TypeOK
<1>2. NoAutoclear'
  BY DEF NoAutoclear, BInv, hostVars
<1>3. \A u \in Volumes \ {v} : Untouched(u)
  BY <1>1 DEF Untouched, hostVars
<1>4. Sound(store'[v], disk', loops', mounts', v, call'[c])
  BY <1>1 DEF hostVars
<1> QED BY <1>2, <1>3, <1>4, SoundStep

(* The copy a task carries becomes the record.                             *)
LEMMA WriteSound ==
  ASSUME IInv, LInv, BInv, NEW c \in Calls, call[c].pc \in {"assign", "patch"},
         UNCHANGED stage,
         \/ Update(c, Reply(c, "OK")) /\ call[c].pc = "patch"
         \/ Update(c, Goto(c, "rmdir")) /\ call[c].op = "NodeUnpublish"
         \/ Update(c, Goto(c, "losetup")) /\ call[c].pc = "assign"
  PROVE  BInv'
<1> DEFINE q == call[c]
           p == call'[c]
           r == q.rec
<1>1. q.pc \in Await
  BY DEF Await
<1>2. PICK v \in Volumes : v = q.vol
  BY <1>1, BeforeStep
<1>3. /\ q \in Call /\ TaskSound(q) /\ Sound(store[v], disk, loops, mounts, v, q)
      /\ AskedFor(q.op, stage[v]) /\ StageTrue(v)
  BY <1>1, <1>2, BeforeStep
<1>4. r \in Volume /\ r # None /\ WellFormed(r)
  BY <1>3, NoRecordAssumption DEF TaskSound, Publishing
<1>5. /\ store' = [store EXCEPT ![v] = r] /\ UNCHANGED hostVars
      /\ \/ Reply(c, "OK") /\ q.pc = "patch"
         \/ Goto(c, "rmdir") /\ q.op = "NodeUnpublish"
         \/ Goto(c, "losetup") /\ q.pc = "assign"
  BY <1>2, NotRefused DEF Update, Patch, Writing
<1>6. /\ SameRequest(q, p) /\ \A d \in Calls \ {c} : call'[d] = call[d]
      /\ \/ p.pc = "reply" /\ q.pc = "patch"
         \/ p.pc = "rmdir" /\ q.op = "NodeUnpublish"
         \/ p.pc = "losetup" /\ q.pc = "assign"
  BY <1>5, ReplyFields, GotoFields
<1>7. Knows(p) /\ ~Unmounting(p)
  BY <1>6 DEF Knows, Unmounting, SameRequest
<1>8. Confirms(p, r)
  BY <1>3, <1>4, <1>6 DEF Confirms, Sound, Knows, SameRequest
<1>9. Sound(r, disk, loops, mounts, v, p)
  <2>1. Backed(loops, mounts, v, r)
    BY <1>3 DEF Sound, Writing
  <2>2. p.pc \notin Writing \cup {"mount", "unloop", "delete"}
    BY <1>6 DEF Writing
  <2> HIDE DEF r, p, q
  <2> QED BY <1>3, <1>4, <1>7, <1>8, <2>1, <2>2 DEF Sound
<1>10. StageTrue(v)'
  <2>1. store'[v] = r /\ stage'[v] = stage[v]
    BY <1>5 DEF IInv, TypeOK
  <2>2. stage[v] # "gone"
    BY <1>3 DEF AskedFor
  <2>3. stage[v] \in InUse => r.state = "NodePublished"
    BY <1>3 DEF AskedFor, InUse, Sound, Knows
  <2> QED BY <1>4, <2>1, <2>2, <2>3 DEF StageTrue, Exists
<1> QED BY <1>1, <1>2, <1>5, <1>6, <1>9, <1>10, StoreStep

-------------------------------------------------------------------------------
(* The controller.                                                         *)

LEMMA CreateVolumeSound ==
  ASSUME IInv, LInv, BInv, NEW c \in Calls, UNCHANGED stage,
         CreateVolumeGet(c) \/ CreateVolumePost(c) \/ CreateVolumeLoad(c)
  PROVE  BInv'
<1> DEFINE q == call[c]
           p == call'[c]
<1>1. q.op = "CreateVolume" /\ q.pc \in {"get", "post", "load"} /\ q.pc \in Await
  BY DEF CreateVolumeGet, CreateVolumePost, CreateVolumeLoad, At, Await
<1>2. PICK v \in Volumes : v = q.vol
  BY <1>1, BeforeStep
<1>3. /\ q \in Call /\ TaskSound(q) /\ Sound(store[v], disk, loops, mounts, v, q)
      /\ AskedFor(q.op, stage[v]) /\ StageTrue(v) /\ ~Unmounting(q)
  BY <1>1, <1>2, BeforeStep DEF Unmounting
<1>4. [q EXCEPT !.pc = "reply", !.code = "OK"].op = q.op
  BY <1>3 DEF Call
<1>5. Confirms([q EXCEPT !.pc = "reply", !.code = "OK"], store[v])
  BY <1>1, <1>4 DEF Confirms
<1>6. CASE CreateVolumeGet(c)
  <2>1. "load" \in Light /\ "post" \in Light
    BY DEF Light, Await, Writing
  <2> QED BY <1>1, <1>3, <1>6, <2>1, SilentGoto DEF CreateVolumeGet
<1>7. CASE CreateVolumeLoad(c)
  BY <1>1, <1>2, <1>3, <1>5, <1>7, SilentReply, SilentRefusal DEF CreateVolumeLoad
<1>8. CASE Post(v, Requested(c)) /\ Reply(c, "OK") /\ UNCHANGED hostVars
  <2> DEFINE r == Requested(c)
  <2>1. r \in Volume /\ WellFormed(r) /\ r.state = "Open" /\ r # None
    <3>1. r \in Volume /\ WellFormed(r)
      BY <1>1, <1>3, NewVolumeSound DEF Requested, TaskSound, Call
    <3> QED BY <3>1, NoRecordAssumption DEF Requested, NewVolume
  <2>2. store' = [store EXCEPT ![v] = r]
    BY <1>8 DEF Post
  <2> HIDE DEF r
  <2>3. Backed(loops, mounts, v, r)
    BY <2>1, UnpublishedBacked
  <2>4. /\ SameRequest(q, p) /\ p.pc = "reply"
        /\ \A d \in Calls \ {c} : call'[d] = call[d]
    BY <1>8, ReplyFields
  <2>5. Knows(p) /\ Confirms(p, r)
    BY <1>1, <2>4 DEF Knows, Confirms, SameRequest
  <2>6. Sound(r, disk, loops, mounts, v, p)
    BY <1>3, <2>1, <2>3, <2>4, <2>5 DEF Sound, Writing
  <2>7. StageTrue(v)'
    <3>1. stage[v] = "create"
      BY <1>1, <1>3 DEF AskedFor
    <3> QED BY <3>1 DEF StageTrue, InUse
  <2> QED BY <1>1, <1>2, <1>8, <2>2, <2>4, <2>6, <2>7, StoreStep
<1>9. CASE Reply(c, "Internal") /\ UNCHANGED <<store, hostVars>>
  BY <1>1, <1>3, <1>9, SilentRefusal
<1> QED BY <1>2, <1>6, <1>7, <1>8, <1>9 DEF CreateVolumePost

LEMMA PublicationSound ==
  ASSUME IInv, LInv, BInv, NEW c \in Calls, UNCHANGED stage,
         \/ ControllerPublishLoad(c) \/ ControllerPublishPatch(c)
         \/ ControllerUnpublishLoad(c) \/ ControllerUnpublishPatch(c)
  PROVE  BInv'
<1> DEFINE q == call[c]
           s == store[q.vol]
<1>1. /\ q.op \in {"ControllerPublish", "ControllerUnpublish"}
      /\ q.pc \in {"load", "patch"} /\ q.pc \in Await
  BY DEF ControllerPublishLoad, ControllerPublishPatch, ControllerUnpublishLoad,
         ControllerUnpublishPatch, At, Await
<1>2. /\ q \in Call /\ TaskSound(q) /\ Loaded(c) = s
      /\ s # None => s \in Volume /\ WellFormed(s)
  BY <1>1, BeforeStep
<1>3. CASE ControllerPublishPatch(c) \/ ControllerUnpublishPatch(c)
  BY <1>3, WriteSound DEF ControllerPublishPatch, ControllerUnpublishPatch, At
<1>4. ASSUME NEW verdict, NEW rec, q.pc = "load", Decide(c, verdict, "patch", rec),
             verdict = "Proceed" => rec \in Volume /\ WellFormed(rec)
                                    /\ rec.state # "NodePublished"
      PROVE  BInv'
  <2>1. ASSUME verdict = "Proceed"
        PROVE  /\ Backed(loops, mounts, q.vol, rec)
               /\ Knows([q EXCEPT !.pc = "patch", !.rec = rec])
    <3>1. LET p == [q EXCEPT !.pc = "patch", !.rec = rec]
          IN  p.pc = "patch" /\ p.op = q.op /\ p.rec = rec
      BY <1>2 DEF Call
    <3>2. Knows([q EXCEPT !.pc = "patch", !.rec = rec])
      BY <1>1, <1>4, <2>1, <3>1 DEF Knows
    <3> QED BY <1>4, <2>1, <3>2, UnpublishedBacked
  <2> QED BY <1>1, <1>4, <2>1, DecideSound
<1>5. CASE ControllerPublishLoad(c)
  <2>1. q.pc = "load" /\ Decide(c, ControllerPublishVerdict(q, s), "patch", ControllerPublished(s, q))
    BY <1>2, <1>5 DEF ControllerPublishLoad, At
  <2>2. ASSUME ControllerPublishVerdict(q, s) = "Proceed"
        PROVE  s # None /\ s.state = "Open" /\ q.config \in s.valid_configs
    BY <1>2, <2>2 DEF ControllerPublishVerdict, Volume, VolumeState
  <2>3. ControllerPublished(s, q).state # "NodePublished" \/ s = None
    BY <1>2 DEF ControllerPublished, Volume
  <2> QED BY <1>2, <1>4, <2>1, <2>2, <2>3, ControllerPublishedSound
<1>6. CASE ControllerUnpublishLoad(c)
  <2>1. q.pc = "load" /\ Decide(c, ControllerUnpublishVerdict(s), "patch", ControllerUnpublished(s))
    BY <1>2, <1>6 DEF ControllerUnpublishLoad, At
  <2>2. ASSUME ControllerUnpublishVerdict(s) = "Proceed"
        PROVE  s # None /\ s.state = "ControllerPublished"
    BY <1>2, <2>2 DEF ControllerUnpublishVerdict, Volume, VolumeState
  <2>3. ControllerUnpublished(s).state # "NodePublished" \/ s = None
    BY <1>2 DEF ControllerUnpublished, Volume
  <2> QED BY <1>2, <1>4, <2>1, <2>2, <2>3, ControllerUnpublishedSound
<1> QED BY <1>3, <1>5, <1>6

(* The file goes, and with it what devices and mounts had of it.           *)
LEMMA UnlinkEffect ==
  ASSUME IInv, BInv, NEW n \in Nodes, NEW v \in Volumes, Unlink(n, v)
  PROVE  /\ \A m \in Nodes : ~disk'[m][v].exists
         /\ \A m \in Nodes, t \in Targets : mounts'[m][v][t].shows \in {v, None, Deleted}
         /\ NoAutoclear'
         /\ store' = store => \A u \in Volumes \ {v} : Untouched(u)
<1>1. Deleted # None /\ \A u \in Volumes : u # Deleted
  BY DeletedAssumption
<1>2. ASSUME NEW m \in Nodes PROVE m = n
  BY OneOfEach
<1>3. ASSUME NEW u \in Volumes, NEW t \in Targets
      PROVE  mounts[n][u][t].shows \in {u, None, Deleted}
  BY DEF BInv, Sound, Idle
<1>4. ~disk'[n][v].exists /\ \A u \in Volumes \ {v} : disk'[n][u] = disk[n][u]
  BY DEF Unlink, NoFile, IInv, TypeOK, HostTypeOK
<1>5. ASSUME NEW u \in Volumes, NEW t \in Targets
      PROVE  /\ mounts'[n][u][t].shows \in {mounts[n][u][t].shows, Deleted}
             /\ u # v => mounts'[n][u][t] = mounts[n][u][t]
  <2>1. mounts[n][u][t] \in TargetPath
    BY DEF IInv, TypeOK, HostTypeOK
  <2>2. mounts'[n][u][t] = IF mounts[n][u][t].shows = v
                           THEN [mounts[n][u][t] EXCEPT !.shows = Deleted] ELSE mounts[n][u][t]
    BY DEF Unlink, IInv, TypeOK, HostTypeOK
  <2>3. u # v => mounts[n][u][t].shows # v
    BY <1>1, <1>3, NoneAssumption
  <2> QED BY <2>1, <2>2, <2>3 DEF TargetPath
<1>6. ASSUME NEW d \in Devices
      PROVE  /\ loops'[n][d].autoclear = loops[n][d].autoclear
             /\ \A u \in Volumes \ {v} : loops'[n][d].file = u <=> loops[n][d].file = u
  <2>1. loops[n][d] \in LoopDevice
    BY DEF IInv, TypeOK, HostTypeOK
  <2>2. loops'[n][d] = IF loops[n][d].file = v
                       THEN [loops[n][d] EXCEPT !.file = Deleted] ELSE loops[n][d]
    BY DEF Unlink, IInv, TypeOK, HostTypeOK
  <2> QED BY <1>1, <2>1, <2>2 DEF LoopDevice
<1>7. NoAutoclear'
  BY <1>2, <1>6 DEF NoAutoclear, BInv
<1>8. ASSUME store' = store, NEW u \in Volumes \ {v} PROVE Untouched(u)
  BY <1>2, <1>4, <1>5, <1>6, <1>8 DEF Untouched
<1>9. \A m \in Nodes, t \in Targets : mounts'[m][v][t].shows \in {v, None, Deleted}
  BY <1>2, <1>3, <1>5
<1> QED BY <1>2, <1>4, <1>7, <1>8, <1>9

LEMMA DeleteVolumeSound ==
  ASSUME IInv, LInv, BInv, NEW c \in Calls, UNCHANGED stage,
         DeleteVolumeLoad(c) \/ DeleteVolumeUnlink(c) \/ DeleteVolumeDelete(c)
  PROVE  BInv'
<1> DEFINE q == call[c]
           p == call'[c]
<1>1. q.op = "DeleteVolume" /\ q.pc \in {"load", "unlink", "delete"} /\ q.pc \in Await
  BY DEF DeleteVolumeLoad, DeleteVolumeUnlink, DeleteVolumeDelete, At, Await
<1>2. PICK v \in Volumes : v = q.vol
  BY <1>1, BeforeStep
<1> DEFINE s == store[v]
<1>3. /\ q \in Call /\ TaskSound(q) /\ Sync(q, s) /\ Sound(s, disk, loops, mounts, v, q)
      /\ stage[v] = "delete" /\ StageTrue(v) /\ ~Unmounting(q) /\ Loaded(c) = s
      /\ s # None => s \in Volume /\ WellFormed(s)
      /\ q.node \in Nodes
  BY <1>1, <1>2, BeforeStep DEF Unmounting, AskedFor, TaskSound
<1>4. CASE DeleteVolumeLoad(c)
  <2>1. q.pc = "load" /\ Decide(c, DeleteVerdict(s), "unlink", s)
    BY <1>3, <1>4 DEF DeleteVolumeLoad, At
  <2>2. DeleteVerdict(s) = "OK" => s = None
    BY DEF DeleteVerdict
  <2>3. "unlink" \in Light
    BY DEF Light, Await, Writing
  <2> QED BY <1>1, <1>2, <2>1, <2>2, <2>3, DecideSound
<1>5. CASE Unlink(q.node, v) /\ Goto(c, "delete") /\ UNCHANGED store /\ q.pc = "unlink"
  <2>1. /\ \A n \in Nodes : ~disk'[n][v].exists
        /\ \A n \in Nodes, t \in Targets : mounts'[n][v][t].shows \in {v, None, Deleted}
        /\ NoAutoclear' /\ \A u \in Volumes \ {v} : Untouched(u)
    BY <1>3, <1>5, UnlinkEffect
  <2>2. /\ SameRequest(q, p) /\ p.pc = "delete" /\ \A d \in Calls \ {c} : call'[d] = call[d]
    BY <1>5, GotoFields
  <2>3. Backed(loops', mounts', v, s)
    BY <1>3, <1>5, UnpublishedBacked DEF Sync
  <2>4. Knows(p) /\ Confirms(p, s)
    BY <2>2 DEF Knows, Confirms
  <2>5. Sound(store'[v], disk', loops', mounts', v, p)
    BY <1>5, <2>1, <2>2, <2>3, <2>4 DEF Sound, Writing
  <2>6. StageTrue(v)'
    BY <1>3 DEF StageTrue, InUse
  <2> QED BY <1>2, <2>1, <2>2, <2>5, <2>6, SoundStep
<1>6. CASE Reply(c, "Internal") /\ UNCHANGED <<store, hostVars>>
  BY <1>1, <1>3, <1>6, SilentRefusal
<1>7. CASE Remove(v) /\ Reply(c, "OK") /\ UNCHANGED hostVars /\ q.pc = "delete"
  <2>1. /\ SameRequest(q, p) /\ p.pc = "reply" /\ \A d \in Calls \ {c} : call'[d] = call[d]
    BY <1>7, ReplyFields
  <2>2. Knows(p) /\ Confirms(p, None)
    BY <1>1, <2>1 DEF Knows, Confirms, SameRequest
  <2>3. Sound(None, disk, loops, mounts, v, p)
    BY <1>3, <1>7, <2>1, <2>2 DEF Sound, Backed, Writing
  <2>4. store' = [store EXCEPT ![v] = None]
    BY <1>7 DEF Remove
  <2>5. StageTrue(v)'
    BY <1>3 DEF StageTrue, InUse
  <2> QED BY <1>1, <1>2, <1>7, <2>1, <2>3, <2>4, <2>5, StoreStep
<1> QED BY <1>1, <1>2, <1>4, <1>5, <1>6, <1>7 DEF DeleteVolumeUnlink, DeleteVolumeDelete, At

LEMMA ControllerSound ==
  ASSUME IInv, LInv, BInv, NEW c \in Calls, ControllerStep(c), UNCHANGED stage PROVE BInv'
BY CreateVolumeSound, DeleteVolumeSound, PublicationSound DEF ControllerStep

-------------------------------------------------------------------------------
(* NodePublish.                                                            *)

LEMMA SameStage ==
  ASSUME NEW v \in Volumes, StageTrue(v), UNCHANGED <<store, stage>>
  PROVE  StageTrue(v)'
BY DEF StageTrue, Exists

LEMMA LoopsKept == ASSUME BInv, UNCHANGED loops PROVE NoAutoclear'
BY DEF BInv, NoAutoclear

(* A file is changed, and is there afterwards.                             *)
LEMMA FileStep ==
  ASSUME IInv, LInv, BInv, NEW c \in Calls, call[c].pc \in Await,
         UNCHANGED <<store, loops, mounts, stage>>,
         SameRequest(call[c], call'[c]), \A d \in Calls \ {c} : call'[d] = call[d],
         NEW n \in Nodes, NEW v \in Volumes, v = call[c].vol, OtherFilesKept(n, v),
         store[v] # None, call'[c].pc # "delete",
         Sound(store[v], disk, loops, mounts, v, call'[c])
  PROVE  BInv'
<1>1. \A u \in Volumes \ {v} : Untouched(u)
  BY DEF Untouched, OtherFilesKept
<1>2. Sound(store'[v], disk', loops', mounts', v, call'[c])
  BY DEF Sound
<1>3. StageTrue(v)'
  BY BeforeStep, SameStage
<1> QED BY <1>1, <1>2, <1>3, LoopsKept, SoundStep

LEMMA PublishingBefore ==
  ASSUME IInv, LInv, BInv, NEW c \in Calls, call[c].op = "NodePublish",
         call[c].pc \in Preparing
  PROVE  LET q == call[c]
             s == store[q.vol]
         IN  /\ q.pc \in Await /\ q \in Call /\ TaskSound(q) /\ q.vol \in Volumes
             /\ q.node \in Nodes /\ q.target \in Targets
             /\ q.rec = s /\ s # None /\ s \in Volume /\ WellFormed(s) /\ Publishable(q)
             /\ Sound(s, disk, loops, mounts, q.vol, q) /\ Backed(loops, mounts, q.vol, s)
             /\ ~Unmounting(q) /\ StageTrue(q.vol)
<1>1. call[c].pc \in Await
  BY NotAwaiting
<1>2. /\ call[c] \in Call /\ TaskSound(call[c]) /\ call[c].vol \in Volumes
      /\ Sync(call[c], store[call[c].vol])
      /\ Sound(store[call[c].vol], disk, loops, mounts, call[c].vol, call[c])
      /\ StageTrue(call[c].vol)
  BY <1>1, BeforeStep
<1>3. ~Unmounting(call[c])
  BY DEF Unmounting
<1>4. call[c].rec = store[call[c].vol]
  BY <1>2 DEF Sync
<1>5. /\ call[c].rec \in Volume /\ WellFormed(call[c].rec) /\ Publishable(call[c])
      /\ call[c].node \in Nodes /\ call[c].target \in Targets
  BY <1>2 DEF TaskSound, Preparing
<1> QED BY <1>1, <1>2, <1>3, <1>4, <1>5, NoRecordAssumption DEF Sound

LEMMA NodePublishLoadSound ==
  ASSUME IInv, LInv, BInv, NEW c \in Calls, NodePublishLoad(c), UNCHANGED stage
  PROVE  BInv'
<1> DEFINE q == call[c]
           s == store[q.vol]
<1>1. q.op = "NodePublish" /\ q.pc = "load" /\ q.pc \in Await
  BY DEF NodePublishLoad, At, Await
<1>2. Loaded(c) = s /\ (s # None => s \in Volume /\ WellFormed(s))
  BY <1>1, BeforeStep
<1>3. Decide(c, NodePublishVerdict(q, s), "mkdir", s)
  BY <1>2 DEF NodePublishLoad
<1>4. NodePublishVerdict(q, s) = "OK" => s # None /\ s.state = "NodePublished"
  BY <1>2 DEF NodePublishVerdict, WellFormed
<1>5. "mkdir" \in Light
  BY DEF Light, Await, Writing
<1> QED BY <1>1, <1>3, <1>4, <1>5, DecideSound

LEMMA NodePublishMkdirSound ==
  ASSUME IInv, LInv, BInv, NEW c \in Calls, NodePublishMkdir(c), UNCHANGED stage
  PROVE  BInv'
<1> DEFINE q == call[c]
           p == call'[c]
<1>1. q.op = "NodePublish" /\ q.pc \in Preparing
  BY DEF NodePublishMkdir, At, Preparing, Publishing
<1>2. PICK v \in Volumes : v = q.vol
  BY <1>1, PublishingBefore
<1>3. /\ q.pc \in Await /\ q.node \in Nodes /\ q.target \in Targets
      /\ Sound(store[v], disk, loops, mounts, v, q) /\ ~Unmounting(q) /\ StageTrue(v)
  BY <1>1, <1>2, PublishingBefore
<1>4. UNCHANGED <<store, disk, loops>>
  BY DEF NodePublishMkdir
<1>5. /\ mounts'[q.node][v][q.target].shows = mounts[q.node][v][q.target].shows
      /\ OtherTargetsKept(q.node, v, q.target)
  BY <1>2, <1>3, MakeTargetSets DEF NodePublishMkdir
<1>6. \A n \in Nodes, t \in Targets : mounts'[n][v][t].shows = mounts[n][v][t].shows
  BY <1>2, <1>3, <1>5 DEF OtherTargetsKept
<1>7. \A u \in Volumes \ {v} : Untouched(u)
  BY <1>4, <1>5 DEF Untouched, OtherTargetsKept
<1>8. /\ SameRequest(q, p) /\ p.pc = "stat" /\ \A d \in Calls \ {c} : call'[d] = call[d]
  BY GotoFields DEF NodePublishMkdir
<1>9. "stat" \in Light
  BY DEF Light, Await, Writing
<1>10. Sound(store[v], disk, loops, mounts, v, p)
  BY <1>3, <1>8, <1>9, LightSound
<1>11. Sound(store'[v], disk', loops', mounts', v, p)
  BY <1>4, <1>6, <1>8, <1>10 DEF Sound, Backed, Writing
<1> QED BY <1>2, <1>3, <1>4, <1>7, <1>8, <1>11, SameStage, LoopsKept, SoundStep

LEMMA NodePublishStatSound ==
  ASSUME IInv, LInv, BInv, NEW c \in Calls, NodePublishStat(c) \/ NodePublishMake(c),
         UNCHANGED stage
  PROVE  BInv'
<1>1. call[c].op = "NodePublish" /\ call[c].pc \in Preparing
  BY DEF NodePublishStat, NodePublishMake, At, Preparing, Publishing
<1>2. call[c].pc \in Await /\ ~Unmounting(call[c])
  BY <1>1, PublishingBefore
<1>3. {"losetup", "make", "create"} \subseteq Light
  BY DEF Light, Await, Writing
<1> QED BY <1>2, <1>3, SilentGoto, SilentRefusal DEF NodePublishStat, NodePublishMake

(* The node is put into the copy; what the copy says of it does not change.*)
LEMMA AssignedBacked ==
  ASSUME IInv, LInv, BInv, NEW c \in Calls, call[c].op = "NodePublish",
         call[c].pc \in Preparing, NEW p, SameRequest(call[c], p), p.pc = "assign",
         p.rec = Assigned(call[c])
  PROVE  Sound(store[call[c].vol], disk, loops, mounts, call[c].vol, p)
<1> DEFINE q == call[c]
           s == store[q.vol]
<1>1. /\ q.rec = s /\ s \in Volume /\ s # None /\ Backed(loops, mounts, q.vol, s)
      /\ Sound(s, disk, loops, mounts, q.vol, q)
  BY PublishingBefore
<1>2. p.rec.mount_paths = s.mount_paths /\ p.rec.loop_device = s.loop_device
  BY <1>1 DEF Assigned, Volume
<1>3. Backed(loops, mounts, q.vol, p.rec)
  BY <1>1, <1>2 DEF Backed
<1>4. Knows(p) /\ Confirms(p, s)
  BY DEF Knows, Confirms, SameRequest
<1> QED BY <1>1, <1>3, <1>4 DEF Sound

LEMMA NodePublishMakeSound ==
  ASSUME IInv, LInv, BInv, NEW c \in Calls, UNCHANGED stage,
         NodePublishCreate(c) \/ NodePublishAllocate(c) \/ NodePublishMkfs(c)
  PROVE  BInv'
<1> DEFINE q == call[c]
           p == call'[c]
<1>1. q.op = "NodePublish" /\ q.pc \in Preparing
  BY DEF NodePublishCreate, NodePublishAllocate, NodePublishMkfs, At, Preparing, Publishing
<1>2. PICK v \in Volumes : v = q.vol
  BY <1>1, PublishingBefore
<1>3. /\ q.pc \in Await /\ q.node \in Nodes /\ store[v] # None
      /\ Sound(store[v], disk, loops, mounts, v, q) /\ ~Unmounting(q)
  BY <1>1, <1>2, PublishingBefore
<1>4. UNCHANGED <<store, loops, mounts, stage>>
  BY DEF NodePublishCreate, NodePublishAllocate, NodePublishMkfs
<1>5. CASE Hold(c, "assign", Assigned(q)) /\ OtherFilesKept(q.node, v)
  <2>1. /\ SameRequest(q, p) /\ p.pc = "assign" /\ p.rec = Assigned(q)
        /\ \A d \in Calls \ {c} : call'[d] = call[d]
    BY <1>5, HoldFields
  <2>2. Sound(store[v], disk, loops, mounts, v, p)
    BY <1>1, <1>2, <2>1, AssignedBacked
  <2> QED BY <1>2, <1>3, <1>4, <1>5, <2>1, <2>2, FileStep
<1>6. ASSUME NEW pc \in {"allocate", "mkfs"}, Goto(c, pc), OtherFilesKept(q.node, v)
      PROVE  BInv'
  <2>1. /\ SameRequest(q, p) /\ p.pc = pc /\ \A d \in Calls \ {c} : call'[d] = call[d]
    BY <1>6, GotoFields
  <2>2. pc \in Light
    BY <1>6 DEF Light, Await, Writing
  <2>3. Sound(store[v], disk, loops, mounts, v, p)
    BY <1>3, <2>1, <2>2, LightSound
  <2> QED BY <1>2, <1>3, <1>4, <1>6, <2>1, <2>3, FileStep
<1>7. CASE Reply(c, "Internal") /\ UNCHANGED disk
  BY <1>3, <1>4, <1>7, SilentRefusal DEF hostVars
<1>8. ASSUME \/ MakeDirectory(q.node, v) \/ CreateFile(q.node, v) \/ Mkfs(q.node, v)
             \/ Truncate(q.node, v, q.rec.size) \/ UNCHANGED disk
      PROVE  OtherFilesKept(q.node, v)
  <2>1. CASE UNCHANGED disk
    BY <2>1 DEF OtherFilesKept
  <2>2. CASE Truncate(q.node, v, q.rec.size)
    BY <1>3, <2>2, TruncateSets
  <2> QED BY <1>3, <1>8, <2>1, <2>2, MakeDirectorySets, CreateFileSets, MkfsSets
<1> QED BY <1>2, <1>5, <1>6, <1>7, <1>8
        DEF NodePublishCreate, NodePublishAllocate, NodePublishMkfs

LEMMA NodePublishLosetupSound ==
  ASSUME IInv, LInv, BInv, NEW c \in Calls, NodePublishLosetup(c), UNCHANGED stage
  PROVE  BInv'
<1> DEFINE q == call[c]
           p == call'[c]
<1>1. q.op = "NodePublish" /\ q.pc \in Preparing
  BY DEF NodePublishLosetup, At, Preparing, Publishing
<1>2. PICK v \in Volumes : v = q.vol
  BY <1>1, PublishingBefore
<1> DEFINE s == store[v]
<1>3. /\ q.pc \in Await /\ q.node \in Nodes /\ q.rec = s /\ s \in Volume /\ s # None
      /\ Sound(s, disk, loops, mounts, v, q) /\ Backed(loops, mounts, v, s)
      /\ ~Unmounting(q) /\ StageTrue(v)
  BY <1>1, <1>2, PublishingBefore
<1>4. UNCHANGED <<store, disk, mounts>>
  BY DEF NodePublishLosetup
<1>5. CASE Reply(c, "Internal") /\ UNCHANGED loops
  BY <1>3, <1>4, <1>5, SilentRefusal DEF hostVars
<1>6. ASSUME NEW d \in Devices, HoldDevice(c, "mount", s, d), loops'[q.node][d].file = v,
             \A u \in Volumes \ {v} : Untouched(u), NoAutoclear',
             Backed(loops', mounts', v, s)
      PROVE  BInv'
  <2>1. /\ SameRequest(q, p) /\ p.pc = "mount" /\ p.rec = s /\ p.dev = d
        /\ \A e \in Calls \ {c} : call'[e] = call[e]
    BY <1>6, HoldDeviceFields
  <2>2. Knows(p) /\ Confirms(p, s) /\ ~Unmounting(p)
    BY <1>1, <2>1 DEF Knows, Confirms, Unmounting, SameRequest
  <2>3. p.node = q.node
    BY <2>1 DEF SameRequest
  <2>4. Sound(store'[v], disk', loops', mounts', v, p)
    BY <1>3, <1>4, <1>6, <2>1, <2>2, <2>3 DEF Sound, Writing
  <2> QED BY <1>2, <1>3, <1>4, <1>6, <2>1, <2>4, SameStage, SoundStep
<1>7. CASE /\ s.loop_device # None /\ UNCHANGED loops
           /\ HoldDevice(c, "mount", s, s.loop_device)
  <2>1. s.loop_device \in Devices
    BY <1>3, <1>7 DEF Volume
  <2>2. loops'[q.node][s.loop_device].file = v
    BY <1>3, <1>7, <2>1 DEF Backed
  <2>3. \A u \in Volumes \ {v} : Untouched(u)
    BY <1>4, <1>7, UnchangedUntouched DEF hostVars
  <2> QED BY <1>3, <1>4, <1>6, <1>7, <2>1, <2>2, <2>3, LoopsKept
<1>8. ASSUME NEW d \in Devices, Losetup(q.node, v, d), HoldDevice(c, "mount", s, d)
      PROVE  BInv'
  <2>1. /\ loops'[q.node][d] = [file |-> v, autoclear |-> FALSE]
        /\ OtherDevicesKept(q.node, d)
    BY <1>3, <1>8, LosetupSets
  <2>2. loops[q.node][d].file \in {v, None}
    BY <1>8 DEF Losetup, LosetupChoices
  <2>3. \A u \in Volumes \ {v} : Untouched(u)
    BY <1>3, <1>4, <2>1, <2>2, NoneAssumption DEF Untouched, OtherDevicesKept
  <2>4. NoAutoclear'
    BY <1>3, <2>1 DEF NoAutoclear, BInv, OtherDevicesKept
  <2>5. Backed(loops', mounts', v, s)
    BY <1>3, <1>4, <2>1 DEF Backed, OtherDevicesKept
  <2> QED BY <1>6, <1>8, <2>1, <2>3, <2>4, <2>5
<1> QED BY <1>2, <1>3, <1>5, <1>7, <1>8 DEF NodePublishLosetup

LEMMA NodePublishMountSound ==
  ASSUME IInv, LInv, BInv, NEW c \in Calls, NodePublishMount(c), UNCHANGED stage
  PROVE  BInv'
<1> DEFINE q == call[c]
           p == call'[c]
           r == NodePublished(q)
<1>1. q.op = "NodePublish" /\ q.pc = "mount" /\ q.pc \in Preparing
  BY DEF NodePublishMount, At, Preparing, Publishing
<1>2. PICK v \in Volumes : v = q.vol
  BY <1>1, PublishingBefore
<1> DEFINE s == store[v]
<1>3. /\ q.pc \in Await /\ q.node \in Nodes /\ q.target \in Targets
      /\ q.rec = s /\ s \in Volume /\ s # None
      /\ Sound(s, disk, loops, mounts, v, q) /\ Backed(loops, mounts, v, s)
      /\ ~Unmounting(q) /\ StageTrue(v) /\ loops[q.node][q.dev].file = v
  BY <1>1, <1>2, PublishingBefore DEF Sound
<1>4. UNCHANGED <<store, disk, loops>>
  BY DEF NodePublishMount
<1>5. CASE Reply(c, "Internal") /\ UNCHANGED mounts
  BY <1>3, <1>4, <1>5, SilentRefusal DEF hostVars
<1>6. CASE Mount(q.node, v, q.target, q.dev, MountReadonly(q)) /\ Hold(c, "patch", r)
  <2>1. /\ SameRequest(q, p) /\ p.pc = "patch" /\ p.rec = r
        /\ \A d \in Calls \ {c} : call'[d] = call[d]
    BY <1>6, HoldFields
  <2>2. /\ r.state = "NodePublished" /\ r.loop_device = q.dev
        /\ r.mount_paths = s.mount_paths \cup {q.target}
    BY <1>3 DEF NodePublished, Volume
  <2> HIDE DEF r
  <2>3. mounts'[q.node][v][q.target].shows = v /\ OtherTargetsKept(q.node, v, q.target)
    <3> DEFINE ro == MountReadonly(q)
    <3>1. Mount(q.node, v, q.target, q.dev, ro)
      BY <1>6
    <3> HIDE DEF ro
    <3>2. /\ mounts'[q.node][v][q.target] =
               [dir |-> TRUE, shows |-> loops[q.node][q.dev].file, ro |-> ro]
          /\ OtherTargetsKept(q.node, v, q.target)
      BY <1>3, <3>1, MountSets
    <3> QED BY <1>3, <3>2
  <2>4. \A u \in Volumes \ {v} : Untouched(u)
    BY <1>4, <2>3 DEF Untouched, OtherTargetsKept
  <2>5. ASSUME NEW n \in Nodes, NEW t \in Targets
        PROVE  /\ n = q.node /\ t = q.target
               /\ mounts'[n][v][t].shows = v
    BY <1>3, <2>3, OneOfEach
  <2>6. Backed(loops', mounts', v, r)
    BY <1>3, <1>4, <2>2, <2>5 DEF Backed
  <2>7. Backed(loops', mounts', v, s)
    BY <1>3, <1>4, <2>5 DEF Backed
  <2>8. Knows(p) /\ Confirms(p, s)
    BY <1>1, <2>1, <2>2 DEF Knows, Confirms, SameRequest
  <2>9. Sound(store'[v], disk', loops', mounts', v, p)
    BY <1>3, <1>4, <2>1, <2>5, <2>6, <2>7, <2>8 DEF Sound
  <2> QED BY <1>2, <1>3, <1>4, <2>1, <2>4, <2>9, SameStage, LoopsKept, SoundStep
<1> QED BY <1>2, <1>5, <1>6 DEF NodePublishMount

LEMMA NodePublishSound ==
  ASSUME IInv, LInv, BInv, NEW c \in Calls, NodePublishStep(c), UNCHANGED stage
  PROVE  BInv'
<1>1. CASE NodePublishAssign(c) \/ NodePublishPatch(c)
  BY <1>1, WriteSound DEF NodePublishAssign, NodePublishPatch, At
<1> QED BY <1>1, NodePublishLoadSound, NodePublishMkdirSound, NodePublishStatSound,
           NodePublishMakeSound, NodePublishLosetupSound, NodePublishMountSound
        DEF NodePublishStep

-------------------------------------------------------------------------------
(* NodeUnpublish.                                                          *)

LEMMA NodeUnpublishLoadSound ==
  ASSUME IInv, LInv, BInv, NEW c \in Calls, NodeUnpublishLoad(c), UNCHANGED stage
  PROVE  BInv'
<1>1. call[c].op = "NodeUnpublish" /\ call[c].pc = "load"
  BY DEF NodeUnpublishLoad, At
<1>2. Decide(c, NodeUnpublishVerdict(call[c], Loaded(c)), "umount", Loaded(c))
  BY DEF NodeUnpublishLoad
<1>3. "umount" \in Light
  BY DEF Light, Await, Writing
<1> QED BY <1>1, <1>2, <1>3, DecideSound

LEMMA NodeUnpublishUmountSound ==
  ASSUME IInv, LInv, BInv, NEW c \in Calls, NodeUnpublishUmount(c), UNCHANGED stage
  PROVE  BInv'
<1> DEFINE q == call[c]
           p == call'[c]
           r == NodeUnpublished(q)
<1>1. q.op = "NodeUnpublish" /\ q.pc = "umount" /\ q.pc \in Await
  BY DEF NodeUnpublishUmount, At, Await
<1>2. PICK v \in Volumes : v = q.vol
  BY <1>1, BeforeStep
<1> DEFINE s == store[v]
<1>3. /\ q.node \in Nodes /\ q.target \in Targets
      /\ q.rec = s /\ s \in Volume /\ s # None /\ WellFormed(s)
      /\ Sound(s, disk, loops, mounts, v, q) /\ ~Unmounting(q) /\ StageTrue(v)
  BY <1>1, <1>2, BeforeStep, NoRecordAssumption DEF TaskSound, Sync, Unmounting
<1>4. Backed(loops, mounts, v, s)
  BY <1>3 DEF Sound
<1>5. UNCHANGED <<store, disk>>
  BY DEF NodeUnpublishUmount
<1>6. CASE Reply(c, "Internal") /\ UNCHANGED <<loops, mounts>>
  BY <1>1, <1>3, <1>5, <1>6, SilentRefusal DEF hostVars
<1>7. CASE Umount(q.node, v, q.target)
  <2>1. /\ mounts'[q.node][v][q.target].shows = None
        /\ OtherTargetsKept(q.node, v, q.target)
        /\ \A n \in Nodes, d \in Devices : loops'[n][d] = loops[n][d]
    BY <1>3, <1>7, UmountSets DEF BInv, NoAutoclear
  <2>2. \A u \in Volumes \ {v} : Untouched(u)
    BY <1>5, <2>1 DEF Untouched, OtherTargetsKept
  <2>3. NoAutoclear'
    BY <2>1 DEF BInv, NoAutoclear
  <2>4. ASSUME NEW n \in Nodes, NEW t \in Targets
        PROVE  mounts'[n][v][t].shows = None /\ t = q.target
    BY <1>3, <2>1, OneOfEach
  <2>5. /\ q.target \notin r.mount_paths
        /\ r.mount_paths = {} => r.loop_device = None
        /\ r.loop_device \in {None, s.loop_device}
    BY <1>3 DEF NodeUnpublished, Volume
  <2> HIDE DEF r
  <2>6. Backed(loops', mounts', v, r)
    BY <1>3, <1>4, <2>1, <2>4, <2>5, NoneAssumption DEF Backed
  <2>7. ASSUME p.pc \in {"unloop", "patch"}, SameRequest(q, p), p.rec = r,
                \A d \in Calls \ {c} : call'[d] = call[d],
                p.pc = "unloop" => r.mount_paths = {} /\ p.dev \in Devices
                                   /\ p.dev = s.loop_device
        PROVE  BInv'
    <3>1. Unmounting(p) /\ p.node = q.node
      BY <1>1, <2>7 DEF Unmounting, SameRequest
    <3>2. Knows(p) /\ Confirms(p, s)
      BY <1>1, <2>5, <2>7 DEF Knows, Confirms, SameRequest
    <3>3. p.pc = "unloop" => loops'[p.node][p.dev].file = v
      BY <1>3, <1>4, <2>1, <2>7, <3>1 DEF Backed
    <3>4. \A t \in Targets : mounts'[p.node][v][t].shows # v
      BY <1>3, <2>4, <3>1, NoneAssumption
    <3>5. Sound(store'[v], disk', loops', mounts', v, p)
      BY <1>3, <1>5, <2>4, <2>6, <2>7, <3>1, <3>2, <3>3, <3>4 DEF Sound
    <3> QED BY <1>2, <1>3, <1>5, <2>2, <2>3, <2>7, <3>5, SameStage, SoundStep
  <2>8. CASE r.mount_paths = {} /\ s.loop_device # None /\ HoldDevice(c, "unloop", r, s.loop_device)
    <3>1. /\ SameRequest(q, p) /\ p.pc = "unloop" /\ p.rec = r
          /\ p.dev = s.loop_device /\ \A d \in Calls \ {c} : call'[d] = call[d]
      BY <2>8, HoldDeviceFields
    <3>2. s.loop_device \in Devices
      BY <1>3, <2>8 DEF Volume
    <3> QED BY <2>7, <2>8, <3>1, <3>2
  <2>9. CASE Hold(c, "patch", r)
    <3>1. /\ SameRequest(q, p) /\ p.pc = "patch" /\ p.rec = r
          /\ \A d \in Calls \ {c} : call'[d] = call[d]
      BY <2>9, HoldFields
    <3> QED BY <2>7, <3>1
  <2>10. mounts[q.node][v][q.target].shows # None
    BY <1>7 DEF Umount
  <2> QED BY <1>2, <1>3, <2>8, <2>9, <2>10 DEF NodeUnpublishUmount, r
<1> QED BY <1>2, <1>6, <1>7 DEF NodeUnpublishUmount

(* The device is let go of; only the file of this volume was in it.        *)
LEMMA NodeUnpublishUnloopSound ==
  ASSUME IInv, LInv, BInv, NEW c \in Calls, NodeUnpublishUnloop(c), UNCHANGED stage
  PROVE  BInv'
<1> DEFINE q == call[c]
           p == call'[c]
<1>1. q.op = "NodeUnpublish" /\ q.pc = "unloop" /\ q.pc \in Await
  BY DEF NodeUnpublishUnloop, At, Await
<1>2. PICK v \in Volumes : v = q.vol
  BY <1>1, BeforeStep
<1> DEFINE s == store[v]
<1>3. /\ q.node \in Nodes /\ q.dev \in Devices /\ q.rec \in Volume
      /\ Sound(s, disk, loops, mounts, v, q) /\ StageTrue(v) /\ s # None
  BY <1>1, <1>2, BeforeStep DEF TaskSound, Sync, Writing
<1>4. /\ loops[q.node][q.dev].file = v /\ q.rec.loop_device = None
      /\ Backed(loops, mounts, v, q.rec)
      /\ \A t \in Targets : mounts[q.node][v][t].shows # v
  BY <1>1, <1>3 DEF Sound, Knows, Writing
<1>5. UNCHANGED <<store, disk, mounts>> /\ Goto(c, "patch")
  BY DEF NodeUnpublishUnloop
<1>6. LosetupDetach(q.node, q.dev)
  BY <1>3, <1>4, NoneAssumption DEF NodeUnpublishUnloop
<1>7. Showing(q.node, v) = {}
  <2>1. ASSUME NEW u \in Volumes, NEW t \in Targets
        PROVE  mounts[q.node][u][t].shows # v
    <3>1. mounts[q.node][u][t].shows \in {u, None, Deleted}
      BY <1>3 DEF BInv, Sound, Idle
    <3> QED BY <1>4, <3>1, NoneAssumption, DeletedAssumption
  <2> QED BY <2>1 DEF Showing
<1>8. loops'[q.node][q.dev] = FreeDevice /\ OtherDevicesKept(q.node, q.dev)
  BY <1>3, <1>4, <1>6, <1>7, LosetupDetachSets
<1>9. \A u \in Volumes \ {v} : Untouched(u)
  BY <1>3, <1>4, <1>5, <1>8, NoneAssumption DEF Untouched, OtherDevicesKept, FreeDevice
<1>10. NoAutoclear'
  BY <1>3, <1>8 DEF NoAutoclear, BInv, OtherDevicesKept, FreeDevice
<1>11. /\ SameRequest(q, p) /\ p.pc = "patch" /\ p.rec = q.rec
       /\ \A d \in Calls \ {c} : call'[d] = call[d]
  BY <1>5, GotoFields
<1>12. Unmounting(p) /\ Knows(p) /\ Confirms(p, s)
  BY <1>1, <1>11 DEF Unmounting, Knows, Confirms, SameRequest
<1>13. Backed(loops', mounts', v, p.rec)
  BY <1>4, <1>5, <1>11, NoneAssumption DEF Backed
<1>14. Sound(store'[v], disk', loops', mounts', v, p)
  BY <1>3, <1>5, <1>11, <1>12, <1>13 DEF Sound
<1> QED BY <1>2, <1>3, <1>5, <1>9, <1>10, <1>11, <1>14, SameStage, SoundStep

LEMMA NodeUnpublishRmdirSound ==
  ASSUME IInv, LInv, BInv, NEW c \in Calls, NodeUnpublishRmdir(c), UNCHANGED stage
  PROVE  BInv'
<1> DEFINE q == call[c]
           p == call'[c]
<1>1. q.op = "NodeUnpublish" /\ q.pc = "rmdir" /\ q.pc \in Await
  BY DEF NodeUnpublishRmdir, At, Await
<1>2. PICK v \in Volumes : v = q.vol
  BY <1>1, BeforeStep
<1> DEFINE s == store[v]
<1>3. /\ q.node \in Nodes /\ q.target \in Targets
      /\ Sound(s, disk, loops, mounts, v, q) /\ ~Unmounting(q) /\ StageTrue(v)
  BY <1>1, <1>2, BeforeStep DEF TaskSound, Unmounting
<1>4. UNCHANGED <<store, disk, loops>> /\ Reply(c, "OK")
  BY DEF NodeUnpublishRmdir
<1>5. /\ SameRequest(q, p) /\ p.pc = "reply" /\ \A d \in Calls \ {c} : call'[d] = call[d]
  BY <1>4, ReplyFields
<1>6. Knows(p) /\ Confirms(p, s)
  BY <1>1, <1>5 DEF Knows, Confirms, SameRequest
<1>7. \A n \in Nodes, t \in Targets : mounts'[n][v][t].shows = mounts[n][v][t].shows
  <2>1. CASE RemoveTarget(q.node, v, q.target)
    BY <1>3, <2>1, RemoveTargetSets DEF OtherTargetsKept
  <2> QED BY <1>2, <2>1 DEF NodeUnpublishRmdir
<1>8. \A u \in Volumes \ {v} : Untouched(u)
  <2>1. CASE RemoveTarget(q.node, v, q.target)
    BY <1>3, <1>4, <2>1, RemoveTargetSets DEF Untouched, OtherTargetsKept
  <2>2. CASE UNCHANGED mounts
    BY <1>4, <2>2, UnchangedUntouched DEF hostVars
  <2> QED BY <1>2, <2>1, <2>2 DEF NodeUnpublishRmdir
<1>9. Sound(store'[v], disk', loops', mounts', v, p)
  BY <1>3, <1>4, <1>5, <1>6, <1>7 DEF Sound, Backed, Writing
<1> QED BY <1>2, <1>3, <1>4, <1>5, <1>8, <1>9, SameStage, LoopsKept, SoundStep

LEMMA NodeUnpublishSound ==
  ASSUME IInv, LInv, BInv, NEW c \in Calls, UNCHANGED stage,
         \/ NodeUnpublishLoad(c)  \/ NodeUnpublishUmount(c) \/ NodeUnpublishUnloop(c)
         \/ NodeUnpublishPatch(c) \/ NodeUnpublishRmdir(c)
  PROVE  BInv'
<1>1. CASE NodeUnpublishPatch(c)
  BY <1>1, WriteSound DEF NodeUnpublishPatch, At
<1> QED BY <1>1, NodeUnpublishLoadSound, NodeUnpublishUmountSound,
           NodeUnpublishUnloopSound, NodeUnpublishRmdirSound

-------------------------------------------------------------------------------
(* NodeExpand and NodeGetStats.                                            *)

LEMMA NodeExpandLoadSound ==
  ASSUME IInv, LInv, BInv, NEW c \in Calls, NodeExpandLoad(c), UNCHANGED stage
  PROVE  BInv'
<1> DEFINE q == call[c]
           s == store[q.vol]
           r == Expanded(s, q.size)
           pc == IF s.filesystem = "Bind" THEN "patch" ELSE "truncate"
<1>1. q.op = "NodeExpand" /\ q.pc = "load" /\ q.pc \in Await
  BY DEF NodeExpandLoad, At, Await
<1>2. /\ q \in Call /\ Loaded(c) = s /\ Sound(s, disk, loops, mounts, q.vol, q)
      /\ s # None => s \in Volume
  BY <1>1, BeforeStep
<1>3. Decide(c, NodeExpandVerdict(q, s), pc, r)
  BY <1>2 DEF NodeExpandLoad
<1>4. ASSUME NodeExpandVerdict(q, s) = "Proceed"
      PROVE  /\ pc \in {"truncate", "patch"} /\ Backed(loops, mounts, q.vol, r)
             /\ Knows([q EXCEPT !.pc = pc, !.rec = r])
  <2>1. s # None /\ s.state = "NodePublished"
    BY <1>4 DEF NodeExpandVerdict, PublishedAt
  <2>2. /\ r.mount_paths = s.mount_paths /\ r.loop_device = s.loop_device
        /\ r.state = s.state
    BY <1>2, <2>1 DEF Expanded, Volume
  <2> HIDE DEF r
  <2>3. Backed(loops, mounts, q.vol, r)
    BY <1>1, <1>2, <2>1, <2>2 DEF Backed, Sound, Unmounting
  <2> DEFINE p == [q EXCEPT !.pc = pc, !.rec = r]
  <2>4. p.op = q.op /\ p.pc \in {"truncate", "patch"} /\ p.rec = r
    BY <1>2 DEF Call
  <2> HIDE DEF p
  <2>5. Knows(p)
    BY <1>1, <2>1, <2>2, <2>4 DEF Knows
  <2> QED BY <2>3, <2>5 DEF p
<1> HIDE DEF r, pc
<1> QED BY <1>1, <1>3, <1>4, DecideSound

LEMMA ExpandingBefore ==
  ASSUME IInv, LInv, BInv, NEW c \in Calls, call[c].op = "NodeExpand",
         call[c].pc \in {"truncate", "grow"}
  PROVE  LET q == call[c]
             s == store[q.vol]
         IN  /\ q.pc \in Await /\ q.vol \in Volumes /\ q.node \in Nodes
             /\ q.rec \in Volume /\ q.rec.state = "NodePublished" /\ WellFormed(q.rec)
             /\ Sound(s, disk, loops, mounts, q.vol, q) /\ s # None
             /\ Backed(loops, mounts, q.vol, q.rec) /\ ~Unmounting(q)
<1>1. call[c].pc \in Await
  BY DEF Await
<1>2. /\ TaskSound(call[c]) /\ call[c].vol \in Volumes
      /\ Sync(call[c], store[call[c].vol])
      /\ Sound(store[call[c].vol], disk, loops, mounts, call[c].vol, call[c])
  BY <1>1, BeforeStep
<1>3. call[c].rec.state = "NodePublished" /\ Backed(loops, mounts, call[c].vol, call[c].rec)
  BY <1>2 DEF Sound, Knows, Writing
<1>4. call[c].rec \in Volume /\ WellFormed(call[c].rec) /\ call[c].node \in Nodes
  BY <1>2 DEF TaskSound
<1> QED BY <1>1, <1>2, <1>3, <1>4 DEF Sync, Writing, Unmounting

LEMMA NodeExpandWorkSound ==
  ASSUME IInv, LInv, BInv, NEW c \in Calls, NodeExpandTruncate(c) \/ NodeExpandGrow(c),
         UNCHANGED stage
  PROVE  BInv'
<1> DEFINE q == call[c]
           p == call'[c]
<1>1. q.op = "NodeExpand" /\ q.pc \in {"truncate", "grow"}
  BY DEF NodeExpandTruncate, NodeExpandGrow, At
<1>2. PICK v \in Volumes : v = q.vol
  BY <1>1, ExpandingBefore
<1> DEFINE s == store[v]
           d == q.rec.loop_device
<1>3. /\ q.pc \in Await /\ q.node \in Nodes /\ q.rec \in Volume
      /\ q.rec.state = "NodePublished" /\ WellFormed(q.rec)
      /\ Sound(s, disk, loops, mounts, v, q) /\ s # None
      /\ Backed(loops, mounts, v, q.rec) /\ ~Unmounting(q)
  BY <1>1, <1>2, ExpandingBefore
<1>4. UNCHANGED <<store, loops, mounts>>
  BY DEF NodeExpandTruncate, NodeExpandGrow
<1>5. loops[q.node][d].file = v
  <2>1. d \in Devices
    BY <1>3 DEF WellFormed, Volume
  <2>2. q.rec # None
    BY <1>3, NoRecordAssumption
  <2> QED BY <1>3, <2>1, <2>2 DEF Backed
<1>6. CASE Reply(c, "Internal") /\ UNCHANGED disk
  BY <1>3, <1>4, <1>6, SilentRefusal DEF hostVars
<1>7. ASSUME NEW pc \in {"grow", "patch"}, Goto(c, pc), OtherFilesKept(q.node, v)
      PROVE  BInv'
  <2>1. /\ SameRequest(q, p) /\ p.pc = pc /\ p.rec = q.rec
        /\ \A e \in Calls \ {c} : call'[e] = call[e]
    BY <1>7, GotoFields
  <2>2. Knows(p) /\ Confirms(p, s)
    BY <1>1, <1>3, <2>1 DEF Knows, Confirms, SameRequest
  <2>3. Sound(s, disk, loops, mounts, v, p)
    BY <1>3, <2>1, <2>2 DEF Sound
  <2> QED BY <1>2, <1>3, <1>4, <1>7, <2>1, <2>3, FileStep
<1>8. Truncate(q.node, v, q.size) => OtherFilesKept(q.node, v)
  BY <1>3, TruncateSets
<1>9. Grow(q.node, d) => OtherFilesKept(q.node, v)
  BY <1>3, <1>5, GrowSets
<1> QED BY <1>2, <1>6, <1>7, <1>8, <1>9 DEF NodeExpandTruncate, NodeExpandGrow

LEMMA NodeSound ==
  ASSUME IInv, LInv, BInv, NEW c \in Calls, NodeStep(c), UNCHANGED stage PROVE BInv'
<1>1. CASE NodeExpandLoad(c) \/ NodeExpandTruncate(c) \/ NodeExpandGrow(c)
  BY <1>1, NodeExpandLoadSound, NodeExpandWorkSound
<1>2. CASE NodeExpandPatch(c)
  BY <1>2, WriteSound DEF NodeExpandPatch, At
<1>3. ~NodeGetStatsLoad(c) /\ ~NodeGetStatsStatfs(c)
  <2>1. ASSUME call[c].op = "NodeGetStats", call[c].pc \in Await PROVE FALSE
    BY <2>1, BeforeStep DEF AskedFor
  <2> QED BY <2>1 DEF NodeGetStatsLoad, NodeGetStatsStatfs, At, Await
<1> QED BY <1>1, <1>2, <1>3, NodePublishSound, NodeUnpublishSound DEF NodeStep

-------------------------------------------------------------------------------
(* The CO and the faults.                                                  *)

(* A step of the CO or a fault leaves lvp's state as it is and has every   *)
(* task of a volume sound, or the volume without one.                      *)
LEMMA OutsideStep ==
  ASSUME BInv, UNCHANGED <<store, hostVars>>, stage' \in [Volumes -> Stage],
         \A v \in Volumes :
           /\ StageTrue(v)'
           /\ Idle(v)' => Sound(store[v], disk, loops, mounts, v, NoCall)
           /\ \A c \in Calls : call'[c].vol = v =>
                /\ Sound(store[v], disk, loops, mounts, v, call'[c])
                /\ AskedFor(call'[c].op, stage'[v])
  PROVE  BInv'
<1>1. NoAutoclear'
  BY DEF BInv, NoAutoclear, hostVars
<1> QED BY <1>1 DEF BInv, hostVars

LEMMA AskStarts ==
  ASSUME IInv, BInv, NEW c \in Calls, NEW v \in Volumes, Ask(c, v)
  PROVE  /\ Request(c) /\ UNCHANGED <<store, hostVars>> /\ call[c] = NoCall
         /\ \A d \in Calls : call[d].vol # v
         /\ \A d \in Calls \ {c} : call'[d] = call[d]
         /\ call'[c].vol = v /\ call'[c].pc \in {"get", "load"}
         /\ AskedFor(call'[c].op, stage[v])
<1>1. Serial /\ DOMAIN call = Calls
  BY RecoveryAssumption DEF IInv, TypeOK
<1>2. /\ UNCHANGED <<store, hostVars>> /\ \A d \in Calls : call[d].vol # v
      /\ \A d \in Calls \ {c} : call'[d] = call[d]
      /\ call[c] = NoCall
  BY <1>1 DEF Ask, CreateVolume, DeleteVolume, ControllerPublish, ControllerUnpublish,
              NodePublish, NodeUnpublish, NodeExpand, Start
<1>3. call'[c].vol = v /\ call'[c].pc \in {"get", "load"} /\ AskedFor(call'[c].op, stage[v])
  <2>1. CASE stage[v] = "create" /\ CreateVolume(c, v)
    BY <1>1, <2>1 DEF CreateVolume, Start, NoCall, AskedFor
  <2>2. CASE stage[v] = "attach" /\ ControllerPublish(c, v)
    BY <1>1, <2>2 DEF ControllerPublish, Start, NoCall, AskedFor
  <2>3. CASE stage[v] = "mount" /\ NodePublish(c, v)
    BY <1>1, <2>3 DEF NodePublish, Start, NoCall, AskedFor
  <2>4. CASE stage[v] = "expand" /\ NodeExpand(c, v)
    BY <1>1, <2>4 DEF NodeExpand, Start, NoCall, AskedFor
  <2>5. CASE stage[v] = "unmount" /\ NodeUnpublish(c, v)
    BY <1>1, <2>5 DEF NodeUnpublish, Start, NoCall, AskedFor
  <2>6. CASE stage[v] = "detach" /\ ControllerUnpublish(c, v)
    BY <1>1, <2>6 DEF ControllerUnpublish, Start, NoCall, AskedFor
  <2>7. CASE stage[v] = "delete" /\ DeleteVolume(c, v)
    BY <1>1, <2>7 DEF DeleteVolume, Start, NoCall, AskedFor
  <2> QED BY <2>1, <2>2, <2>3, <2>4, <2>5, <2>6, <2>7 DEF Ask
<1>4. Request(c)
  BY DEF Ask, Request
<1> QED BY <1>2, <1>3, <1>4

LEMMA AskSound ==
  ASSUME IInv, BInv, NEW c \in Calls, NEW v \in Volumes, Ask(c, v), UNCHANGED stage
  PROVE  BInv'
<1>1. /\ UNCHANGED <<store, hostVars>> /\ \A d \in Calls : call[d].vol # v
      /\ \A d \in Calls \ {c} : call'[d] = call[d]
      /\ call'[c].vol = v /\ call'[c].pc \in {"get", "load"}
      /\ AskedFor(call'[c].op, stage[v])
  BY AskStarts
<1>2. Sound(store[v], disk, loops, mounts, v, call'[c])
  <2>1. Sound(store[v], disk, loops, mounts, v, NoCall)
    BY <1>1 DEF BInv, Idle
  <2>2. ~Unmounting(NoCall)
    BY DEF Unmounting, NoCall
  <2>3. call'[c].pc \in Light
    BY <1>1 DEF Light, Await, Writing
  <2> QED BY <2>1, <2>2, <2>3, LightSound
<1>3. call[c].vol = None
  BY AskStarts DEF NoCall
<1>4. ASSUME NEW u \in Volumes
      PROVE  /\ StageTrue(u)'
             /\ Idle(u)' => Sound(store[u], disk, loops, mounts, u, NoCall)
             /\ \A d \in Calls : call'[d].vol = u =>
                  /\ Sound(store[u], disk, loops, mounts, u, call'[d])
                  /\ AskedFor(call'[d].op, stage'[u])
  <2>1. StageTrue(u)'
    BY <1>1, SameStage DEF BInv
  <2>2. Idle(u)' => Idle(u)
    BY <1>1, <1>3, NoneAssumption DEF Idle
  <2>3. ASSUME NEW d \in Calls, call'[d].vol = u
        PROVE  /\ Sound(store[u], disk, loops, mounts, u, call'[d])
               /\ AskedFor(call'[d].op, stage'[u])
    <3>1. CASE d = c
      BY <1>1, <1>2, <2>3, <3>1
    <3>2. CASE d # c
      <4>1. call'[d] = call[d]
        BY <1>1, <3>2
      <4> QED BY <2>3, <4>1 DEF BInv
    <3> QED BY <3>1, <3>2
  <2>4. Idle(u)' => Sound(store[u], disk, loops, mounts, u, NoCall)
    BY <2>2 DEF BInv
  <2> QED BY <2>1, <2>3, <2>4
<1> QED BY <1>1, <1>4, OutsideStep DEF BInv

(* A volume has no task any more: what its task left is sound, unless a    *)
(* NodeUnpublish ended between umount and its write.                       *)
LEMMA EndedSound ==
  ASSUME NEW s, NEW v, NEW q, Sound(s, disk, loops, mounts, v, q), ~Unmounting(q)
  PROVE  Sound(s, disk, loops, mounts, v, NoCall)
<1>1. Knows(NoCall) /\ Confirms(NoCall, s) /\ ~Unmounting(NoCall) /\ NoCall.pc = "idle"
  BY DEF Knows, Confirms, Unmounting, NoCall
<1> QED BY <1>1 DEF Sound, Writing

LEMMA EndSound ==
  ASSUME IInv, LInv, BInv, NEW c \in Calls, call' = [call EXCEPT ![c] = NoCall],
         ~Unmounting(call[c]), UNCHANGED <<store, hostVars>>,
         stage' \in [Volumes -> Stage],
         \A v \in Volumes : StageTrue(v)' /\ (v # call[c].vol => stage'[v] = stage[v])
  PROVE  BInv'
<1>1. call'[c] = NoCall /\ NoCall.vol = None /\ \A d \in Calls \ {c} : call'[d] = call[d]
  BY DEF IInv, TypeOK, NoCall
<1>2. ASSUME NEW u \in Volumes
      PROVE  /\ Idle(u)' => Sound(store[u], disk, loops, mounts, u, NoCall)
             /\ \A d \in Calls : call'[d].vol = u =>
                  /\ Sound(store[u], disk, loops, mounts, u, call'[d])
                  /\ AskedFor(call'[d].op, stage'[u])
  <2>1. ASSUME Idle(u)' PROVE Sound(store[u], disk, loops, mounts, u, NoCall)
    <3>1. CASE call[c].vol = u
      BY <3>1, EndedSound DEF BInv
    <3>2. CASE call[c].vol # u
      <4>1. Idle(u)
        BY <1>1, <2>1, <3>2 DEF Idle
      <4> QED BY <4>1 DEF BInv
    <3> QED BY <3>1, <3>2
  <2>2. ASSUME NEW d \in Calls, call'[d].vol = u
        PROVE  /\ Sound(store[u], disk, loops, mounts, u, call'[d])
               /\ AskedFor(call'[d].op, stage'[u])
    <3>1. d # c /\ call'[d] = call[d]
      BY <1>1, <2>2, NoneAssumption
    <3>2. u # call[c].vol
      BY <2>2, <3>1, NoneAssumption DEF LInv, OneCallPerVolume
    <3> QED BY <2>2, <3>1, <3>2 DEF BInv
  <2> QED BY <2>1, <2>2
<1> QED BY <1>2, OutsideStep

(* The answer takes the volume on to a stage of which it tells the truth.  *)
LEMMA AnsweredSound ==
  ASSUME IInv, LInv, BInv, NEW c \in Calls, Answered(c) PROVE BInv'
<1> DEFINE q == call[c]
<1>1. Return(c) /\ q.pc = "reply" /\ UNCHANGED <<store, hostVars>> /\ ~Unmounting(q)
      /\ call' = [call EXCEPT ![c] = NoCall]
  BY DEF Answered, Return, Unmounting
<1>2. ASSUME NEW v \in Volumes, stage'[v] = stage[v] PROVE StageTrue(v)'
  BY <1>1, <1>2 DEF BInv, StageTrue, Exists
<1>3. CASE q.code # "OK" \/ q.vol \notin Volumes
  <2>1. UNCHANGED stage
    BY <1>3 DEF Answered, BInv
  <2> QED BY <1>1, <1>2, <2>1, EndSound DEF BInv
<1>4. CASE q.code = "OK" /\ q.vol \in Volumes
  <2>1. PICK v \in Volumes : v = q.vol
    BY <1>4
  <2>2. stage' = [stage EXCEPT ![v] = After[stage[v]]]
    BY <1>4, <2>1 DEF Answered
  <2>3. Sound(store[v], disk, loops, mounts, v, q) /\ AskedFor(q.op, stage[v])
    BY <2>1 DEF BInv
  <2>4. After[stage[v]] \in Stage
    BY <2>3 DEF AskedFor, After, Stage
  <2>5. /\ After[stage[v]] \in InUse => q.op \in {"NodePublish", "NodeExpand"}
        /\ After[stage[v]] = "gone" => q.op = "DeleteVolume"
        /\ q.op = "NodeExpand" => stage[v] \in InUse
    BY <2>3 DEF AskedFor, After, InUse
  <2>6. stage'[v] = After[stage[v]] /\ \A u \in Volumes \ {v} : stage'[u] = stage[u]
    BY <2>2 DEF BInv
  <2>7. Confirms(q, store[v]) /\ StageTrue(v)
    BY <2>3 DEF Sound, BInv
  <2>8. StageTrue(v)'
    BY <1>1, <1>4, <2>5, <2>6, <2>7 DEF StageTrue, Confirms, Exists
  <2>9. stage' \in [Volumes -> Stage]
    BY <2>2, <2>4 DEF BInv
  <2> QED BY <1>1, <1>2, <2>1, <2>6, <2>8, <2>9, EndSound
<1> QED BY <1>3, <1>4

LEMMA MoveSound ==
  ASSUME IInv, LInv, BInv, NEW v \in Volumes, Claim(v) \/ Enlarge(v) \/ Retire(v)
  PROVE  BInv'
<1>1. PICK to \in {"create", "expand", "unmount"} :
        /\ stage' = [stage EXCEPT ![v] = to] /\ UNCHANGED vars
        /\ stage[v] \in {"new", "used", "enlarged"}
        /\ to = "expand" => stage[v] = "used"
  BY DEF Claim, Enlarge, Retire, Move
<1>2. UNCHANGED <<store, hostVars, call>>
  BY <1>1 DEF vars, hostVars
<1>3. stage'[v] = to /\ \A u \in Volumes \ {v} : stage'[u] = stage[u]
  BY <1>1 DEF BInv
<1>4. stage' \in [Volumes -> Stage]
  BY <1>1 DEF BInv, Stage
<1>5. \A c \in Calls : call[c].vol # v
  BY <1>1 DEF BInv, AskedFor
<1>6. StageTrue(v)'
  BY <1>1, <1>2, <1>3 DEF StageTrue, Exists, InUse, BInv
<1>7. ASSUME NEW u \in Volumes \ {v} PROVE StageTrue(u)'
  BY <1>2, <1>3, <1>7 DEF StageTrue, Exists, BInv
<1>8. ASSUME NEW u \in Volumes
      PROVE  /\ StageTrue(u)'
             /\ Idle(u)' => Sound(store[u], disk, loops, mounts, u, NoCall)
             /\ \A c \in Calls : call'[c].vol = u =>
                  /\ Sound(store[u], disk, loops, mounts, u, call'[c])
                  /\ AskedFor(call'[c].op, stage'[u])
  BY <1>2, <1>3, <1>5, <1>6, <1>7 DEF BInv, Idle
<1> QED BY <1>2, <1>4, <1>8, OutsideStep

(* What was cut off may still be done, and be done before the next call    *)
(* for the volume: the volume without a task is as it has to be.           *)
Settled(v) ==
  /\ NoAutoclear' /\ StageTrue(v)' /\ \A u \in Volumes \ {v} : Untouched(u)
  /\ Sound(store'[v], disk', loops', mounts', v, NoCall)

LEMMA ServedSettled ==
  ASSUME IInv, LInv, BInv, NEW c \in Calls, NEW v \in Volumes, v = call[c].vol,
         call[c].pc \in Await, RequestServed(c), ~Critical(c), UNCHANGED stage
  PROVE  Settled(v)
<1> DEFINE q == call[c]
<1>1. /\ q \in Call /\ TaskSound(q) /\ Sound(store[v], disk, loops, mounts, v, q)
      /\ AskedFor(q.op, stage[v]) /\ StageTrue(v)
  BY BeforeStep
<1>2. UNCHANGED hostVars
  BY DEF RequestServed
<1>3. ASSUME NEW r \in Volume, store' = [store EXCEPT ![v] = r],
             Backed(loops, mounts, v, r), StageTrue(v)'
      PROVE  Settled(v)
  <2>1. store'[v] = r /\ \A u \in Volumes \ {v} : store'[u] = store[u]
    BY <1>3 DEF IInv, TypeOK
  <2>2. NoAutoclear'
    BY <1>2 DEF NoAutoclear, BInv, hostVars
  <2>3. \A u \in Volumes \ {v} : Untouched(u)
    BY <1>2, <2>1 DEF Untouched, hostVars
  <2>4. Knows(NoCall) /\ Confirms(NoCall, r) /\ ~Unmounting(NoCall) /\ NoCall.pc = "idle"
    BY DEF Knows, Confirms, Unmounting, NoCall
  <2>5. Sound(store'[v], disk', loops', mounts', v, NoCall)
    BY <1>1, <1>2, <1>3, <2>1, <2>4, NoRecordAssumption DEF Sound, Writing, hostVars
  <2> QED BY <1>3, <2>2, <2>3, <2>5 DEF Settled
<1>4. CASE At(c, "CreateVolume", "post") /\ Post(v, Requested(c))
  <2> DEFINE r == Requested(c)
  <2>1. r \in Volume /\ WellFormed(r)
    BY <1>1, <1>4, NewVolumeSound DEF Requested, TaskSound, Call, At
  <2>2. r.state # "NodePublished"
    BY DEF Requested, NewVolume
  <2>3. store' = [store EXCEPT ![v] = r]
    BY <1>4 DEF Post
  <2> HIDE DEF r
  <2>4. Backed(loops, mounts, v, r)
    BY <2>1, <2>2, UnpublishedBacked
  <2>5. StageTrue(v)'
    BY <1>1, <1>4 DEF At, AskedFor, StageTrue, InUse
  <2> QED BY <1>3, <2>1, <2>3, <2>4, <2>5
<1>5. CASE q.pc \in {"assign", "patch"} /\ Patch(v, q.rec)
  <2> DEFINE r == q.rec
  <2>1. r \in Volume /\ r # None /\ store' = [store EXCEPT ![v] = r]
    BY <1>1, <1>5, NoRecordAssumption DEF TaskSound, Publishing, Patch
  <2>2. Backed(loops, mounts, v, r)
    BY <1>1, <1>5 DEF Sound, Writing
  <2>3. StageTrue(v)'
    <3>1. store'[v] = r /\ stage'[v] = stage[v]
      BY <2>1 DEF IInv, TypeOK
    <3>2. stage[v] # "gone"
      BY <1>1 DEF AskedFor
    <3>3. stage[v] \in InUse => r.state = "NodePublished"
      BY <1>1, <1>5 DEF AskedFor, InUse, Sound, Knows
    <3> QED BY <2>1, <3>1, <3>2, <3>3 DEF StageTrue, Exists
  <2> HIDE DEF r
  <2> QED BY <1>3, <2>1, <2>2, <2>3
<1> QED BY <1>4, <1>5 DEF RequestServed, Critical

LEMMA DoneSettled ==
  ASSUME IInv, LInv, BInv, NEW c \in Calls, NEW v \in Volumes, v = call[c].vol,
         call[c].pc \in Await, OperationDone(c), ~Critical(c), ~Underway(c),
         UNCHANGED stage
  PROVE  Settled(v)
<1> DEFINE q == call[c]
           s == store[v]
<1>1. /\ TaskSound(q) /\ Sync(q, s) /\ Sound(s, disk, loops, mounts, v, q)
      /\ StageTrue(v)
  BY BeforeStep
<1>2. ~Unmounting(q)
  BY DEF Critical, Unmounting, At
<1>3. Sound(s, disk, loops, mounts, v, NoCall)
  BY <1>1, <1>2, EndedSound
<1>4. ~Unmounting(NoCall) /\ NoCall.pc = "idle"
  BY DEF Unmounting, NoCall
<1>5. ASSUME UNCHANGED store PROVE StageTrue(v)'
  BY <1>1, <1>5, SameStage
<1>6. CASE FileDone(c)
  <2>1. /\ UNCHANGED <<store, loops, mounts>> /\ q.node \in Nodes
        /\ At(c, "NodeExpand", "truncate") \/ At(c, "NodeExpand", "grow")
    BY <1>1, <1>6 DEF FileDone, Critical, Underway, TaskSound, At
  <2>2. OtherFilesKept(q.node, v) /\ s # None
    <3>1. CASE At(c, "NodeExpand", "truncate") /\ Truncate(q.node, v, q.size)
      BY <1>1, <2>1, <3>1, TruncateSets DEF At, Sync, Writing
    <3>2. CASE At(c, "NodeExpand", "grow") /\ Grow(q.node, q.rec.loop_device)
      <4>1. /\ q.rec \in Volume /\ q.rec.state = "NodePublished" /\ WellFormed(q.rec)
            /\ Backed(loops, mounts, v, q.rec) /\ s # None
        BY <3>2, ExpandingBefore DEF At
      <4>2. q.rec.loop_device \in Devices /\ q.rec # None
        BY <4>1, NoRecordAssumption DEF WellFormed, Volume
      <4>3. loops[q.node][q.rec.loop_device].file = v
        BY <2>1, <4>1, <4>2 DEF Backed
      <4> QED BY <2>1, <3>2, <4>1, <4>3, GrowSets
    <3> QED BY <1>6, <2>1, <3>1, <3>2 DEF FileDone, At
  <2>3. \A u \in Volumes \ {v} : Untouched(u)
    BY <2>1, <2>2 DEF Untouched, OtherFilesKept
  <2>4. Sound(store'[v], disk', loops', mounts', v, NoCall)
    BY <1>3, <1>4, <2>1, <2>2 DEF Sound
  <2> QED BY <1>5, <2>1, <2>3, <2>4, LoopsKept DEF Settled
<1>7. CASE DeviceDone(c)
  <2>1. At(c, "NodePublish", "losetup") /\ UNCHANGED <<store, disk, mounts>>
    BY <1>7 DEF DeviceDone, Critical
  <2>2. PICK d \in Devices : Losetup(q.node, v, d)
    BY <1>7, <2>1 DEF DeviceDone, At
  <2>3. q.node \in Nodes
    BY <1>1, <2>1 DEF TaskSound, At
  <2>4. /\ loops'[q.node][d] = [file |-> v, autoclear |-> FALSE]
        /\ OtherDevicesKept(q.node, d)
    BY <2>2, <2>3, LosetupSets
  <2>5. loops[q.node][d].file \in {v, None}
    BY <2>2 DEF Losetup, LosetupChoices
  <2>6. \A u \in Volumes \ {v} : Untouched(u)
    BY <2>1, <2>3, <2>4, <2>5, NoneAssumption DEF Untouched, OtherDevicesKept
  <2>7. NoAutoclear'
    BY <2>3, <2>4 DEF NoAutoclear, BInv, OtherDevicesKept
  <2>8. Backed(loops', mounts', v, s)
    BY <1>3, <1>4, <2>1, <2>3, <2>4 DEF Sound, Backed, OtherDevicesKept
  <2>9. Sound(store'[v], disk', loops', mounts', v, NoCall)
    BY <1>3, <1>4, <2>1, <2>8 DEF Sound, Writing
  <2> QED BY <1>5, <2>1, <2>6, <2>7, <2>9 DEF Settled
<1>8. CASE TargetDone(c)
  <2>1. /\ UNCHANGED <<store, disk, loops>> /\ q.node \in Nodes /\ q.target \in Targets
        /\ \/ MakeTarget(q.node, v, q.target)
           \/ RemoveTarget(q.node, v, q.target)
    BY <1>1, <1>8 DEF TargetDone, Underway, TaskSound, At
  <2>2. /\ OtherTargetsKept(q.node, v, q.target)
        /\ mounts'[q.node][v][q.target].shows = mounts[q.node][v][q.target].shows
    <3>1. CASE MakeTarget(q.node, v, q.target)
      BY <2>1, <3>1, MakeTargetSets
    <3>2. CASE RemoveTarget(q.node, v, q.target)
      BY <2>1, <3>2, RemoveTargetSets
    <3> QED BY <2>1, <3>1, <3>2
  <2>3. \A n \in Nodes, t \in Targets : mounts'[n][v][t].shows = mounts[n][v][t].shows
    BY <2>1, <2>2 DEF OtherTargetsKept
  <2>4. \A u \in Volumes \ {v} : Untouched(u)
    BY <2>1, <2>2 DEF Untouched, OtherTargetsKept
  <2>5. Sound(store'[v], disk', loops', mounts', v, NoCall)
    BY SMTT(60), <1>3, <1>4, <2>1, <2>3 DEF Sound, Backed, Writing
  <2> QED BY <1>5, <2>1, <2>4, <2>5, LoopsKept DEF Settled
<1>9. ~UnmountDone(c) /\ ~RemovalDone(c)
  BY DEF UnmountDone, RemovalDone, Underway
<1> QED BY <1>6, <1>7, <1>8, <1>9 DEF OperationDone

LEMMA DroppedSettled ==
  ASSUME IInv, LInv, BInv, NEW c \in Calls, NEW v \in Volumes, v = call[c].vol,
         call' = [call EXCEPT ![c] = NoCall], Settled(v), UNCHANGED stage
  PROVE  BInv'
<1>1. call'[c] = NoCall /\ NoCall.vol = None /\ \A d \in Calls \ {c} : call'[d] = call[d]
  BY DEF IInv, TypeOK, NoCall
<1> SUFFICES ASSUME NEW u \in Volumes
             PROVE  /\ StageTrue(u)'
                    /\ Idle(u)' => Sound(store'[u], disk', loops', mounts', u, NoCall)
                    /\ \A d \in Calls : call'[d].vol = u =>
                         /\ Sound(store'[u], disk', loops', mounts', u, call'[d])
                         /\ AskedFor(call'[d].op, stage'[u])
  BY DEF BInv, Settled
<1>2. CASE u = v
  <2>1. ASSUME NEW d \in Calls PROVE call'[d].vol # u
    BY <1>1, <1>2, NoneAssumption DEF LInv, OneCallPerVolume
  <2> QED BY <1>2, <2>1 DEF Settled
<1>3. CASE u # v
  <2>0. Untouched(u)
    BY <1>3 DEF Settled
  <2>1. Idle(u)' => Idle(u)
    BY <1>1, <1>3 DEF Idle
  <2>2. NoCall.pc = "idle"
    BY DEF NoCall
  <2>3. Idle(u)' => Sound(store'[u], disk', loops', mounts', u, NoCall)
    BY <2>0, <2>1, <2>2, UntouchedSound DEF BInv
  <2>4. ASSUME NEW d \in Calls, call'[d].vol = u
        PROVE  /\ Sound(store'[u], disk', loops', mounts', u, call'[d])
               /\ AskedFor(call'[d].op, stage'[u])
    <3>1. d # c /\ call'[d] = call[d]
      BY <1>1, <2>4, NoneAssumption
    <3>2. TaskSound(call[d]) /\ call[d].vol = u
      BY <2>4, <3>1, TaskBefore
    <3>3. Sound(store[u], disk, loops, mounts, u, call[d]) /\ AskedFor(call[d].op, stage[u])
      BY <3>2 DEF BInv
    <3>4. call[d].pc \in {"mount", "unloop"} => call[d].node \in Nodes /\ call[d].dev \in Devices
      BY <3>2, <3>3 DEF TaskSound, Sound, Knows
    <3> QED BY <2>0, <3>1, <3>3, <3>4, UntouchedSound
  <2>5. StageTrue(u)'
    BY <2>0 DEF BInv, StageTrue, Exists, Untouched
  <2> QED BY <2>3, <2>4, <2>5
<1> QED BY <1>2, <1>3

LEMMA RefusedSettled ==
  ASSUME IInv, LInv, BInv, NEW c \in Calls, NEW v \in Volumes, v = call[c].vol,
         Reply(c, "Internal"), Settled(v), UNCHANGED stage
  PROVE  BInv'
<1> DEFINE q == call[c]
           p == call'[c]
<1>1. /\ SameRequest(q, p) /\ p.pc = "reply" /\ p.code = "Internal"
      /\ \A d \in Calls \ {c} : call'[d] = call[d]
  BY ReplyFields
<1>2. Knows(p) /\ Confirms(p, store'[v]) /\ ~Unmounting(NoCall)
  BY <1>1 DEF Knows, Confirms, Unmounting, NoCall
<1>3. Sound(store'[v], disk', loops', mounts', v, p)
  BY <1>1, <1>2 DEF Settled, Sound, Writing
<1> QED BY <1>1, <1>3, SoundStep DEF Settled

LEMMA CutOffSound ==
  ASSUME IInv, LInv, BInv, NEW c \in Calls, CutOff(c), UNCHANGED stage PROVE BInv'
<1> DEFINE q == call[c]
<1>1. ~Unmounting(q) /\ ~Critical(c)
  BY DEF CutOff, Critical, Unmounting, At
<1>2. \A v \in Volumes : UNCHANGED store => StageTrue(v)'
  BY SameStage DEF BInv
<1>3. CASE Return(c)
  BY <1>1, <1>2, <1>3, EndSound DEF Return, BInv
<1>4. CASE Cancel(c) /\ ~Underway(c)
  <2>1. CASE UNCHANGED <<store, hostVars>>
    BY <1>1, <1>2, <1>4, <2>1, EndSound DEF Cancel, BInv
  <2>2. CASE RequestServed(c) \/ OperationDone(c)
    <3>1. q.pc \in Await /\ call' = [call EXCEPT ![c] = NoCall]
      BY <1>4, TaskBefore DEF Cancel, Running, Call
    <3>2. PICK v \in Volumes : v = q.vol
      BY <3>1, BeforeStep
    <3> QED BY <1>1, <1>4, <2>2, <3>1, <3>2, ServedSettled, DoneSettled, DroppedSettled
  <2> QED BY <1>4, <2>1, <2>2 DEF Cancel
<1>5. CASE Fail(c)
  <2>1. q.pc \in Await
    BY <1>5, TaskBefore DEF Fail, Running, Call
  <2>2. q.pc \in {"unloop", "rmdir"} => q.op = "NodeUnpublish"
    BY <2>1, BeforeStep DEF Sound, Knows
  <2>3. q.pc # "unloop"
    BY <1>1, <2>2 DEF Unmounting
  <2>4. CASE RequestServed(c)
    <3>1. Reply(c, "Internal")
      BY <1>5, <2>4 DEF Fail, RequestServed, At
    <3>2. PICK v \in Volumes : v = q.vol
      BY <2>1, BeforeStep
    <3> QED BY <1>1, <2>1, <2>4, <3>1, <3>2, ServedSettled, RefusedSettled
  <2>5. CASE q.pc = "rmdir" /\ Reply(c, "OK") /\ UNCHANGED <<store, hostVars>>
    <3>1. [q EXCEPT !.pc = "reply", !.code = "OK"].op = "NodeUnpublish"
      BY <2>2, <2>5, TaskBefore DEF Call
    <3>2. Confirms([q EXCEPT !.pc = "reply", !.code = "OK"], store[q.vol])
      BY <3>1 DEF Confirms
    <3> QED BY <1>1, <2>1, <2>5, <3>2, SilentReply
  <2>6. CASE Reply(c, "Internal") /\ UNCHANGED <<store, hostVars>>
    BY <1>1, <2>1, <2>6, SilentRefusal
  <2> QED BY <1>5, <2>3, <2>4, <2>5, <2>6 DEF Fail
<1> QED BY <1>3, <1>4, <1>5 DEF CutOff

(* A reboot that hits no volume that is mounted for its record.            *)
LEMMA RestartSound ==
  ASSUME IInv, LInv, BInv, NEW n \in Nodes, Restart(n), UNCHANGED stage PROVE BInv'
<1>1. UNCHANGED <<store, disk>> /\ LoseKernelState(n)
  BY DEF Restart, Reboot, LoseKernelState
<1>2. ASSUME NEW m \in Nodes PROVE m = n
  BY OneOfEach
<1>3. ASSUME NEW v \in Volumes, NEW t \in Targets PROVE mounts'[n][v][t].shows = None
  <2>1. mounts[n][v][t] \in TargetPath
    BY DEF IInv, TypeOK, HostTypeOK
  <2>2. mounts'[n][v][t] = [mounts[n][v][t] EXCEPT !.shows = None, !.ro = FALSE]
    BY <1>1 DEF LoseKernelState, IInv, TypeOK, HostTypeOK
  <2> QED BY <2>1, <2>2 DEF TargetPath
<1>4. NoAutoclear'
  BY <1>1, <1>2 DEF LoseKernelState, NoAutoclear, FreeDevice, IInv, TypeOK, HostTypeOK
<1>5. ASSUME NEW v \in Volumes PROVE Backed(loops', mounts', v, store[v])
  <2>1. CASE store[v] = None
    BY <2>1 DEF Backed
  <2>2. CASE store[v] # None
    <3>1. store[v] \in Volume /\ WellFormed(store[v]) /\ store[v].state # "NodePublished"
      BY <2>2 DEF Restart, Recorded, Exists, IInv, TypeOK, RecordIntegrity
    <3> QED BY <3>1, UnpublishedBacked
  <2> QED BY <2>1, <2>2
<1>6. ASSUME NEW v \in Volumes, NEW q, Sound(store[v], disk, loops, mounts, v, q),
             Backed(loops', mounts', v, store[v]),
             q.pc \notin {"mount", "unloop"}, q.pc \in Writing => Backed(loops', mounts', v, q.rec)
      PROVE  Sound(store'[v], disk', loops', mounts', v, q)
  BY <1>1, <1>2, <1>3, <1>6 DEF Sound
<1>7. ASSUME NEW v \in Volumes, NEW q, Sound(store[v], disk, loops, mounts, v, q)
      PROVE  Sound(store'[v], disk', loops', mounts', v, NoCall)
  <2>1. Knows(NoCall) /\ Confirms(NoCall, store[v]) /\ NoCall.pc = "idle"
    BY DEF Knows, Confirms, NoCall
  <2> QED BY <1>1, <1>2, <1>3, <1>5, <1>7, <2>1 DEF Sound, Writing
<1>8. ASSUME NEW v \in Volumes, NEW c \in Calls, call'[c].vol = v
      PROVE  /\ Sound(store'[v], disk', loops', mounts', v, call'[c])
             /\ AskedFor(call'[c].op, stage'[v])
  <2> DEFINE q == call[c]
  <2>1. call'[c] = q /\ ~ServedBy(c, n)
    BY <1>8, NoneAssumption DEF Restart, Reboot, NoCall
  <2>2. /\ Sound(store[v], disk, loops, mounts, v, q) /\ AskedFor(q.op, stage[v])
        /\ TaskSound(q)
    BY <1>8, <2>1, TaskBefore DEF BInv
  <2>3. q.op \notin {"NodePublish", "NodeUnpublish", "NodeExpand"}
    BY <1>2, <2>1, <2>2 DEF ServedBy, TaskSound
  <2>4. q.pc \notin {"mount", "unloop", "assign", "truncate", "grow"}
        /\ (q.pc = "patch" => q.rec.state # "NodePublished")
    BY <2>2, <2>3 DEF Sound, Knows
  <2>5. q.pc \in Writing => Backed(loops', mounts', v, q.rec)
    BY <2>2, <2>4, UnpublishedBacked DEF TaskSound, Writing
  <2> QED BY <1>5, <1>6, <2>1, <2>2, <2>4, <2>5
<1>9. ASSUME NEW v \in Volumes PROVE Sound(store'[v], disk', loops', mounts', v, NoCall)
  BY <1>7 DEF BInv, Idle
<1>10. \A v \in Volumes : StageTrue(v)'
  BY <1>1, SameStage DEF BInv
<1> QED BY <1>4, <1>8, <1>9, <1>10 DEF BInv

-------------------------------------------------------------------------------

LEMMA InitRecovers == RecoveryInit => BInv
<1> SUFFICES ASSUME RecoveryInit PROVE BInv
  OBVIOUS
<1>1. /\ \A v \in Volumes : store[v] = None /\ stage[v] = "new"
      /\ \A c \in Calls : call[c] = NoCall
      /\ stage \in [Volumes -> Stage]
  BY DEF RecoveryInit, Init, StoreInit, CallInit, Stage
<1>2. /\ \A n \in Nodes, v \in Volumes : ~disk[n][v].exists
      /\ \A n \in Nodes, v \in Volumes, t \in Targets : mounts[n][v][t].shows = None
      /\ NoAutoclear
  BY DEF RecoveryInit, Init, HostInit, NoFile, NoTarget, FreeDevice, NoAutoclear
<1>3. Knows(NoCall) /\ Confirms(NoCall, None) /\ NoCall.pc = "idle" /\ NoCall.vol = None
  BY DEF Knows, Confirms, NoCall
<1>4. ASSUME NEW v \in Volumes
      PROVE  StageTrue(v) /\ Sound(store[v], disk, loops, mounts, v, NoCall)
  BY <1>1, <1>2, <1>3 DEF StageTrue, InUse, Sound, Backed, Writing
<1>5. \A v \in Volumes, c \in Calls : call[c].vol # v
  BY <1>1, <1>3, NoneAssumption
<1> QED BY <1>1, <1>2, <1>4, <1>5 DEF BInv

(* The CO only asks for what the services offer, and every fault is one    *)
(* that they may meet.                                                     *)
LEMMA StepOfLvp == IInv /\ BInv /\ [RecoveryNext]_recoveryVars => [Next]_vars
<1> SUFFICES ASSUME IInv, BInv, [RecoveryNext]_recoveryVars PROVE [Next]_vars
  OBVIOUS
<1>1. ASSUME NEW v \in Volumes, Issue(v) PROVE Next
  BY <1>1, AskStarts DEF Issue, Next
<1>2. ASSUME NEW v \in Volumes, Claim(v) \/ Enlarge(v) \/ Retire(v) PROVE UNCHANGED vars
  BY <1>2 DEF Claim, Enlarge, Retire, Move
<1>3. ASSUME NEW c \in Calls, Handle(c) \/ Answered(c) PROVE Next
  BY <1>3 DEF Handle, Answered, Next
<1>4. CASE Disturb
  BY <1>4 DEF Disturb, CutOff, Restart, Next
<1>5. CASE UNCHANGED recoveryVars
  BY <1>5 DEF recoveryVars
<1> QED BY <1>1, <1>2, <1>3, <1>4, <1>5 DEF RecoveryNext

LEMMA NextRecovers == IInv /\ LInv /\ BInv /\ [RecoveryNext]_recoveryVars => BInv'
<1> SUFFICES ASSUME IInv, LInv, BInv, [RecoveryNext]_recoveryVars PROVE BInv'
  OBVIOUS
<1>1. ASSUME NEW v \in Volumes, Issue(v) PROVE BInv'
  BY <1>1, AskSound DEF Issue
<1>2. ASSUME NEW v \in Volumes, Claim(v) \/ Enlarge(v) \/ Retire(v) PROVE BInv'
  BY <1>2, MoveSound
<1>3. ASSUME NEW c \in Calls, Handle(c) PROVE BInv'
  BY <1>3, ControllerSound, NodeSound DEF Handle
<1>4. ASSUME NEW c \in Calls, Answered(c) PROVE BInv'
  BY <1>4, AnsweredSound
<1>5. CASE Disturb
  BY <1>5, CutOffSound, RestartSound DEF Disturb
<1>6. CASE UNCHANGED recoveryVars
  <2>1. UNCHANGED <<store, hostVars, call, stage>>
    BY <1>6 DEF recoveryVars, vars, hostVars
  <2>2. \A v \in Volumes : StageTrue(v)'
    BY <2>1, SameStage DEF BInv
  <2> QED BY <2>1, <2>2, OutsideStep DEF BInv, Idle
<1> QED BY <1>1, <1>2, <1>3, <1>4, <1>5, <1>6 DEF RecoveryNext

(* Under the CO and the faults of module Recovery, all that the records    *)
(* say is so on the node, however often calls are cut off, answers lost    *)
(* and the node restarted.                                                 *)
THEOREM Recovers == RecoverySpec => [](IInv /\ LInv /\ BInv)
<1>1. RecoveryInit => IInv /\ LInv /\ BInv
  BY InitSound, InitLifecycle, InitRecovers DEF RecoveryInit
<1>2. IInv /\ LInv /\ BInv /\ [RecoveryNext]_recoveryVars => (IInv /\ LInv /\ BInv)'
  <2> SUFFICES ASSUME IInv, LInv, BInv, [RecoveryNext]_recoveryVars
               PROVE  (IInv /\ LInv /\ BInv)'
    OBVIOUS
  <2>1. [Next]_vars
    BY StepOfLvp
  <2>2. LInv'
    BY <2>1, NextLifecycle, RecoveryAssumption DEF Refines
  <2> QED BY <2>1, <2>2, NextSound, NextRecovers
<1> QED BY <1>1, <1>2, PTL DEF RecoverySpec

(* So a volume that the CO has had mounted is mounted until it asks for    *)
(* the opposite, and of one it has had deleted nothing is left             *)
(* (node.rs:222-313, controller.rs:229-248).                               *)
THEOREM BeliefKept == RecoverySpec => []BeliefTrue
<1>1. IInv /\ LInv /\ BInv => BeliefTrue
  <2> SUFFICES ASSUME IInv, BInv, NEW v \in Volumes
               PROVE  /\ stage[v] \in InUse =>
                           \A n \in Nodes, t \in Targets : mounts[n][v][t].shows = v
                      /\ stage[v] = "gone" =>
                           ~Exists(v) /\ \A n \in Nodes : ~disk[n][v].exists
    BY DEF BeliefTrue, InUse
  <2>1. ASSUME stage[v] \in InUse
        PROVE  \A n \in Nodes, t \in Targets : mounts[n][v][t].shows = v
    <3>1. store[v] \in Volume /\ WellFormed(store[v]) /\ store[v].state = "NodePublished"
      BY <2>1 DEF BInv, StageTrue, Exists, IInv, TypeOK, RecordIntegrity
    <3>2. PICK s \in Targets : s \in store[v].mount_paths
      BY <3>1 DEF WellFormed, Volume
    <3>3. Backed(loops, mounts, v, store[v])
      <4>1. Unmounting(NoCall) = FALSE
        BY DEF Unmounting, NoCall
      <4>2. ASSUME NEW c \in Calls, call[c].vol = v PROVE ~Unmounting(call[c])
        BY <2>1, <4>2 DEF BInv, AskedFor, InUse, Unmounting
      <4> QED BY <4>1, <4>2 DEF BInv, Idle, Sound
    <3> QED BY <3>1, <3>2, <3>3, OneOfEach, NoRecordAssumption DEF Backed
  <2>2. ASSUME stage[v] = "gone"
        PROVE  ~Exists(v) /\ \A n \in Nodes : ~disk[n][v].exists
    BY <2>2 DEF BInv, StageTrue, Exists, Sound, Idle
  <2> QED BY <2>1, <2>2
<1> QED BY <1>1, Recovers, PTL
===============================================================================
