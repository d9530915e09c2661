------------------------------- MODULE Recovery -------------------------------
(***************************************************************************)
(* lvp under a CO that takes volumes through their life and repeats every  *)
(* call until it is answered OK, while faults cut calls off or lose their  *)
(* answers.  The CO is outside the repository; it is modelled as csi.proto *)
(* has it: one call in flight per volume, the same request each time.      *)
(*                                                                         *)
(* Some faults no repetition mends: those at the awaits of Critical, and a *)
(* drop at those of Underway, where what was awaited goes on and leads to  *)
(* a critical await (the findings and the README say what happens).  The   *)
(* properties are about all others: they only delay.                       *)
(***************************************************************************)
EXTENDS LvpProperties

CONSTANT MaxFaults    \* bound: how many faults happen

VARIABLES
  stage,     \* stage[v]: what the CO is doing with v
  faults     \* how many faults may still happen

recoveryVars == <<vars, stage, faults>>

Stage == {"new", "create", "attach", "mount", "used", "expand", "enlarged",
          "unmount", "detach", "delete", "gone"}

(* The CO repeats a request with the values it had.                        *)
ASSUME RecoveryAssumption ==
  /\ Serial /\ MaxFaults \in Nat
  /\ \A s, t \in Bases : s = t
  /\ \A s, t \in ConfigSets : s = t
  /\ \A s, t \in Modes : s = t
  /\ \A s, t \in Filesystems : s = t
  /\ \A s, t \in RequestFilesystems : s = t
  /\ \A s, t \in Readonlys : s = t
  /\ \A s, t \in Nodes : s = t
  /\ \A s, t \in Targets : s = t

RecoveryInit ==
  /\ Init
  /\ stage = [v \in Volumes |-> "new"]
  /\ faults = MaxFaults

-------------------------------------------------------------------------------
(* The CO.                                                                 *)

Smallest == CHOOSE s \in Sizes : \A t \in Sizes : s <= t
Largest  == CHOOSE s \in Sizes : \A t \in Sizes : t <= s

(* The next call for v.                                                    *)
Ask(c, v) ==
  \/ stage[v] = "create"  /\ CreateVolume(c, v) /\ call'[c].size = Smallest
  \/ stage[v] = "attach"  /\ ControllerPublish(c, v)
  \/ stage[v] = "mount"   /\ NodePublish(c, v)
  \/ stage[v] = "expand"  /\ NodeExpand(c, v) /\ call'[c].size = Largest
  \/ stage[v] = "unmount" /\ NodeUnpublish(c, v)
  \/ stage[v] = "detach"  /\ ControllerUnpublish(c, v)
  \/ stage[v] = "delete"  /\ DeleteVolume(c, v)

Issue(v) ==
  /\ \E c \in Calls : Ask(c, v)
  /\ UNCHANGED <<stage, faults>>

After ==
  [create |-> "attach", attach |-> "mount", mount |-> "used", expand |-> "enlarged",
   unmount |-> "detach", detach |-> "delete", delete |-> "gone"]

(* An OK takes the volume on; after any other answer the CO asks again.    *)
Answered(c) ==
  LET v == call[c].vol
  IN  /\ Return(c)
      /\ stage' = IF call[c].code = "OK" THEN [stage EXCEPT ![v] = After[@]] ELSE stage
      /\ UNCHANGED faults

(* What users ask of the CO: a volume, more room in it, and its end.       *)
Move(v, from, to) ==
  /\ stage[v] \in from
  /\ stage' = [stage EXCEPT ![v] = to]
  /\ UNCHANGED <<vars, faults>>

Claim(v)   == Move(v, {"new"}, "create")
Enlarge(v) == Move(v, {"used"}, "expand")
Retire(v)  == Move(v, {"used", "enlarged"}, "unmount")

-------------------------------------------------------------------------------
(* Faults.                                                                 *)

(* The file is there and has no length or no filesystem; a mount is made   *)
(* or undone and the record does not say so; the file is gone and the      *)
(* record is not.                                                          *)
Critical(c) ==
  \/ \E pc \in {"allocate", "mkfs", "patch"} : At(c, "NodePublish", pc)
  \/ \E pc \in {"unloop", "patch"} : At(c, "NodeUnpublish", pc)
  \/ At(c, "DeleteVolume", "delete")

(* The file, the mount, the unmount or the removal of the file is under    *)
(* way: it may fail, but a drop does not stop it.                          *)
Underway(c) ==
  \/ \E pc \in {"create", "mount"} : At(c, "NodePublish", pc)
  \/ At(c, "NodeUnpublish", "umount")
  \/ At(c, "DeleteVolume", "unlink")

(* A reboot takes mounts away, so that a volume that is mounted for its    *)
(* record is lost to lvp, and one whose record is not yet written is not.  *)
Recorded == \E v \in Volumes : Exists(v) /\ store[v].state = "NodePublished"

(* A fault hits a call, or its answer on the way to the CO.                *)
CutOff(c) ==
  /\ ~Critical(c)
  /\ \/ Fail(c)
     \/ ~Underway(c) /\ Cancel(c)
     \/ "cancel" \in Faults /\ Return(c)

Restart(n) ==
  /\ ~Recorded
  /\ \A c \in Calls : Critical(c) \/ Underway(c) =>
       At(c, "NodePublish", "mount") \/ At(c, "NodePublish", "patch")
  /\ Reboot(n)

Disturb ==
  /\ faults > 0
  /\ faults' = faults - 1
  /\ UNCHANGED stage
  /\ (\E c \in Calls : CutOff(c)) \/ (\E n \in Nodes : Restart(n))

-------------------------------------------------------------------------------

Handle(c) == (ControllerStep(c) \/ NodeStep(c)) /\ UNCHANGED <<stage, faults>>

RecoveryNext ==
  \/ \E v \in Volumes : Issue(v) \/ Claim(v) \/ Enlarge(v) \/ Retire(v)
  \/ \E c \in Calls : Handle(c) \/ Answered(c)
  \/ Disturb

(* tokio runs every task that can run, and what a task awaits ends; the CO *)
(* repeats what was not answered OK; users come to an end with a volume.   *)
(* Faults and claims need not happen.                                      *)
RecoverySpec ==
  /\ RecoveryInit /\ [][RecoveryNext]_recoveryVars
  /\ \A v \in Volumes : WF_recoveryVars(Issue(v)) /\ WF_recoveryVars(Retire(v))
  /\ \A c \in Calls : WF_recoveryVars(Handle(c)) /\ WF_recoveryVars(Answered(c))

-------------------------------------------------------------------------------
(* What the CO believes after the answers it got is so, whatever was cut   *)
(* off or answered twice on the way: a volume it has had mounted is        *)
(* mounted until it asks for the opposite, and of one it has had deleted   *)
(* neither record nor file is left (node.rs:222-313, controller.rs:229-    *)
(* 248).                                                                   *)
BeliefTrue ==
  \A v \in Volumes :
    /\ stage[v] \in {"used", "expand", "enlarged"} =>
         \A n \in Nodes, t \in Targets : mounts[n][v][t].shows = v
    /\ stage[v] = "gone" => ~Exists(v) /\ \A n \in Nodes : ~disk[n][v].exists

(* A volume that is claimed comes to be mounted, although answers are lost *)
(* and calls fail at any await that is not critical, or are dropped at any *)
(* that is not under way either (what they awaited done or not), and       *)
(* although another volume has the loop device for a while: what an        *)
(* attempt leaves behind (a record, a file with its filesystem, a device)  *)
(* the next one takes up (volume.rs:74-89, controller.rs:171-191,283-302,  *)
(* node.rs:262-288).                                                       *)
EventuallyUsed == \A v \in Volumes : stage[v] = "create" ~> stage[v] = "used"

(* An expansion that was cut off, or whose answer was lost, is completed   *)
(* by repeating it (node.rs:467-497).                                      *)
EventuallyEnlarged == \A v \in Volumes : stage[v] = "expand" ~> stage[v] = "enlarged"

(* A volume that is no longer used is unpublished and deleted by repeating *)
(* each call until it is OK, with the same faults (node.rs:344-370,        *)
(* controller.rs:218-248,345-361).  A drop of umount or of the removal of  *)
(* the file is not among them.                                             *)
EventuallyGone == \A v \in Volumes : stage[v] = "unmount" ~> stage[v] = "gone"
===============================================================================
