-------------------------- MODULE ControllerService ---------------------------
(***************************************************************************)
(* The controller service: the handlers of src/controller.rs that change   *)
(* state.  An operator named for an RPC is its arrival; the ones after it  *)
(* are its awaits, in order.                                               *)
(***************************************************************************)
EXTENDS Tasks

(* CreateVolume                                                            *)

CreateVolume(c, v) ==
  \E base \in Bases, fs \in Filesystems, configs \in ConfigSets, size \in Sizes :
    Start(c, v, [NoCall EXCEPT !.op = "CreateVolume", !.pc = "get", !.vol = v,
                               !.host_base_path = base, !.filesystem = fs,
                               !.configs = configs, !.size = size])

Requested(c) ==
  NewVolume(call[c].host_base_path, call[c].filesystem, call[c].configs, call[c].size)

(* get_opt of Volume::create                                               *)
CreateVolumeGet(c) ==
  /\ At(c, "CreateVolume", "get")
  /\ Goto(c, IF Exists(call[c].vol) THEN "load" ELSE "post")
  /\ UNCHANGED <<store, hostVars>>

(* The store may have got the name since the get.                          *)
CreateVolumePost(c) ==
  /\ At(c, "CreateVolume", "post")
  /\ \/ Post(call[c].vol, Requested(c)) /\ Reply(c, "OK")
     \/ Exists(call[c].vol) /\ Reply(c, "Internal") /\ UNCHANGED store
  /\ UNCHANGED hostVars

SameVolume(old, new) ==
  /\ old.valid_configs = new.valid_configs
  /\ old.filesystem = new.filesystem
  /\ old.host_path = new.host_path
  /\ old.assigned_node_id = new.assigned_node_id
  /\ old.size = new.size

CreateVolumeLoad(c) ==
  /\ At(c, "CreateVolume", "load")
  /\ Reply(c, IF Exists(call[c].vol) /\ SameVolume(Loaded(c), Requested(c))
              THEN "OK" ELSE "AlreadyExists")
  /\ UNCHANGED <<store, hostVars>>

-------------------------------------------------------------------------------
(* DeleteVolume                                                            *)

DeleteVolume(c, v) ==
  \E n \in Nodes :
    Start(c, v, [NoCall EXCEPT !.op = "DeleteVolume", !.pc = "load", !.vol = v,
                               !.node = n])

\* Mutant: the state of the volume is not checked.
DeleteAnyState(r) == IF r = None THEN "OK" ELSE "Proceed"

\* Mutant: a volume that is gone is not found.
GoneIsAnError(r) ==
  IF r = None THEN "NotFound"
  ELSE IF r.state # "Open" THEN "FailedPrecondition"
  ELSE "Proceed"

DeleteVerdict(r) ==
  IF r = None THEN "OK"
  ELSE IF r.state # "Open" THEN "FailedPrecondition"
  ELSE "Proceed"

DeleteVolumeLoad(c) ==
  /\ At(c, "DeleteVolume", "load")
  /\ Decide(c, DeleteVerdict(Loaded(c)), "unlink", Loaded(c))

(* No file, no deletion: the error of remove_file is returned.             *)
DeleteVolumeUnlink(c) ==
  /\ At(c, "DeleteVolume", "unlink")
  /\ \/ Unlink(call[c].node, call[c].vol) /\ Goto(c, "delete")
     \/ /\ ~disk[call[c].node][call[c].vol].exists
        /\ Reply(c, "Internal")
        /\ UNCHANGED hostVars
  /\ UNCHANGED store

DeleteVolumeDelete(c) ==
  /\ At(c, "DeleteVolume", "delete")
  /\ \/ Remove(call[c].vol) /\ Reply(c, "OK")
     \/ ~Exists(call[c].vol) /\ Reply(c, "Internal") /\ UNCHANGED store
  /\ UNCHANGED hostVars

-------------------------------------------------------------------------------
(* ControllerPublishVolume and ControllerUnpublishVolume                   *)

ControllerPublish(c, v) ==
  \E n \in Nodes, config \in Modes, fs \in RequestFilesystems, ro \in Readonlys :
    Start(c, v, [NoCall EXCEPT !.op = "ControllerPublish", !.pc = "load", !.vol = v,
                               !.node = n, !.config = config, !.filesystem = fs,
                               !.readonly = ro])

ControllerPublishVerdict(q, r) ==
  IF r = None \/ LockedElsewhere(r, q.node) THEN "NotFound"
  ELSE IF r.state = "NodePublished" THEN "FailedPrecondition"
  ELSE IF r.state = "ControllerPublished"
    THEN IF Compatible(r, q.config, q.filesystem) /\ r.published_readonly = q.readonly
         THEN "OK" ELSE "AlreadyExists"
  ELSE IF q.config \notin r.valid_configs THEN "InvalidArgument"
  ELSE "Proceed"

ControllerPublished(r, q) ==
  [r EXCEPT !.state = "ControllerPublished", !.published_config = q.config,
            !.published_readonly = q.readonly]

ControllerPublishLoad(c) ==
  /\ At(c, "ControllerPublish", "load")
  /\ Decide(c, ControllerPublishVerdict(call[c], Loaded(c)),
            "patch", ControllerPublished(Loaded(c), call[c]))

ControllerPublishPatch(c) ==
  /\ At(c, "ControllerPublish", "patch")
  /\ Update(c, Reply(c, "OK"))

(* The node_id of the request is not looked at.                            *)
ControllerUnpublish(c, v) ==
  Start(c, v, [NoCall EXCEPT !.op = "ControllerUnpublish", !.pc = "load", !.vol = v])

ControllerUnpublishVerdict(r) ==
  IF r = None THEN "OK"
  ELSE IF r.state = "NodePublished" THEN "FailedPrecondition"
  ELSE IF r.state = "Open" THEN "OK"
  ELSE "Proceed"

\* Mutant: published_readonly keeps its value.
StillReadonly(r) == [r EXCEPT !.state = "Open", !.published_config = None]

ControllerUnpublished(r) ==
  [r EXCEPT !.state = "Open", !.published_config = None, !.published_readonly = FALSE]

ControllerUnpublishLoad(c) ==
  /\ At(c, "ControllerUnpublish", "load")
  /\ Decide(c, ControllerUnpublishVerdict(Loaded(c)),
            "patch", ControllerUnpublished(Loaded(c)))

ControllerUnpublishPatch(c) ==
  /\ At(c, "ControllerUnpublish", "patch")
  /\ Update(c, Reply(c, "OK"))
===============================================================================
