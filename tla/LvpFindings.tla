------------------------------ MODULE LvpFindings ------------------------------
(***************************************************************************)
(* What the documentation of lvp, the CSI specification it implements or   *)
(* its own comments say of the program, and what it does not do.  TLC      *)
(* finds each of these properties violated.                                *)
(***************************************************************************)
EXTENDS LvpProperties

Answer(op, code) == {c \in Calls : call[c].op = op /\ call[c].code = code}

(* When NodeUnpublish answers OK, nothing is left at the target            *)
(* (csi.proto:1445).  A NodePublish that ended between mount and update    *)
(* leaves a mount that no record knows of, and node.rs:344-348 answers OK  *)
(* for a path it does not find in the record.                              *)
UnpublishedIsGone ==
  \A c \in Answer("NodeUnpublish", "OK") :
    mounts[call[c].node][call[c].vol][call[c].target].shows = None

(* A target path of a volume shows this volume (csi.proto:1396).  The loop *)
(* device in a record is trusted after a reboot, when it may have been     *)
(* given to the file of another volume (node.rs:42-44,287-288).            *)
TargetShowsItsVolume ==
  \A n \in Nodes, v \in Volumes, t \in Targets :
    mounts[n][v][t].shows \in {v, None, Deleted}

(* Expansion makes a volume larger (README.md:39, node.rs:82).  When the   *)
(* record has not been updated after an expansion, a smaller request cuts  *)
(* the file off under its filesystem (node.rs:472,85).                     *)
FileCoversFilesystem ==
  \A n \in Nodes, v \in Volumes : disk[n][v].exists => disk[n][v].fs <= disk[n][v].size

(* Without faults a volume that is open can be deleted (csi.proto:313).    *)
(* One that was never mounted has no file, and controller.rs:238-244       *)
(* insists on removing it.                                                 *)
DeletionSucceeds == Answer("DeleteVolume", "Internal") = {}

(* CreateVolume may be repeated with the same name and the same request    *)
(* (csi.proto:314-317).  It is refused once the volume is assigned to a    *)
(* node, since the new request never is (controller.rs:180).               *)
CreationRepeatable ==
  \A c \in Answer("CreateVolume", "AlreadyExists") :
    \/ Loaded(c).host_path # call[c].host_base_path
    \/ Loaded(c).filesystem # call[c].filesystem
    \/ Loaded(c).valid_configs # call[c].configs
    \/ Loaded(c).size # call[c].size
===============================================================================
