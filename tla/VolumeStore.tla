----------------------------- MODULE VolumeStore -----------------------------
(***************************************************************************)
(* The persistent volume records of lvp (src/store/volume.rs).  Every      *)
(* volume is one Kubernetes ConfigMap, lvp-vol-<name>, that holds the      *)
(* JSON of a store::Volume.  The Kubernetes API server executes one        *)
(* request at a time; nothing ties two requests of a handler together: no  *)
(* lock is taken and update() is a merge patch without a resourceVersion.  *)
(*                                                                         *)
(* Abstractions: a name, a path and a device are members of small sets;    *)
(* sizes are small naturals; valid_configs and mount_paths are sets (the   *)
(* code only asks for membership, emptiness and equality, and pushes a     *)
(* path only after checking that it is not there); host_path, which is     *)
(* host_base_path and the name, is the host_base_path: the name is the key *)
(* of the record.                                                          *)
(***************************************************************************)
EXTENDS Naturals

CONSTANTS
  Volumes,    \* names of volumes, hence of ConfigMaps
  Nodes,      \* nodes that run an instance of lvp
  Targets,    \* target paths; the CO keeps them unique per volume
  Devices,    \* loop devices of a node
  Bases,      \* host_base_path of CreateVolume, without slashes at its ends
  None        \* Option::None, and "no record", "nothing mounted", "free device"

VARIABLE store    \* store[v] is the record of v, or None

VolumeState == {"Open", "ControllerPublished", "NodePublished"}
Filesystem  == {"Ext4", "Xfs", "Bind"}
VolumeMode  == {"SingleNodeWriter", "SingleNodeReader",
                "SingleNodeSingleWriter", "SingleNodeMultiWriter"}

ASSUME NoneAssumption ==
  /\ None \notin Volumes
  /\ None \notin Nodes \cup Targets \cup Devices \cup Bases
  /\ None \notin Filesystem \cup VolumeMode

(* What the store has under a name: the record in the ConfigMap.           *)
Volume ==
  [size              : Nat,
   assigned_node_id  : Nodes \cup {None},
   state             : VolumeState,
   published_readonly: BOOLEAN,
   published_config  : VolumeMode \cup {None},
   host_path         : Bases,
   filesystem        : Filesystem,
   valid_configs     : SUBSET VolumeMode,
   loop_device       : Devices \cup {None},
   mount_paths       : SUBSET Targets]

(* The volume create_volume builds from its request.                       *)
NewVolume(base, fs, configs, size) ==
  [size |-> size, assigned_node_id |-> None, state |-> "Open",
   published_readonly |-> FALSE, published_config |-> None,
   host_path |-> base, filesystem |-> fs, valid_configs |-> configs,
   loop_device |-> None, mount_paths |-> {}]

ASSUME NoRecordAssumption == None \notin Volume

StoreInit == store = [v \in Volumes |-> None]

Exists(v) == store[v] # None

(***************************************************************************)
(* The API requests that write.  Each is an action on store and is         *)
(* disabled where the API server would refuse: POST of a name that exists  *)
(* (409), PATCH and DELETE of one that does not (404).                     *)
(***************************************************************************)
Post(v, r) ==
  /\ ~Exists(v)
  /\ store' = [store EXCEPT ![v] = r]

Patch(v, r) ==
  /\ Exists(v)
  /\ store' = [store EXCEPT ![v] = r]

Remove(v) ==
  /\ Exists(v)
  /\ store' = [store EXCEPT ![v] = None]
===============================================================================
