-------------------------------- MODULE Tasks ---------------------------------
(***************************************************************************)
(* The tasks that run the CSI handlers of src/controller.rs and            *)
(* src/node.rs, concurrently, under tokio.                                 *)
(*                                                                         *)
(* A handler runs without interruption from one .await to the next, so     *)
(* each awaited operation, with the code up to the following await, is one *)
(* action.  call[c] is a slot for one task: its request, the await it is   *)
(* at, and the locals that outlive it.  The copy of the record a handler   *)
(* loaded is the local rec; nothing keeps it up to date.                   *)
(*                                                                         *)
(* Requests reach this model after the checks of their syntax (empty       *)
(* fields, unknown parameters, unsupported capabilities, names with "..";  *)
(* module Requests), which return InvalidArgument before any state is read.*)
(***************************************************************************)
EXTENDS Host

CONSTANTS
  Calls,              \* slots for tasks; how many RPCs may run at once
  Serial,             \* TRUE: the CO has one call in flight per volume
  Faults,             \* which faults may happen
  Sizes,              \* required_bytes of requests
  ConfigSets,         \* volume_capabilities of CreateVolume, as valid_configs
  Modes,              \* access mode of the other requests
  Filesystems,        \* filesystem of a CreateVolume request
  RequestFilesystems, \* fs_type of the other requests, None if it is empty
  Readonlys           \* readonly of requests

Fault == {"fail", "cancel", "reboot"}

ASSUME RequestAssumption ==
  /\ Serial \in BOOLEAN /\ Faults \subseteq Fault
  /\ Sizes \subseteq Nat
  /\ ConfigSets \subseteq SUBSET VolumeMode /\ Modes \subseteq VolumeMode
  /\ Filesystems \subseteq Filesystem
  /\ RequestFilesystems \subseteq Filesystem \cup {None}
  /\ Readonlys \subseteq BOOLEAN

VARIABLE call

vars == <<store, disk, loops, mounts, call>>

Operation == {"CreateVolume", "DeleteVolume", "ControllerPublish",
              "ControllerUnpublish", "NodePublish", "NodeUnpublish", "NodeExpand",
              "NodeGetStats"}

Await == {"get", "post", "load", "unlink", "delete", "patch", "mkdir", "stat",
          "make", "create", "allocate", "mkfs", "assign", "losetup", "mount",
          "umount", "unloop", "rmdir", "truncate", "grow", "statfs"}

Code == {"OK", "NotFound", "AlreadyExists", "FailedPrecondition",
         "InvalidArgument", "Internal"}

(* node is the instance that serves the call; for ControllerPublish, which *)
(* touches no node, it is the node_id of the request.                      *)
Call ==
  [op: Operation \cup {None}, pc: Await \cup {"idle", "reply"},
   vol: Volumes \cup {None}, node: Nodes \cup {None}, target: Targets \cup {None},
   size: Nat, configs: SUBSET VolumeMode, config: VolumeMode \cup {None},
   host_base_path: Bases \cup {None},
   filesystem: Filesystem \cup {None}, readonly: BOOLEAN,
   rec: Volume \cup {None}, dev: Devices \cup {None}, code: Code \cup {None}]

NoCall ==
  [op |-> None, pc |-> "idle", vol |-> None, node |-> None, target |-> None,
   size |-> 0, configs |-> {}, config |-> None, host_base_path |-> None,
   filesystem |-> None, readonly |-> FALSE, rec |-> None, dev |-> None, code |-> None]

ASSUME CallAssumption == None \notin Operation \cup Code

CallInit == call = [c \in Calls |-> NoCall]

-------------------------------------------------------------------------------
(* How a task moves on.                                                    *)

At(c, op, pc) == call[c].op = op /\ call[c].pc = pc

Running(c) == call[c].pc \notin {"idle", "reply"}

Start(c, v, request) ==
  /\ call[c] = NoCall
  /\ Serial => \A d \in Calls : call[d].vol # v
  /\ call' = [call EXCEPT ![c] = request]
  /\ UNCHANGED <<store, hostVars>>

Hold(c, pc, rec) == call' = [call EXCEPT ![c] = [@ EXCEPT !.pc = pc, !.rec = rec]]

HoldDevice(c, pc, rec, d) ==
  call' = [call EXCEPT ![c] = [@ EXCEPT !.pc = pc, !.rec = rec, !.dev = d]]

Goto(c, pc) == Hold(c, pc, call[c].rec)

Reply(c, code) ==
  call' = [call EXCEPT ![c] = [@ EXCEPT !.pc = "reply", !.rec = None,
                                        !.dev = None, !.code = code]]

(* The record of the volume, read from the store: Volume::load.            *)
Loaded(c) == store[call[c].vol]

(* After a load: return early, or go on to the await at pc with rec.       *)
Decide(c, verdict, pc, rec) ==
  /\ IF verdict = "Proceed" THEN Hold(c, pc, rec) ELSE Reply(c, verdict)
  /\ UNCHANGED <<store, hostVars>>

(* Volume::update: the whole record is written, whatever the store holds   *)
(* by now.                                                                 *)
Update(c, next) ==
  /\ \/ Patch(call[c].vol, call[c].rec) /\ next
     \/ ~Exists(call[c].vol) /\ Reply(c, "Internal") /\ UNCHANGED store
  /\ UNCHANGED hostVars

Compatible(r, config, fs) ==
  config \in r.valid_configs /\ (fs = None \/ fs = r.filesystem)

\* Mutant: a volume follows any request to another node.
NeverLocked(r, n) == FALSE

LockedElsewhere(r, n) == r.assigned_node_id # None /\ r.assigned_node_id # n
===============================================================================
