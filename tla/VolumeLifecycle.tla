---------------------------- MODULE VolumeLifecycle ----------------------------
(***************************************************************************)
(* What the record of a volume promises to everybody who reads it, the     *)
(* CSI sidecars above all: the life of a volume, one step at a time.       *)
(*   - it is created open and unassigned, and goes away only when open;    *)
(*   - Open <-> ControllerPublished <-> NodePublished is the only way up   *)
(*     and down, and nothing else changes on the way;                      *)
(*   - the node it is assigned to is chosen once;                          *)
(*   - it grows only while it is mounted, and never shrinks;               *)
(*   - its path, filesystem and capabilities are those of its creation.    *)
(***************************************************************************)
EXTENDS Naturals

CONSTANTS Volumes, Nodes, None

VARIABLE record   \* record[v]: a record of a volume, or None

Init == record = [v \in Volumes |-> None]

Same(v, fields) == \A f \in fields : record'[v][f] = record[v][f]

Created  == {"host_path", "filesystem", "valid_configs"}
Identity == Created \cup {"assigned_node_id", "size"}
Published == {"published_config", "published_readonly"}
Mounted  == {"loop_device", "mount_paths"}

Create(v) ==
  /\ record[v] = None /\ record'[v] # None
  /\ record'[v].state = "Open" /\ record'[v].assigned_node_id = None

Destroy(v) == record[v] # None /\ record[v].state = "Open" /\ record'[v] = None

Move(v, from, to) ==
  /\ record[v] # None /\ record'[v] # None
  /\ record[v].state = from /\ record'[v].state = to

ControllerPublish(v) ==
  Move(v, "Open", "ControllerPublished") /\ Same(v, Identity \cup Mounted)

ControllerUnpublish(v) ==
  Move(v, "ControllerPublished", "Open") /\ Same(v, Identity \cup Mounted)

NodePublish(v) ==
  /\ Move(v, "ControllerPublished", "NodePublished")
  /\ Same(v, Identity \cup Published)

NodeUnpublish(v) ==
  /\ Move(v, "NodePublished", "ControllerPublished")
  /\ Same(v, Identity \cup Published)

(* A further target path, or one of several less.                          *)
Remount(v) ==
  /\ Move(v, "NodePublished", "NodePublished")
  /\ Same(v, Identity \cup Published \cup {"loop_device"})

Assign(v) ==
  /\ Move(v, record[v].state, record[v].state)
  /\ record[v].assigned_node_id = None /\ record'[v].assigned_node_id \in Nodes
  /\ Same(v, Created \cup {"size"} \cup Published \cup Mounted)

Grow(v) ==
  /\ Move(v, "NodePublished", "NodePublished")
  /\ record'[v].size > record[v].size
  /\ Same(v, Created \cup {"assigned_node_id"} \cup Published \cup Mounted)

Step(v) ==
  \/ Create(v) \/ Destroy(v)
  \/ ControllerPublish(v) \/ ControllerUnpublish(v)
  \/ NodePublish(v) \/ NodeUnpublish(v) \/ Remount(v)
  \/ Assign(v) \/ Grow(v)

Next ==
  \E v \in Volumes :
    /\ Step(v)
    /\ \A w \in Volumes \ {v} : record'[w] = record[w]

Spec == Init /\ [][Next]_record
===============================================================================
