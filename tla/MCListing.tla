------------------------------- MODULE MCListing -------------------------------
(* Instances of the listing for TLC.                                       *)
EXTENDS Listing

(* A volume without a node, and one that is published on a node.           *)
MCRecords ==
  LET new == NewVolume(CHOOSE b \in Bases : TRUE, "Ext4", {"SingleNodeWriter"}, 1)
  IN  {new, [new EXCEPT !.state = "NodePublished", !.assigned_node_id = CHOOSE n \in Nodes : TRUE,
                        !.published_config = "SingleNodeWriter",
                        !.loop_device = CHOOSE d \in Devices : TRUE,
                        !.mount_paths = Targets]}
===============================================================================
