------------------------------ MODULE MCRequests ------------------------------
(* An instance of Requests for TLC.                                        *)
EXTENDS Requests

Mounts(modes, fs_types) ==
  [access_mode : modes, access_type : {"Mount"}, fs_type : fs_types, mount_flags : {FALSE}]

(* Two modes with every filesystem, and one capability for each error.     *)
MCCapabilities ==
  Mounts({"SingleNodeWriter", "SingleNodeReaderOnly"}, {"", "ext4", "xfs"})
    \cup Mounts({"MultiNodeReaderOnly"}, {""})
    \cup Mounts({"SingleNodeWriter"}, {"zfs"})
    \cup {[access_mode |-> None, access_type |-> "Mount", fs_type |-> "", mount_flags |-> FALSE],
          [access_mode |-> "SingleNodeWriter", access_type |-> "Block", fs_type |-> "",
           mount_flags |-> FALSE],
          [access_mode |-> "SingleNodeWriter", access_type |-> "Mount", fs_type |-> "",
           mount_flags |-> TRUE]}

(* Slashes in front, behind, inside, and nothing else; "..".               *)
MCBases ==
  {<<"/">>, <<"d">>, <<"/", "d">>, <<"d", "/">>, <<"/", "/", "d", "/", "/">>,
   <<"d", "/", "d">>, <<"/", ".", ".", "/", "d">>}

(* Names that are refused, and names that only look like them.             *)
MCNames ==
  {<<>>, <<"v">>, <<"v", ".", "v">>, <<"v", ".", ".">>, <<".", ".">>, <<".">>,
   <<".", "/">>, <<"v", "/", ".", ".">>, <<".", ".", "/", "v">>}

MCHostPrefix == <<"/", "h">>
===============================================================================
