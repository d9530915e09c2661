------------------------------- MODULE Requests -------------------------------
(***************************************************************************)
(* What the handlers compute from a request before they touch anything:    *)
(* the name, parameters and capabilities of CreateVolume and what becomes  *)
(* of them in ValidateVolumeCapabilities, the path of a backing file, and  *)
(* the figures made of statvfs (src/controller.rs, src/node.rs,            *)
(* src/statfs.rs).                                                         *)
(*                                                                         *)
(* A path is a sequence of characters, of which "/" and "." matter;        *)
(* integers wrap at Modulus in place of 2^64.  What the API server makes   *)
(* of the name of a volume is not this module's business.                  *)
(***************************************************************************)
EXTENDS Integers, SequencesExt

CONSTANTS
  None,
  Capabilities,      \* VolumeCapability messages of requests
  MaxCapabilities,   \* bound: how many of them a request has
  Names,             \* name of CreateVolume
  Bases,             \* values of the parameter host_base_path
  HostPrefix,        \* host_prefix of the configuration
  FsTypes,           \* values of the parameter fs_type
  Blocks,            \* bound: block counts of statvfs are below it
  BlockSizes,        \* f_bsize of statvfs
  Modulus            \* how many values u64 and i64 have

(* statvfs64 of a filesystem: blocks that are available are free.          *)
Statvfs ==
  {s \in [f_blocks : 0..Blocks, f_bfree : 0..Blocks, f_bavail : 0..Blocks,
          f_bsize : BlockSizes] :
     s.f_bavail <= s.f_bfree /\ s.f_bfree <= s.f_blocks}

ASSUME NoneAssumption ==
  /\ None \notin {"", "ext4", "xfs", "bind", "Ext4", "Xfs", "Bind"}
  /\ None \notin {"OK", "InvalidArgument", "AlreadyExists"}
  /\ None \notin Seq(Capabilities)
  /\ None \notin Statvfs

ASSUME RequestsAssumption ==
  /\ MaxCapabilities \in Nat
  /\ \A path \in Names \cup Bases \cup {HostPrefix} : path \in Seq(Range(path))
  /\ Modulus \in Nat \ {0} /\ Modulus % 2 = 0
  /\ Blocks \in 0 .. Modulus - 1
  /\ BlockSizes \subseteq 0 .. Modulus - 1

VARIABLES
  request,   \* the request a handler got first
  volume,    \* the volume CreateVolume made of it, or None
  asked,     \* the capabilities ValidateVolumeCapabilities was asked about
  answer     \* the code, or the figures, of the last answer

vars == <<request, volume, asked, answer>>

-------------------------------------------------------------------------------
(* Capabilities.                                                           *)

FilesystemOf == [ext4 |-> "Ext4", xfs |-> "Xfs", bind |-> "Bind"]

Filesystems == DOMAIN FilesystemOf

ModeOf ==
  [SingleNodeWriter       |-> "SingleNodeWriter",
   SingleNodeReaderOnly   |-> "SingleNodeReader",
   SingleNodeSingleWriter |-> "SingleNodeSingleWriter",
   SingleNodeMultiWriter  |-> "SingleNodeMultiWriter"]

Parses(c) ==
  /\ c.access_mode \in DOMAIN ModeOf
  /\ c.access_type = "Mount"
  /\ c.fs_type \in Filesystems \cup {""}
  /\ ~c.mount_flags

\* Mutant: the mode of the protocol is stored as it came.
ConfigAsSent(c) == c.access_mode

Config(c) == ModeOf[c.access_mode]

FilesystemNamed(c) == IF c.fs_type = "" THEN None ELSE FilesystemOf[c.fs_type]

\* Mutant: the last filesystem named wins.
OverridingCapability(acc, c) ==
  LET fs == FilesystemNamed(c)
  IN  IF ~acc.ok \/ ~Parses(c) THEN [acc EXCEPT !.ok = FALSE]
      ELSE [acc EXCEPT !.configs = Append(@, Config(c)),
                       !.filesystem = IF fs = None THEN @ ELSE fs]

(* One turn of the loop over volume_capabilities.                          *)
AddCapability(acc, c) ==
  LET fs == FilesystemNamed(c)
  IN  IF ~acc.ok \/ ~Parses(c) \/ (None \notin {acc.filesystem, fs} /\ acc.filesystem # fs)
      THEN [acc EXCEPT !.ok = FALSE]
      ELSE [acc EXCEPT !.configs = Append(@, Config(c)),
                       !.filesystem = IF @ = None THEN fs ELSE @]

(* The parameter fs_type is read before the capabilities.                  *)
Parsed(r) ==
  FoldLeft(AddCapability,
           [ok         |-> r.fs_type \in Filesystems \cup {None},
            configs    |-> <<>>,
            filesystem |-> IF r.fs_type \in Filesystems THEN FilesystemOf[r.fs_type]
                           ELSE None],
           r.capabilities)

-------------------------------------------------------------------------------
(* Paths.                                                                  *)

IsSlash(x) == x = "/"

\* Mutant: the slash in front stays.
TrimEnd(path) ==
  LET kept == {i \in DOMAIN path : ~IsSlash(path[i])}
  IN  IF kept = {} THEN <<>> ELSE SubSeq(path, 1, Max(kept))

(* The five tests of the name.                                             *)
Includes(path, part) ==
  \E i \in 0 .. Len(path) - Len(part) :
    \A j \in DOMAIN part : path[i + j] = part[j]

ValidName(name) ==
  /\ ~Includes(name, <<"/", ".", ".">>) /\ ~Includes(name, <<".", ".", "/">>)
  /\ name \notin {<<".", ".">>, <<".">>, <<".", "/">>}

(* The two while loops over host_base_path.                                *)
Trim(path) ==
  LET kept == {i \in DOMAIN path : ~IsSlash(path[i])}
  IN  IF kept = {} THEN <<>> ELSE SubSeq(path, Min(kept), Max(kept))

HostPath(base, name) == Trim(base) \o <<"/">> \o name

IsAbsolute(path) == path # <<>> /\ IsSlash(Head(path))

(* Path::join: an absolute path replaces the one it is joined to.          *)
Join(path, other) == IF IsAbsolute(other) THEN other ELSE path \o <<"/">> \o other

(* Where node_publish_volume looks for the file, and where                 *)
(* node_expand_volume and delete_volume do.                                *)
PublishPath(v) ==
  Join(HostPrefix, IF IsAbsolute(v.host_path) THEN Tail(v.host_path) ELSE v.host_path)

TotalPath(v) == Join(HostPrefix, v.host_path)

-------------------------------------------------------------------------------
(* Handlers.                                                               *)

(* Every error is InvalidArgument: their order does not matter.            *)
Acceptable(r) ==
  /\ r.name # <<>>
  /\ r.capabilities # <<>>
  /\ ~r.unknown_parameter
  /\ r.host_base_path # None
  /\ Parsed(r).ok
  /\ ValidName(r.name)

NewVolume(r) ==
  [filesystem    |-> IF Parsed(r).filesystem = None THEN "Ext4" ELSE Parsed(r).filesystem,
   valid_configs |-> Parsed(r).configs,
   host_path     |-> HostPath(r.host_base_path, r.name)]

CreateVolume ==
  /\ request.rpc = "CreateVolume" /\ answer = None
  /\ IF Acceptable(request)
     THEN volume' = NewVolume(request) /\ answer' = "OK"
     ELSE answer' = "InvalidArgument" /\ UNCHANGED volume
  /\ UNCHANGED <<request, asked>>

\* Mutant: a volume without a wish of its own takes any filesystem.
AnyFilesystem(v, c) == Config(c) \in Range(v.valid_configs)

Fits(v, c) ==
  /\ Config(c) \in Range(v.valid_configs)
  /\ FilesystemNamed(c) \in {None, v.filesystem}

(* The first capability that is wrong decides.                             *)
Validation(v, capabilities) ==
  LET wrong == {i \in DOMAIN capabilities :
                  ~Parses(capabilities[i]) \/ ~Fits(v, capabilities[i])}
  IN  IF capabilities = <<>> THEN "InvalidArgument"
      ELSE IF wrong = {} THEN "OK"
      ELSE IF Parses(capabilities[Min(wrong)]) THEN "AlreadyExists" ELSE "InvalidArgument"

ValidateVolumeCapabilities ==
  /\ volume # None /\ asked = None
  /\ \E capabilities \in BoundedSeq(Capabilities, MaxCapabilities) :
       /\ asked' = capabilities
       /\ answer' = Validation(volume, capabilities)
  /\ UNCHANGED <<request, volume>>

-------------------------------------------------------------------------------
(* Statistics.                                                             *)

(* The reply of statvfs64, or None if it fails.                            *)
Statfs(out) ==
  IF out = None THEN None
  ELSE [block_size               |-> out.f_bsize,
        block_count              |-> out.f_blocks,
        blocks_free              |-> out.f_bfree,
        blocks_free_unprivileged |-> out.f_bavail]

(* A product of two u64, as i64.                                           *)
Product(a, b) == (a * b) % Modulus

AsSigned(x) == IF 2 * x < Modulus THEN x ELSE x - Modulus

Difference(a, b) == (a - b) % Modulus

\* Mutant: reserved blocks are counted neither as used nor as available.
UsedOfFree(s) ==
  [available |-> AsSigned(Product(s.blocks_free_unprivileged, s.block_size)),
   total     |-> AsSigned(Product(s.block_count, s.block_size)),
   used      |-> AsSigned(Product(Difference(s.block_count, s.blocks_free), s.block_size))]

Usage(s) ==
  [available |-> AsSigned(Product(s.blocks_free_unprivileged, s.block_size)),
   total     |-> AsSigned(Product(s.block_count, s.block_size)),
   used      |-> AsSigned(Product(Difference(s.block_count, s.blocks_free_unprivileged),
                                  s.block_size))]

NodeGetVolumeStats ==
  /\ request.rpc = "NodeGetVolumeStats" /\ answer = None
  /\ answer' = IF request.statvfs = None THEN "Internal"
               ELSE Usage(Statfs(request.statvfs))
  /\ UNCHANGED <<request, volume, asked>>

(* get_capacity knows one parameter, and gives 0 for a request without it. *)
Capacity(r) ==
  IF r.other_node THEN [code |-> "ResourceExhausted", available |-> 0]
  ELSE IF r.fs_type # None \/ r.unknown_parameter
    THEN [code |-> "InvalidArgument", available |-> 0]
  ELSE IF r.host_base_path = None THEN [code |-> "OK", available |-> 0]
  ELSE IF r.statvfs = None THEN [code |-> "Internal", available |-> 0]
  ELSE [code |-> "OK", available |-> Usage(Statfs(r.statvfs)).available]

GetCapacity ==
  /\ request.rpc = "GetCapacity" /\ answer = None
  /\ answer' = Capacity(request)
  /\ UNCHANGED <<request, volume, asked>>

-------------------------------------------------------------------------------

CreateRequests ==
  [rpc : {"CreateVolume"}, name : Names,
   capabilities : BoundedSeq(Capabilities, MaxCapabilities),
   host_base_path : Bases \cup {None}, fs_type : FsTypes \cup {None},
   unknown_parameter : BOOLEAN]

StatsRequests == [rpc : {"NodeGetVolumeStats"}, statvfs : Statvfs \cup {None}]

(* other_node: accessible_topology names something else than this node.    *)
CapacityRequests ==
  [rpc : {"GetCapacity"}, statvfs : {s \in Statvfs : s.f_blocks = Blocks} \cup {None},
   host_base_path : Bases \cup {None}, fs_type : FsTypes \cup {None},
   unknown_parameter : BOOLEAN, other_node : BOOLEAN]

AllRequests == CreateRequests \cup StatsRequests \cup CapacityRequests

Init ==
  /\ request \in AllRequests
  /\ volume = None /\ asked = None /\ answer = None

Next ==
  \/ CreateVolume \/ ValidateVolumeCapabilities
  \/ NodeGetVolumeStats \/ GetCapacity

Spec == Init /\ [][Next]_vars

-------------------------------------------------------------------------------
(* Every variable holds a value of its type.                               *)
TypeOK ==
  /\ request \in AllRequests
  /\ volume # None =>
       /\ volume.filesystem \in {FilesystemOf[f] : f \in Filesystems}
       /\ Range(volume.valid_configs) \subseteq {ModeOf[m] : m \in DOMAIN ModeOf}
  /\ asked \in BoundedSeq(Capabilities, MaxCapabilities) \cup {None}

(* What a request says as a whole, without the order in which it is read.  *)
Wishes(r) ==
  ({FilesystemNamed(c) : c \in Range(r.capabilities)} \ {None})
    \cup (IF r.fs_type = None THEN {} ELSE {FilesystemOf[r.fs_type]})

(* CreateVolume accepts a request exactly when its name is valid, all of   *)
(* its parameters are known, everything in it parses and it names one      *)
(* filesystem at most, wherever and in whatever order; the volume has that *)
(* filesystem, or ext4, and the modes of all capabilities                  *)
(* (controller.rs:76-139).                                                 *)
CreationAsAsked ==
  request.rpc = "CreateVolume" /\ answer # None /\ asked = None =>
    LET capabilities == Range(request.capabilities)
        sound == /\ request.name # <<>> /\ ValidName(request.name)
                 /\ request.host_base_path # None /\ ~request.unknown_parameter
                 /\ capabilities # {}
                 /\ \A c \in capabilities : Parses(c)
                 /\ request.fs_type \in Filesystems \cup {None}
                 /\ \A f, g \in Wishes(request) : f = g
    IN  /\ answer = "OK" <=> sound
        /\ sound =>
             /\ {volume.filesystem} =
                  IF Wishes(request) = {} THEN {"Ext4"} ELSE Wishes(request)
             /\ Range(volume.valid_configs) = {Config(c) : c \in capabilities}

(* What is confirmed of a volume could have been asked for when it was     *)
(* created, and would have made the same volume; and all that was asked    *)
(* for then is confirmed (controller.rs:103-131,391-400).                  *)
ConfirmedAsCreated ==
  asked # None =>
    LET both == [request EXCEPT !.capabilities = @ \o asked]
    IN  /\ answer = "OK" =>
             /\ Acceptable(both)
             /\ NewVolume(both).filesystem = volume.filesystem
             /\ Range(NewVolume(both).valid_configs) = Range(volume.valid_configs)
        /\ asked # <<>> /\ Range(asked) \subseteq Range(request.capabilities) =>
             answer = "OK"

(* A path with a component "..", and one that leads below a directory.     *)
Climbs(path) ==
  \E i \in 1 .. Len(path) - 1 :
    /\ path[i] = "." /\ path[i + 1] = "."
    /\ i = 1 \/ path[i - 1] = "/"
    /\ i + 1 = Len(path) \/ path[i + 2] = "/"

Within(directory, path) ==
  LET rest == SubSeq(path, Len(directory) + 2, Len(path))
  IN  path = directory \o <<"/">> \o rest /\ ~Climbs(rest)

(* For a host_base_path that is more than slashes, the file that           *)
(* node_publish_volume makes is the one that expansion and deletion go to; *)
(* and if no component of it is "..", that file is below host_prefix,      *)
(* whatever the name (controller.rs:131-146,235, node.rs:260-265,482).     *)
(* The code does not look for ".." in host_base_path; and of slashes alone *)
(* publication and deletion make two files.                                *)
OneFile ==
  volume # None /\ (\E i \in DOMAIN request.host_base_path :
                      ~IsSlash(request.host_base_path[i])) =>
    /\ PublishPath(volume) = TotalPath(volume)
    /\ ~Climbs(request.host_base_path) => Within(HostPrefix, TotalPath(volume))

(* Every parameter that CreateVolume takes may be asked the capacity of:   *)
(* "These are the same `parameters` the CO will use in                     *)
(* `CreateVolumeRequest`" (csi.proto:987-988).  get_capacity knows         *)
(* host_base_path only (controller.rs:486-496).                            *)
CapacityOfCreatable ==
  request.rpc = "GetCapacity" /\ answer # None
    /\ ~request.other_node /\ ~request.unknown_parameter /\ request.statvfs # None
    /\ request.host_base_path # None /\ request.fs_type \in Filesystems =>
    answer.code = "OK"

(* As long as the size of the filesystem fits 63 bits, no figure is        *)
(* negative or wraps, and what is available and what is used add up to the *)
(* total; beyond, they still add up to the bits (node.rs:415-420).  The    *)
(* total is right where f_bsize is the unit of f_blocks.                   *)
UsageAddsUp ==
  request.rpc = "NodeGetVolumeStats" /\ request.statvfs # None /\ answer # None =>
    /\ (answer.available + answer.used - answer.total) % Modulus = 0
    /\ 2 * request.statvfs.f_blocks * request.statvfs.f_bsize < Modulus =>
         /\ answer.available >= 0 /\ answer.used >= 0
         /\ answer.total = request.statvfs.f_blocks * request.statvfs.f_bsize
         /\ answer.available + answer.used = answer.total
===============================================================================
