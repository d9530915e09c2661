--------------------------------- MODULE Host ---------------------------------
(***************************************************************************)
(* What lvp changes on the node it runs on: backing files under            *)
(* host_prefix, loop devices, and target directories with what is mounted  *)
(* on them (the helper functions at the top of src/node.rs).               *)
(*                                                                         *)
(* The kernel, losetup, mount, umount, mkfs and resize2fs are outside the  *)
(* repository.  They are modelled by what the calls in src/node.rs ask of  *)
(* them: an action below is enabled where the command can succeed.         *)
(***************************************************************************)
EXTENDS VolumeStore

CONSTANT Deleted   \* a backing file that is unlinked but still open

ASSUME DeletedAssumption == Deleted \notin Volumes \cup {None}

VARIABLES
  disk,     \* disk[n][v]: the backing file (or directory) of v on node n, at
            \*   the host_path of its record
  loops,    \* loops[n][d]: what loop device d of node n is attached to
  mounts    \* mounts[n][v][t]: target path t of volume v on node n

hostVars == <<disk, loops, mounts>>

(* size is the length of the file; fs the size of the filesystem in it,    *)
(* 0 as long as mkfs has not run.                                          *)
BackingFile == [exists: BOOLEAN, size: Nat, fs: Nat]
NoFile == [exists |-> FALSE, size |-> 0, fs |-> 0]

(* losetup -d of a device in use only sets its autoclear flag.             *)
LoopDevice == [file: Volumes \cup {None, Deleted}, autoclear: BOOLEAN]
FreeDevice == [file |-> None, autoclear |-> FALSE]

(* shows is the volume whose filesystem is seen at the path.               *)
TargetPath == [dir: BOOLEAN, shows: Volumes \cup {None, Deleted}, ro: BOOLEAN]
NoTarget   == [dir |-> FALSE, shows |-> None, ro |-> FALSE]

HostInit ==
  /\ disk   = [n \in Nodes |-> [v \in Volumes |-> NoFile]]
  /\ loops  = [n \in Nodes |-> [d \in Devices |-> FreeDevice]]
  /\ mounts = [n \in Nodes |-> [v \in Volumes |-> [t \in Targets |-> NoTarget]]]

HostTypeOK ==
  /\ disk   \in [Nodes -> [Volumes -> BackingFile]]
  /\ loops  \in [Nodes -> [Devices -> LoopDevice]]
  /\ mounts \in [Nodes -> [Volumes -> [Targets -> TargetPath]]]

-------------------------------------------------------------------------------
(* Backing files.                                                          *)

(* create_dir_all of the parent and File::create: an existing file is      *)
(* emptied.                                                                *)
CreateFile(n, v) ==
  disk' = [disk EXCEPT ![n][v] = [exists |-> TRUE, size |-> 0, fs |-> 0]]

(* ftruncate of make_volume and expand_volume: sets the length, shorter or *)
(* longer.                                                                 *)
Truncate(n, v, size) ==
  /\ disk[n][v].exists
  /\ disk' = [disk EXCEPT ![n][v].size = size]

(* create_dir_all of a bind volume: a directory keeps what it has.         *)
MakeDirectory(n, v) == disk' = [disk EXCEPT ![n][v].exists = TRUE]

(* mkfs.ext4 or mkfs.xfs; there is no filesystem of size 0.                *)
CanMkfs(n, v) == disk[n][v].exists /\ disk[n][v].size > 0

Mkfs(n, v) ==
  /\ CanMkfs(n, v)
  /\ disk' = [disk EXCEPT ![n][v].fs = disk[n][v].size]

(* remove_file or remove_dir_all: what is open stays open, without a name. *)
Unlink(n, v) ==
  /\ disk[n][v].exists
  /\ disk' = [disk EXCEPT ![n][v] = NoFile]
  /\ loops' = [loops EXCEPT ![n] = [d \in Devices |->
                 IF loops[n][d].file = v
                 THEN [loops[n][d] EXCEPT !.file = Deleted] ELSE loops[n][d]]]
  /\ mounts' = [mounts EXCEPT ![n] = [u \in Volumes |-> [t \in Targets |->
                  IF mounts[n][u][t].shows = v
                  THEN [mounts[n][u][t] EXCEPT !.shows = Deleted] ELSE mounts[n][u][t]]]]

-------------------------------------------------------------------------------
(* Loop devices.                                                           *)

\* Mutant: losetup without -L, which takes a free device every time.
FreeDevices(n, v) == {d \in Devices : loops[n][d].file = None}

(* losetup --show -L -f: the device that already has the file, if there is *)
(* one, or any free device.                                                *)
LosetupChoices(n, v) ==
  LET attached == {d \in Devices : loops[n][d].file = v}
  IN  IF attached # {} THEN attached
      ELSE {d \in Devices : loops[n][d].file = None}

CanLosetup(n, v) == disk[n][v].exists /\ LosetupChoices(n, v) # {}

(* Reusing a device takes back a pending losetup -d of it.                 *)
Losetup(n, v, d) ==
  /\ CanLosetup(n, v)
  /\ d \in LosetupChoices(n, v)
  /\ loops' = [loops EXCEPT ![n][d] = [file |-> v, autoclear |-> FALSE]]

Showing(n, w) ==
  {x \in Volumes \X Targets : mounts[n][x[1]][x[2]].shows = w}

(* losetup -d                                                              *)
LosetupDetach(n, d) ==
  /\ loops[n][d].file # None
  /\ loops' = [loops EXCEPT ![n][d] =
                 IF Showing(n, loops[n][d].file) # {}
                 THEN [loops[n][d] EXCEPT !.autoclear = TRUE] ELSE FreeDevice]

(* losetup -c and resize2fs or xfs_growfs on the device: the filesystem    *)
(* grows to the length of its file, and a mounted one cannot shrink.       *)
CanGrow(n, d) ==
  LET v == loops[n][d].file
  IN  v \in Volumes /\ 0 < disk[n][v].fs /\ disk[n][v].fs <= disk[n][v].size

Grow(n, d) ==
  LET v == loops[n][d].file
  IN  /\ CanGrow(n, d)
      /\ disk' = [disk EXCEPT ![n][v].fs = disk[n][v].size]

-------------------------------------------------------------------------------
(* Target paths.                                                           *)

(* create_dir_all of the target path.                                      *)
MakeTarget(n, v, t) ==
  mounts' = [mounts EXCEPT ![n][v][t].dir = TRUE]

(* mount [-r] <device> <target>.  The kernel refuses a device without a    *)
(* filesystem, a mount that is there already, and one that disagrees with  *)
(* another mount of the device on readonly.  (It would stack another       *)
(* device on a target in use; paths are unique per volume, so that takes a *)
(* device that has gone over to another volume, and is refused here.)      *)
CanMount(n, v, t, d, ro) ==
  LET w == loops[n][d].file
  IN  /\ w # None
      /\ w \in Volumes => disk[n][w].fs > 0
      /\ mounts[n][v][t].dir /\ mounts[n][v][t].shows = None
      /\ \A x \in Showing(n, w) : mounts[n][x[1]][x[2]].ro = ro

Mount(n, v, t, d, ro) ==
  /\ CanMount(n, v, t, d, ro)
  /\ mounts' = [mounts EXCEPT ![n][v][t] =
                  [dir |-> TRUE, shows |-> loops[n][d].file, ro |-> ro]]

(* umount <target>; the last one lets go of a device marked autoclear.     *)
Umount(n, v, t) ==
  LET w == mounts[n][v][t].shows
  IN  /\ w # None
      /\ mounts' = [mounts EXCEPT ![n][v][t] = [dir |-> TRUE, shows |-> None, ro |-> FALSE]]
      /\ loops' = [loops EXCEPT ![n] = [d \in Devices |->
                     IF /\ loops[n][d].file = w /\ loops[n][d].autoclear
                        /\ Showing(n, w) = {<<v, t>>}
                     THEN FreeDevice ELSE loops[n][d]]]

(* remove_dir: only an empty directory on which nothing is mounted.        *)
CanRemoveTarget(n, v, t) == mounts[n][v][t].dir /\ mounts[n][v][t].shows = None

RemoveTarget(n, v, t) ==
  /\ CanRemoveTarget(n, v, t)
  /\ mounts' = [mounts EXCEPT ![n][v][t] = NoTarget]

(* A reboot of the node: mounts and loop devices are gone, files and       *)
(* directories stay.                                                       *)
LoseKernelState(n) ==
  /\ loops' = [loops EXCEPT ![n] = [d \in Devices |-> FreeDevice]]
  /\ mounts' = [mounts EXCEPT ![n] = [v \in Volumes |-> [t \in Targets |->
                  [mounts[n][v][t] EXCEPT !.shows = None, !.ro = FALSE]]]]
  /\ UNCHANGED disk
===============================================================================
