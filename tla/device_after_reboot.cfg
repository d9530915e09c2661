SPECIFICATION Spec
CONSTANTS
  None = None
  Deleted = Deleted
  Volumes = {v1, v2}
  Nodes = {n1}
  Targets = {t1, t2}
  Devices = {d1, d2}
  Bases = {b1}
  Calls = {c1}
  Serial = TRUE
  Faults = {"reboot"}
  Sizes = {1}
  ConfigSets = {{"SingleNodeMultiWriter"}}
  Modes = {"SingleNodeMultiWriter"}
  Filesystems = {"Ext4"}
  RequestFilesystems = {None}
  Readonlys = {FALSE}
INVARIANT
  TargetShowsItsVolume
