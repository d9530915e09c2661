SPECIFICATION Spec
CONSTANTS
  None = None
  Deleted = Deleted
  Volumes = {v1}
  Nodes = {n1}
  Targets = {t1}
  Devices = {d1}
  Bases = {b1}
  Calls = {c1}
  Serial = TRUE
  Faults = {}
  Sizes = {1}
  ConfigSets = {{"SingleNodeWriter"}}
  Modes = {"SingleNodeWriter"}
  Filesystems = {"Ext4"}
  RequestFilesystems = {None}
  Readonlys = {FALSE}
INVARIANT
  DeletionSucceeds
