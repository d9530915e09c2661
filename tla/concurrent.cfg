SPECIFICATION Spec
CONSTANTS
  None = None
  Deleted = Deleted
  Volumes = {v1}
  Nodes = {n1}
  Targets = {t1, t2}
  Devices = {d1}
  Bases = {b1}
  Calls = {c1, c2}
  Serial = FALSE
  Faults = {"cancel"}
  Sizes = {1}
  ConfigSets = {{"SingleNodeWriter", "SingleNodeMultiWriter"}}
  Modes = {"SingleNodeWriter"}
  Filesystems = {"Ext4"}
  RequestFilesystems = {None}
  Readonlys = {FALSE}
INVARIANTS
  RecordIntegrity
  TasksSound
SYMMETRY CallSymmetry
