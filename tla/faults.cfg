SPECIFICATION Spec
CONSTANTS
  None = None
  Deleted = Deleted
  Volumes = {v1}
  Nodes = {n1}
  Targets = {t1, t2}
  Devices = {d1, d2}
  Bases = {b1, b2}
  Calls = {c1}
  Serial = TRUE
  Faults = {"fail", "cancel", "reboot"}
  Sizes = {1, 2}
  ConfigSets = {{"SingleNodeWriter", "SingleNodeMultiWriter"}}
  Modes = {"SingleNodeWriter", "SingleNodeMultiWriter"}
  Filesystems = {"Ext4"}
  RequestFilesystems = {None}
  Readonlys = {FALSE}
INVARIANTS
  OneDevicePerFile
PROPERTIES
  FilesystemsKept
  LifecycleSpec
