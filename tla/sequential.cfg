SPECIFICATION Spec
CONSTANTS
  None = None
  Deleted = Deleted
  Volumes = {v1}
  Nodes = {n1, n2}
  Targets = {t1, t2}
  Devices = {d1, d2}
  Bases = {b1, b2}
  Calls = {c1}
  Serial = TRUE
  Faults = {}
  Sizes = {1, 2}
  ConfigSets = {{"SingleNodeWriter", "SingleNodeMultiWriter"}}
  Modes = {"SingleNodeWriter", "SingleNodeMultiWriter", "SingleNodeReader"}
  Filesystems = {"Ext4", "Bind"}
  RequestFilesystems = {None, "Ext4"}
  Readonlys = {TRUE, FALSE}
INVARIANTS
  TypeOK
  RecordIntegrity
  MountsAgree
  DevicesAgree
  FilesAgree
  CapacityBacked
  ReadonlyHonoured
  AnswersTrue
PROPERTIES
  LifecycleSpec
