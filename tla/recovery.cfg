SPECIFICATION RecoverySpec
CONSTANTS
  None = None
  Deleted = Deleted
  Volumes = {v1, v2}
  Nodes = {n1}
  Targets = {t1}
  Devices = {d1}
  Bases = {b1}
  Calls = {c1, c2}
  Serial = TRUE
  Faults = {"fail", "cancel", "reboot"}
  MaxFaults = 1
  Sizes = {1, 2}
  ConfigSets = {{"SingleNodeWriter"}}
  Modes = {"SingleNodeWriter"}
  Filesystems = {"Ext4"}
  RequestFilesystems = {None}
  Readonlys = {FALSE}
INVARIANTS
  BeliefTrue
PROPERTIES
  EventuallyUsed
  EventuallyEnlarged
  EventuallyGone
CHECK_DEADLOCK FALSE
