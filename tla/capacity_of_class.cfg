SPECIFICATION Spec
CONSTANTS
  None = None
  Capabilities <- MCCapabilities
  MaxCapabilities = 1
  Names <- MCNames
  Bases <- MCBases
  HostPrefix <- MCHostPrefix
  FsTypes = {"ext4", "xfs", "zfs"}
  Blocks = 8
  BlockSizes = {1, 2, 4}
  Modulus = 32
INVARIANTS
  CapacityOfCreatable
CHECK_DEADLOCK FALSE
