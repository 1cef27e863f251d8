CONSTANTS
  FLASH_BASE = 0
  SECTOR_SIZE = 2
  FLASH_SECTOR_TOTAL = 3
  RESERVED_SECTORS = 2
  UINT32 = 64
  WORD = 2
  Lens <- MCLens
  Writes <- MCWrites
  Source <- MCSource
  Erased = Erased
  Garbage = Garbage
SPECIFICATION Spec
INVARIANTS AnnouncedErased
