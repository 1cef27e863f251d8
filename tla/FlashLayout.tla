----------------------------- MODULE FlashLayout -----------------------------
(***************************************************************************)
(* The arithmetic by which the bootloader decides which flash sectors an   *)
(* announced image occupies (usbd_cdc_flash.c, usbd_cdc_flash.h).  The     *)
(* STM32H743 has two banks of FLASH_SECTOR_TOTAL sectors each, one after   *)
(* the other in the address space; the first RESERVED_SECTORS sectors of   *)
(* bank 1 hold the bootloader and the application area follows them.       *)
(* Addresses are counted in cells, an arbitrary unit.                      *)
(***************************************************************************)
EXTENDS Integers

CONSTANTS
  FLASH_BASE,         \* address of the first cell of bank 1
  SECTOR_SIZE,        \* cells in a sector
  FLASH_SECTOR_TOTAL, \* sectors in one bank
  RESERVED_SECTORS,   \* sectors of bank 1 that hold the bootloader
  UINT32              \* 2^32 in cells: where the unsigned arithmetic wraps

ASSUME LayoutAssumption ==
  /\ FLASH_BASE \in Nat
  /\ SECTOR_SIZE \in Nat \ {0}
  /\ RESERVED_SECTORS \in Nat \ {0, 1}
  /\ FLASH_SECTOR_TOTAL \in Nat
  /\ RESERVED_SECTORS < FLASH_SECTOR_TOTAL
  /\ UINT32 \in Nat
  /\ FLASH_BASE + 2 * FLASH_SECTOR_TOTAL * SECTOR_SIZE < UINT32
-----------------------------------------------------------------------------
IAP_APP_ADDRESS == FLASH_BASE + RESERVED_SECTORS * SECTOR_SIZE

\* Cells from the application's address to the end of bank 1, and to the end of
\* bank 2, which is the end of the flash.
BankOneRoom == (FLASH_SECTOR_TOTAL - RESERVED_SECTORS) * SECTOR_SIZE
AppRoom == BankOneRoom + FLASH_SECTOR_TOTAL * SECTOR_SIZE

\* First address of sector k of bank b (0 for bank 1): ADDR_FLASH_SECTOR_<k>_BANK<b+1>.
SectorStart(b, k) == FLASH_BASE + (b * FLASH_SECTOR_TOTAL + k) * SECTOR_SIZE

InSector(a, b, k) == SectorStart(b, k) <= a /\ a < SectorStart(b, k + 1)

\* The number of the sector, within its bank, of an address; the last sector for
\* an address outside the flash.
GetSector(a) ==
  IF \E k \in 0 .. FLASH_SECTOR_TOTAL - 1 : \E b \in {0, 1} : InSector(a, b, k)
    THEN CHOOSE k \in 0 .. FLASH_SECTOR_TOTAL - 1 : \E b \in {0, 1} : InSector(a, b, k)
    ELSE FLASH_SECTOR_TOTAL - 1

\* The difference of the sector numbers, without the "add 1 more".
NbSectors_short(len) ==
  LET n == (GetSector((IAP_APP_ADDRESS + len) % UINT32) - GetSector(IAP_APP_ADDRESS)) % UINT32
  IN  IF n > FLASH_SECTOR_TOTAL - RESERVED_SECTORS THEN FLASH_SECTOR_TOTAL - RESERVED_SECTORS ELSE n

\* The sectors Erase_FLASH asks for: endS - beginS + 1 in uint32_t, clipped.
NbSectors(len) ==
  LET beginS == GetSector(IAP_APP_ADDRESS)
      endS   == GetSector((IAP_APP_ADDRESS + len) % UINT32)
      n      == (endS - beginS + 1) % UINT32
      most   == FLASH_SECTOR_TOTAL - RESERVED_SECTORS
  IN  IF n > most THEN most ELSE n

\* What Flash_If_Erase erases for them: n sectors of bank 1 from the application's on.
ErasedSectors(n) == GetSector(IAP_APP_ADDRESS) .. GetSector(IAP_APP_ADDRESS) + n - 1

\* The same as offsets from the application's address.
ErasedOffset(o, n) == o < n * SECTOR_SIZE
=============================================================================
