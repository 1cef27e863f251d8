----------------------------- MODULE FlashDriver -----------------------------
(***************************************************************************)
(* The flash driver of the bootloader (usbd_cdc_flash.c) on top of the     *)
(* HAL's flash functions, step by step: the control register's lock bit,   *)
(* the instruction cache, the HAL's process lock pFlash.Lock, one sector   *)
(* or one flash word at a time, faults of the flash and a reset anywhere.  *)
(***************************************************************************)
EXTENDS FlashLayout

CONSTANTS
  WORD,            \* cells in a flash word, the unit of programming
  Lens,            \* lengths Erase_FLASH is called with
  Writes,          \* [at |-> offset, len |-> length] Flash_If_Write is called with
  Source,          \* Source[j]: cell j of the buffer that is written
  Erased, Garbage  \* an erased cell, and one that holds no data

\* The blocks of an upload are whole flash words but for the last one.
ASSUME DriverAssumption ==
  /\ WORD \in Nat \ {0} /\ SECTOR_SIZE % WORD = 0 /\ FLASH_BASE % WORD = 0
  /\ Lens \subseteq Nat
  /\ \A w \in Writes : w.at \in Nat /\ w.at % WORD = 0 /\ w.len \in Nat \ {0}

VARIABLES
  where,   \* "idle", or the statement of the call that is executed next
  call,    \* the last call and its arguments
  i,       \* sector_index of HAL_FLASHEx_Erase, i of Flash_If_Write
  status,  \* what the HAL function returned
  result,  \* what the last call returned, "reset" when a reset cut it off
  cells,   \* the flash, both banks
  locked,  \* FLASH_CR_LOCK
  icache,  \* the instruction cache is enabled
  halLock, \* pFlash.Lock
  before   \* history: the flash when the last call began

vars == <<where, call, i, status, result, cells, locked, icache, halLock, before>>

Service == INSTANCE FlashService WITH
  busy    <- where # "idle",
  content <- IF where = "idle" THEN cells ELSE before

FLASH_END == SectorStart(2, 0) - 1
Addresses == FLASH_BASE .. FLASH_END
WordCells(a) == a .. a + WORD - 1

\* The slip of erasing from the first sector of the flash on.
startsector_base == GetSector(FLASH_BASE)

startsector == GetSector(IAP_APP_ADDRESS)
Dest == IAP_APP_ADDRESS + call.at + i
-----------------------------------------------------------------------------
Init ==
  /\ where = "idle" /\ call = [op |-> "none"] /\ i = 0 /\ status = "HAL_OK"
  /\ result = "reset"
  /\ cells = [a \in Addresses |-> Erased] /\ before = cells
  /\ locked = TRUE /\ icache = TRUE /\ halLock = FALSE

\* Both functions begin with SCB_DisableICache and HAL_FLASH_Unlock,
Begin ==
  /\ where = "idle"
  /\ icache' = FALSE /\ locked' = FALSE
  /\ before' = cells
  /\ UNCHANGED <<status, result, cells, halLock>>

\* and end with HAL_FLASH_Lock and SCB_EnableICache when restore holds.
Return(r, restore) ==
  /\ where' = "idle" /\ result' = r /\ status' = "HAL_OK"
  /\ IF restore THEN locked' = TRUE /\ icache' = TRUE ELSE UNCHANGED <<locked, icache>>
  /\ i' = 0 /\ before' = cells' /\ UNCHANGED call

Keep == UNCHANGED <<call, result, locked, icache, before>>

\* Erase_FLASH, Flash_If_Erase up to the call of the HAL.
Erase_FLASH(len) ==
  /\ Begin
  /\ call' = [op |-> "erase", len |-> len] /\ i' = startsector
  /\ where' = "HAL_FLASHEx_Erase"

\* HAL_FLASHEx_Erase takes pFlash.Lock and waits for the last operation; the wait
\* may report an error that is still flagged.
HAL_FLASHEx_Erase ==
  /\ where = "HAL_FLASHEx_Erase"
  /\ \/ halLock /\ status' = "HAL_BUSY" /\ where' = "erased" /\ UNCHANGED halLock
     \/ ~ halLock /\ status' = "HAL_OK" /\ where' = "sector" /\ halLock' = TRUE
     \/ ~ halLock /\ status' = "HAL_ERROR" /\ where' = "erased" /\ UNCHANGED halLock
  /\ UNCHANGED <<i, cells>> /\ Keep

\* The loop going on with the next sector after an error.
FLASH_Erase_Sector_on ==
  /\ where = "sector" /\ i < NbSectors(call.len) + startsector
  /\ \E c \in {Erased, Garbage} :
       cells' = [a \in Addresses |-> IF InSector(a, 0, i) THEN c ELSE cells[a]]
  /\ i' = i + 1 /\ UNCHANGED <<where, status, halLock>> /\ Keep

\* A failing sector that leaves the function without __HAL_UNLOCK.
FLASH_Erase_Sector_locked ==
  /\ where = "sector" /\ i < NbSectors(call.len) + startsector
  /\ cells' = [a \in Addresses |-> IF InSector(a, 0, i) THEN Erased ELSE cells[a]]
  /\ \/ i' = i + 1 /\ UNCHANGED <<where, status, halLock>>
     \/ status' = "HAL_ERROR" /\ where' = "erased" /\ UNCHANGED <<i, halLock>>
  /\ Keep

\* FLASH_Erase_Sector of bank 1 and the wait for it, for one sector of the loop.
FLASH_Erase_Sector ==
  /\ where = "sector" /\ i < NbSectors(call.len) + startsector
  /\ \/ /\ cells' = [a \in Addresses |->
                       IF InSector(a, 0, i) /\ ~ locked THEN Erased ELSE cells[a]]
        /\ i' = i + 1 /\ UNCHANGED <<where, status, halLock>>
     \/ /\ \E c \in {Erased, Garbage} :
             cells' = [a \in Addresses |-> IF InSector(a, 0, i) THEN c ELSE cells[a]]
        /\ status' = "HAL_ERROR" /\ where' = "erased" /\ halLock' = FALSE /\ UNCHANGED i
  /\ Keep

SectorsErased ==
  /\ where = "sector" /\ i >= NbSectors(call.len) + startsector
  /\ where' = "erased" /\ halLock' = FALSE
  /\ UNCHANGED <<i, status, cells>> /\ Keep

\* Flash_If_Erase locks and enables the cache again whatever the HAL returned.
EraseReturn ==
  /\ where = "erased"
  /\ UNCHANGED <<cells, halLock>>
  /\ Return(IF status = "HAL_OK" THEN "OK" ELSE "ERROR", TRUE)

\* Flash_If_Write up to its loop.
Flash_If_Write(w) ==
  /\ Begin
  /\ call' = [op |-> "write", at |-> w.at, len |-> w.len] /\ i' = 0
  /\ where' = "HAL_FLASH_Program"

\* HAL_FLASH_Program of one word returns an error, with pFlash.Lock as it is given,
\* and Flash_If_Write returns at once.
ProgramFails(lock) ==
  /\ halLock' = lock
  /\ Return("ERROR", FALSE)

\* A word takes the data when it is erased and the registers are unlocked.  It may
\* fail to: silently, with some cells spoilt, or with an error reported.
HAL_FLASH_Program ==
  /\ where = "HAL_FLASH_Program" /\ i < call.len
  /\ \/ /\ halLock \* HAL_BUSY
        /\ UNCHANGED cells /\ ProgramFails(TRUE)
     \/ /\ ~ halLock /\ Dest > FLASH_END \* in neither bank: returns with the lock taken
        /\ UNCHANGED cells /\ ProgramFails(TRUE)
     \/ /\ ~ halLock /\ Dest <= FLASH_END
        /\ \/ UNCHANGED cells /\ ProgramFails(FALSE)
           \/ \E spoilt \in SUBSET WordCells(Dest) :
                /\ (locked \/ \E a \in WordCells(Dest) : cells[a] # Erased) => spoilt # {}
                /\ cells' = [a \in Addresses |->
                               IF a \in spoilt THEN Garbage
                               ELSE IF a \in WordCells(Dest) THEN Source[i + a - Dest]
                               ELSE cells[a]]
                /\ \/ ProgramFails(FALSE)
                   \/ where' = "readback" /\ UNCHANGED <<i, status, halLock>> /\ Keep

\* Flash_If_Write compares the first 8 of the 32 bytes of the word.
ReadBack ==
  /\ where = "readback"
  /\ UNCHANGED <<cells, halLock>>
  /\ \/ /\ cells[Dest] = Source[i]
        /\ i' = i + WORD /\ where' = "HAL_FLASH_Program" /\ UNCHANGED status /\ Keep
     \/ /\ cells[Dest] # Source[i]
        /\ Return("ERROR", FALSE)

WriteReturn ==
  /\ where = "HAL_FLASH_Program" /\ i >= call.len
  /\ UNCHANGED <<cells, halLock>>
  /\ Return("OK", TRUE)

\* A reset at any moment.  The sector or word in progress is spoilt.  Startup enables
\* the cache, and the registers are locked.
Reset ==
  /\ \/ cells' = cells
     \/ /\ where = "sector" /\ i < NbSectors(call.len) + startsector
        /\ cells' = [a \in Addresses |-> IF InSector(a, 0, i) THEN Garbage ELSE cells[a]]
     \/ /\ where = "HAL_FLASH_Program" /\ i < call.len /\ ~ halLock
        /\ cells' = [a \in Addresses |-> IF a \in WordCells(Dest) THEN Garbage ELSE cells[a]]
  /\ where' = "idle" /\ result' = "reset" /\ status' = "HAL_OK"
  /\ locked' = TRUE /\ icache' = TRUE /\ halLock' = FALSE
  /\ i' = 0 /\ before' = cells' /\ UNCHANGED call

Next ==
  \/ \E len \in Lens : Erase_FLASH(len)
  \/ HAL_FLASHEx_Erase \/ FLASH_Erase_Sector \/ SectorsErased \/ EraseReturn
  \/ \E w \in Writes : Flash_If_Write(w)
  \/ HAL_FLASH_Program \/ ReadBack \/ WriteReturn
  \/ Reset

Spec == Init /\ [][Next]_vars
-----------------------------------------------------------------------------
(* Properties.                                                             *)

\* Whatever is announced, written, failing or cut off, the flash sectors that the
\* bootloader runs from are not touched.
BootloaderIntact ==
  [][\A a \in FLASH_BASE .. IAP_APP_ADDRESS - 1 : cells'[a] = cells[a]]_vars

\* Locks and cache, over any history of calls that failed half way: a failing erase
\* frees the HAL's process lock and leaves registers and cache as it found them in
\* the first place; only a failed write leaves the registers open, and as long as
\* the process lock is stuck no call succeeds.
InterfaceKept ==
  /\ where = "erased" /\ halLock => status = "HAL_BUSY"
  /\ where = "idle" =>
       /\ locked = icache
       /\ ~ locked => call.op = "write" /\ result = "ERROR"
       /\ halLock => result = "ERROR"

\* The driver implements the two calls as single steps, which is what the model of
\* the server takes them for.
ServiceSpec == Service!Spec

\* usbd_cdc_flash.c:182, "get number of sectors to be written to": when Erase_FLASH
\* succeeds, the place of the announced number of cells is erased.
AnnouncedErased ==
  where = "idle" /\ result = "OK" /\ call.op = "erase" =>
    \A a \in Addresses :
      IAP_APP_ADDRESS <= a /\ a < IAP_APP_ADDRESS + call.len => cells[a] = Erased
=============================================================================
