-------------------------- MODULE FlashDriver_proofs --------------------------
(***************************************************************************)
(* No call of the flash driver, whatever fails in it and wherever it is    *)
(* cut off, touches the flash below the application; what the failures of  *)
(* a long history of calls leave behind; that an erase which returns       *)
(* HAL_OK has erased the place of an image that fits into bank 1; and that *)
(* the driver implements FlashService, where a call is one step.           *)
(***************************************************************************)
EXTENDS FlashDriver, FlashLayout_proofs

\* Where the call in progress works.
Area ==
  /\ i \in Int
  /\ where \in {"HAL_FLASHEx_Erase", "sector"} => RESERVED_SECTORS <= i
  /\ where \in {"HAL_FLASH_Program", "readback"} => 0 <= i /\ call.at \in Nat

Bootloader == FLASH_BASE .. IAP_APP_ADDRESS - 1

\* Sectors from the first of the application on hold no cell of the bootloader, nor
\* do words from its address on.
LEMMA Above ==
  ASSUME NEW a \in Bootloader
  PROVE  /\ \A k \in Int : RESERVED_SECTORS <= k => ~ InSector(a, 0, k)
         /\ \A d \in Int : IAP_APP_ADDRESS <= d => a \notin WordCells(d)
<1>1. ASSUME NEW k \in Int, RESERVED_SECTORS <= k
      PROVE  RESERVED_SECTORS * SECTOR_SIZE <= k * SECTOR_SIZE
  BY <1>1, Monotone, LayoutAssumption
<1>2. ASSUME NEW k \in Int, RESERVED_SECTORS <= k
      PROVE  ~ InSector(a, 0, k)
  <2>1. IAP_APP_ADDRESS <= SectorStart(0, k)
    BY <1>1, <1>2, LayoutAssumption DEF IAP_APP_ADDRESS, SectorStart
  <2>2. IAP_APP_ADDRESS \in Int /\ SectorStart(0, k) \in Int
    BY <1>2, LayoutAssumption DEF IAP_APP_ADDRESS, SectorStart
  <2> QED BY <2>1, <2>2, LayoutAssumption DEF InSector, Bootloader
<1>3. ASSUME NEW d \in Int, IAP_APP_ADDRESS <= d
      PROVE  a \notin WordCells(d)
  <2>1. IAP_APP_ADDRESS \in Int
    BY LayoutAssumption DEF IAP_APP_ADDRESS
  <2> QED BY <1>3, <2>1, DriverAssumption, LayoutAssumption DEF WordCells, Bootloader
<1> QED BY <1>2, <1>3

\* The erase loop starts behind the bootloader.
LEMMA StartSector == startsector = RESERVED_SECTORS
BY FirstSector DEF startsector

\* The place of the call is kept in the area.
LEMMA AreaStep ==
  ASSUME Area, [Next]_vars
  PROVE  Area'
<1> USE DEF Area
<1>1. CASE \E len \in Lens : Erase_FLASH(len)
  BY <1>1, StartSector, LayoutAssumption DEF Erase_FLASH, Begin
<1>2. CASE HAL_FLASHEx_Erase
  BY <1>2 DEF HAL_FLASHEx_Erase, Keep
<1>3. CASE FLASH_Erase_Sector
  BY <1>3, LayoutAssumption DEF FLASH_Erase_Sector, Keep
<1>4. CASE SectorsErased \/ EraseReturn \/ WriteReturn \/ Reset
  BY <1>4 DEF SectorsErased, EraseReturn, WriteReturn, Reset, Return, Keep
<1>5. CASE \E w \in Writes : Flash_If_Write(w)
  BY <1>5, DriverAssumption DEF Flash_If_Write, Begin
<1>6. CASE HAL_FLASH_Program
  BY <1>6 DEF HAL_FLASH_Program, ProgramFails, Return, Keep
<1>7. CASE ReadBack
  BY <1>7, DriverAssumption DEF ReadBack, Return, Keep
<1>8. CASE UNCHANGED vars
  BY <1>8 DEF vars
<1> QED BY <1>1, <1>2, <1>3, <1>4, <1>5, <1>6, <1>7, <1>8 DEF Next

\* The flash sectors the bootloader runs from are never touched, for every size of
\* the flash and of the image, and whatever fails.
THEOREM BootloaderSafe == Spec => BootloaderIntact
<1> DEFINE Intact == \A a \in Bootloader : cells'[a] = cells[a]
<1>1. ASSUME Area, Next
      PROVE  Intact
  <2>0. SUFFICES ASSUME NEW a \in Bootloader
                 PROVE  cells'[a] = cells[a]
    OBVIOUS
  <2>1. a \in Addresses
    <3>1. IAP_APP_ADDRESS <= SectorStart(2, 0)
      <4>1. RESERVED_SECTORS * SECTOR_SIZE <= (2 * FLASH_SECTOR_TOTAL) * SECTOR_SIZE
        BY Monotone, LayoutAssumption
      <4> QED BY <4>1, LayoutAssumption DEF IAP_APP_ADDRESS, SectorStart
    <3>2. IAP_APP_ADDRESS \in Int /\ SectorStart(2, 0) \in Int
      BY LayoutAssumption DEF IAP_APP_ADDRESS, SectorStart
    <3> QED BY <3>1, <3>2, LayoutAssumption DEF Addresses, FLASH_END, Bootloader
  <2>2. RESERVED_SECTORS <= i => ~ InSector(a, 0, i)
    BY <1>1, Above DEF Area
  <2>3. 0 <= i /\ call.at \in Nat => a \notin WordCells(Dest)
    <3>1. 0 <= i /\ call.at \in Nat => Dest \in Int /\ IAP_APP_ADDRESS <= Dest
      BY <1>1, LayoutAssumption DEF Area, Dest, IAP_APP_ADDRESS
    <3> QED BY <3>1, Above
  <2>4. CASE FLASH_Erase_Sector
    BY <1>1, <2>1, <2>2, <2>4 DEF FLASH_Erase_Sector, Area
  <2>5. CASE HAL_FLASH_Program
    BY <1>1, <2>1, <2>3, <2>5 DEF HAL_FLASH_Program, Area
  <2>6. CASE Reset
    BY <1>1, <2>1, <2>2, <2>3, <2>6 DEF Reset, Area
  <2> QED
    BY <1>1, <2>4, <2>5, <2>6
    DEF Next, Erase_FLASH, Flash_If_Write, Begin, HAL_FLASHEx_Erase, SectorsErased,
        EraseReturn, ReadBack, WriteReturn
<1>2. Init => Area
  BY DEF Init, Area
<1>3. Area /\ [Next]_vars => Area'
  BY AreaStep
<1>4. Area /\ [Next]_vars => [Intact]_vars
  BY <1>1
<1> QED BY <1>2, <1>3, <1>4, PTL DEF Spec, BootloaderIntact, Bootloader
-----------------------------------------------------------------------------
\* What InterfaceKept needs of the states inside a call: a stuck process lock is met
\* by the first statement that takes it, so that no call gets to a successful end.
InterfaceInv ==
  /\ InterfaceKept
  /\ locked = icache
  /\ where = "readback" => ~ halLock
  /\ where = "HAL_FLASH_Program" /\ halLock => i = 0
  /\ where \in {"HAL_FLASH_Program", "readback"} => call.op = "write" /\ call.len \in Nat \ {0}

LEMMA InterfaceStep ==
  ASSUME InterfaceInv, [Next]_vars
  PROVE  InterfaceInv'
<1> USE DEF InterfaceInv, InterfaceKept
<1>1. CASE \E len \in Lens : Erase_FLASH(len)
  BY <1>1 DEF Erase_FLASH, Begin
<1>2. CASE HAL_FLASHEx_Erase
  BY <1>2 DEF HAL_FLASHEx_Erase, Keep
<1>3. CASE FLASH_Erase_Sector \/ SectorsErased
  BY <1>3 DEF FLASH_Erase_Sector, SectorsErased, Keep
<1>4. CASE EraseReturn
  BY <1>4 DEF EraseReturn, Return
<1>5. CASE \E w \in Writes : Flash_If_Write(w)
  <2>1. call'.op = "write" /\ call'.len \in Nat \ {0}
    BY <1>5, DriverAssumption DEF Flash_If_Write
  <2>2. where' = "HAL_FLASH_Program" /\ i' = 0 /\ locked' = icache'
    BY <1>5 DEF Flash_If_Write, Begin
  <2> QED BY <2>1, <2>2
<1>6. CASE HAL_FLASH_Program
  BY <1>6 DEF HAL_FLASH_Program, ProgramFails, Return, Keep
<1>7. CASE ReadBack
  BY <1>7 DEF ReadBack, Return, Keep
<1>10. CASE WriteReturn
  <2>1. ~ halLock
    <3>1. ~ (0 >= call.len)
      BY <1>10 DEF WriteReturn
    <3>2. halLock => i = 0
      BY <1>10 DEF WriteReturn
    <3>3. i >= call.len
      BY <1>10 DEF WriteReturn
    <3> QED BY <3>1, <3>2, <3>3
  <2> QED BY <1>10, <2>1 DEF WriteReturn, Return
<1>8. CASE Reset
  BY <1>8 DEF Reset
<1>9. CASE UNCHANGED vars
  BY <1>9 DEF vars
<1> QED BY <1>1, <1>2, <1>3, <1>4, <1>5, <1>6, <1>7, <1>8, <1>9, <1>10 DEF Next

\* A failed call never leaves an erase locked out by its own fault, nor the registers
\* open after anything but a failed write; with the process lock stuck none succeeds.
THEOREM InterfaceSafe == Spec => []InterfaceKept
<1>1. Init => InterfaceInv
  BY DEF Init, InterfaceInv, InterfaceKept
<1>2. InterfaceInv /\ [Next]_vars => InterfaceInv'
  BY InterfaceStep
<1>3. InterfaceInv => InterfaceKept
  BY DEF InterfaceInv
<1> QED BY <1>1, <1>2, <1>3, PTL DEF Spec
-----------------------------------------------------------------------------
(* Refinement: each call is one step of FlashService.                      *)

\* What c holds when the sectors below s are erased since the call began, and when
\* the first n cells of the buffer are written, cells in torn apart.
ErasedBelow(c, s, torn) ==
  \A a \in Addresses \ torn :
    c[a] = IF \E k \in startsector .. s - 1 : InSector(a, 0, k) THEN Erased ELSE before[a]

WrittenBelow(c, n, torn) ==
  \A a \in Addresses \ torn :
    LET j == a - IAP_APP_ADDRESS - call.at IN
    IF 0 <= j /\ j - (j % WORD) < n
      THEN c[a] = Source[j] \/ (c[a] = Garbage /\ j % WORD # 0)
      ELSE c[a] = before[a]

last == NbSectors(call.len) + startsector
SectorCells(k) == {a \in Addresses : InSector(a, 0, k)}

\* The erase came to its end, or stopped at some sector.
EraseEnded(c) ==
  \/ ErasedBelow(c, last, {})
  \/ \E s \in startsector .. last - 1 : ErasedBelow(c, s, SectorCells(s))

\* The flash at every statement of the two calls, against the flash they began with.
EraseInv ==
  where \in {"HAL_FLASHEx_Erase", "sector", "erased"} =>
    /\ call.op = "erase" /\ call.len \in Nat /\ ~ locked
    /\ where # "erased" => i \in startsector .. last /\ ErasedBelow(cells, i, {})
    /\ where = "sector" => status = "HAL_OK"
    /\ where = "erased" =>
         EraseEnded(cells) /\ (status = "HAL_OK" => ErasedBelow(cells, last, {}))

WriteInv ==
  where \in {"HAL_FLASH_Program", "readback"} =>
    /\ call.op = "write" /\ call.at \in Nat /\ call.len \in Nat
    /\ i \in Nat /\ i % WORD = 0 /\ i < call.len + WORD
    /\ where = "HAL_FLASH_Program" => WrittenBelow(cells, i, {})
    /\ where = "readback" =>
         /\ i < call.len /\ Dest <= FLASH_END
         /\ WrittenBelow(cells, i, WordCells(Dest))
         /\ \A a \in WordCells(Dest) \cap Addresses :
              cells[a] \in {Source[i + a - Dest], Garbage}

CallInv ==
  /\ where \in {"idle", "HAL_FLASHEx_Erase", "sector", "erased", "HAL_FLASH_Program", "readback"}
  /\ EraseInv /\ WriteInv

\* The loop over the sectors runs within bank 1.
LEMMA Loop ==
  ASSUME call.len \in Nat
  PROVE  startsector \in Nat /\ last \in Nat /\ startsector <= last
  BY StartSector, NbSectorsRange, LayoutAssumption DEF last

\* What is erased below s, with the next sector apart or not, is where an erase may stop.
LEMMA Stopped ==
  ASSUME NEW c, call.len \in Nat, NEW s \in startsector .. last,
         ErasedBelow(c, s, {}) \/ (s < last /\ ErasedBelow(c, s, SectorCells(s)))
  PROVE  EraseEnded(c)
<1>1. CASE s = last
  BY <1>1, Loop DEF EraseEnded
<1>2. CASE s < last
  <2>1. s \in startsector .. last - 1
    BY <1>2, Loop
  <2>2. ErasedBelow(c, s, SectorCells(s))
    BY DEF ErasedBelow
  <2> QED BY <2>1, <2>2 DEF EraseEnded
<1> QED BY <1>1, <1>2, Loop

\* An erased sector on top of the erased ones below it.
LEMMA NextSector ==
  ASSUME NEW c, NEW d, NEW s \in Int, startsector \in Int, startsector <= s,
         ErasedBelow(c, s, {}),
         \A a \in Addresses : d[a] = IF InSector(a, 0, s) THEN Erased ELSE c[a]
  PROVE  ErasedBelow(d, s + 1, {})
<1> SUFFICES ASSUME NEW a \in Addresses
    PROVE d[a] = IF \E k \in startsector .. s + 1 - 1 : InSector(a, 0, k)
                 THEN Erased ELSE before[a]
  BY DEF ErasedBelow
<1>1. c[a] = IF \E k \in startsector .. s - 1 : InSector(a, 0, k) THEN Erased ELSE before[a]
  BY DEF ErasedBelow
<1>2. startsector .. s + 1 - 1 = (startsector .. s - 1) \cup {s}
  OBVIOUS
<1> QED BY <1>1, <1>2

LEMMA EraseInvStep ==
  ASSUME EraseInv, [Next]_vars
  PROVE  EraseInv'
<1> USE DEF EraseInv
<1>1. ASSUME NEW len \in Lens, Erase_FLASH(len)
      PROVE  EraseInv'
  <2>1. /\ where' = "HAL_FLASHEx_Erase" /\ i' = startsector /\ before' = cells /\ cells' = cells
        /\ call'.op = "erase" /\ call'.len \in Nat /\ ~ locked'
    BY <1>1, DriverAssumption DEF Erase_FLASH, Begin
  <2>2. i' \in (startsector .. last)'
    <3>1. NbSectors(call'.len) \in Nat
      BY <2>1, NbSectorsRange
    <3> QED BY <2>1, <3>1, StartSector, LayoutAssumption DEF last
  <2>3. ErasedBelow(cells, i, {})'
    BY <2>1, StartSector, LayoutAssumption DEF ErasedBelow
  <2> QED BY <2>1, <2>2, <2>3
<1>2. CASE where \in {"HAL_FLASHEx_Erase", "sector", "erased"}
           /\ (HAL_FLASHEx_Erase \/ FLASH_Erase_Sector \/ SectorsErased)
  <2>1. /\ call.op = "erase" /\ call.len \in Nat /\ ~ locked
        /\ UNCHANGED <<call, locked, before>> /\ last' = last
    BY <1>2 DEF HAL_FLASHEx_Erase, FLASH_Erase_Sector, SectorsErased, Keep, last
  <2>2. startsector \in Nat /\ last \in Nat /\ startsector <= last
    BY <2>1, Loop
  <2>3. CASE HAL_FLASHEx_Erase
    <3>1. /\ i \in startsector .. last /\ ErasedBelow(cells, i, {}) /\ UNCHANGED <<i, cells>>
          /\ \/ where' = "sector" /\ status' = "HAL_OK"
             \/ where' = "erased" /\ status' # "HAL_OK"
      BY <2>3 DEF HAL_FLASHEx_Erase
    <3>2. EraseEnded(cells)
      BY <2>1, <3>1, Stopped
    <3>3. ErasedBelow(cells, i, {})' /\ EraseEnded(cells)'
      BY <2>1, <3>1, <3>2 DEF ErasedBelow, EraseEnded
    <3> QED BY <2>1, <3>1, <3>3
  <2>4. CASE FLASH_Erase_Sector
    <3>1. /\ where = "sector" /\ i \in startsector .. last /\ i < last /\ i \in Int
          /\ ErasedBelow(cells, i, {}) /\ status = "HAL_OK"
      BY <2>2, <2>4 DEF FLASH_Erase_Sector, last
    <3>2. CASE where' = "sector"
      <4>1. /\ \A a \in Addresses : cells'[a] = IF InSector(a, 0, i) THEN Erased ELSE cells[a]
            /\ i' = i + 1 /\ status' = "HAL_OK"
        BY <2>1, <2>4, <3>1, <3>2 DEF FLASH_Erase_Sector
      <4>2. ErasedBelow(cells', i + 1, {})
        BY <2>2, <3>1, <4>1, NextSector
      <4>3. ErasedBelow(cells, i, {})'
        BY <2>1, <4>1, <4>2 DEF ErasedBelow
      <4>4. i' \in startsector .. last
        BY <2>2, <3>1, <4>1
      <4> QED BY <2>1, <3>2, <4>1, <4>3, <4>4
    <3>3. CASE where' = "erased"
      <4>1. /\ \E c \in {Erased, Garbage} :
                 cells' = [a \in Addresses |-> IF InSector(a, 0, i) THEN c ELSE cells[a]]
            /\ status' = "HAL_ERROR"
        BY <2>4, <3>1, <3>3 DEF FLASH_Erase_Sector
      <4>2. \A a \in Addresses \ SectorCells(i) : cells'[a] = cells[a]
        BY <4>1 DEF SectorCells
      <4>3. ErasedBelow(cells', i, SectorCells(i))
        BY <3>1, <4>2 DEF ErasedBelow
      <4>4. EraseEnded(cells')
        BY <2>1, <3>1, <4>3, Stopped
      <4>5. EraseEnded(cells)'
        BY <2>1, <4>4 DEF EraseEnded, ErasedBelow
      <4> QED BY <2>1, <3>3, <4>1, <4>5
    <3> QED BY <2>4, <3>1, <3>2, <3>3 DEF FLASH_Erase_Sector
  <2>5. CASE SectorsErased
    <3>1. /\ where = "sector" /\ i \in startsector .. last /\ i >= last
          /\ ErasedBelow(cells, i, {}) /\ where' = "erased" /\ UNCHANGED cells
      BY <2>5 DEF SectorsErased, last
    <3>2. i = last
      BY <2>2, <3>1
    <3>3. ErasedBelow(cells, last, {})' /\ EraseEnded(cells)'
      BY <2>1, <3>1, <3>2 DEF ErasedBelow, EraseEnded
    <3> QED BY <2>1, <3>1, <3>3
  <2> QED BY <1>2, <2>3, <2>4, <2>5
<1>3. CASE EraseReturn \/ WriteReturn \/ Reset
  BY <1>3 DEF EraseReturn, WriteReturn, Reset, Return
<1>4. CASE \E w \in Writes : Flash_If_Write(w)
  BY <1>4 DEF Flash_If_Write
<1>5. CASE HAL_FLASH_Program \/ ReadBack
  <2>1. where' \notin {"HAL_FLASHEx_Erase", "sector", "erased"}
    BY <1>5 DEF HAL_FLASH_Program, ReadBack, ProgramFails, Return
  <2> QED BY <2>1
<1>6. CASE UNCHANGED vars
  BY <1>6 DEF vars, last, ErasedBelow, EraseEnded
<1>7. (HAL_FLASHEx_Erase \/ FLASH_Erase_Sector \/ SectorsErased) =>
        where \in {"HAL_FLASHEx_Erase", "sector", "erased"}
  BY DEF HAL_FLASHEx_Erase, FLASH_Erase_Sector, SectorsErased
<1> QED BY <1>1, <1>2, <1>3, <1>4, <1>5, <1>6, <1>7 DEF Next

\* Arithmetic of flash words: multiples of WORD are WORD apart, a cell and the multiple
\* below it, and the cells of the word that begins at a multiple.
LEMMA Multiples ==
  ASSUME NEW x \in Int, NEW y \in Int, x % WORD = 0, y % WORD = 0, x < y
  PROVE  x + WORD <= y
<1> DEFINE p == x \div WORD
           q == y \div WORD
<1>1. WORD \in Nat \ {0}
  BY DriverAssumption
<1>2. p \in Int /\ q \in Int /\ x = p * WORD /\ y = q * WORD
  <2>1. /\ p \in Int /\ x = p * WORD + (x % WORD) /\ q \in Int /\ y = q * WORD + (y % WORD)
    BY <1>1, Division
  <2> HIDE DEF p, q
  <2> QED BY <1>1, <2>1
<1> HIDE DEF p, q
<1>3. (p + 1) * WORD = x + WORD
  BY <1>1, <1>2
<1>4. p * WORD < q * WORD
  BY <1>2
<1>5. p + 1 <= q
  BY <1>1, <1>2, <1>4, Monotone
<1>6. (p + 1) * WORD <= q * WORD
  BY <1>1, <1>2, <1>5, Monotone
<1> QED BY <1>2, <1>3, <1>6

LEMMA WordOf ==
  ASSUME NEW j \in Int
  PROVE  j % WORD \in 0 .. WORD - 1 /\ (j - (j % WORD)) % WORD = 0
<1> DEFINE q == j \div WORD
<1>1. WORD \in Nat \ {0}
  BY DriverAssumption
<1>2. q \in Int /\ j = q * WORD + (j % WORD) /\ j % WORD \in 0 .. WORD - 1
  BY <1>1, Division
<1> HIDE DEF q
<1>3. j - (j % WORD) = q * WORD + 0 /\ 0 \in 0 .. WORD - 1
  BY <1>1, <1>2
<1>4. (q * WORD + 0) % WORD = 0
  BY <1>1, <1>2, <1>3, Remainder
<1> QED BY <1>2, <1>3, <1>4

LEMMA InWord ==
  ASSUME NEW n \in Int, n % WORD = 0, NEW r \in 0 .. WORD - 1
  PROVE  (n + r) % WORD = r /\ (n + WORD) % WORD = 0
<1> DEFINE q == n \div WORD
<1>1. WORD \in Nat \ {0}
  BY DriverAssumption
<1>2. q \in Int /\ n = q * WORD + (n % WORD)
  BY <1>1, Division
<1> HIDE DEF q
<1>3. /\ n + r = q * WORD + r /\ n + WORD = (q + 1) * WORD + 0
      /\ q + 1 \in Int /\ 0 \in 0 .. WORD - 1
  BY <1>1, <1>2
<1>4. (q * WORD + r) % WORD = r
  BY <1>1, <1>2, Remainder
<1>5. ((q + 1) * WORD + 0) % WORD = 0
  BY <1>1, <1>3, Remainder
<1> QED BY <1>3, <1>4, <1>5

\* One word more: the cells of the words below n, and of the word at n.
LEMMA OneWord ==
  ASSUME NEW n \in Nat, n % WORD = 0, NEW j \in Int
  PROVE  /\ j - (j % WORD) < n + WORD <=> j - (j % WORD) < n \/ j \in n .. n + WORD - 1
         /\ j \in n .. n + WORD - 1 => j - (j % WORD) >= n
<1> DEFINE m == j - (j % WORD)
<1>0. WORD \in Nat \ {0} /\ j % WORD \in 0 .. WORD - 1 /\ m % WORD = 0
  BY DriverAssumption, WordOf
<1>1. WORD \in Nat \ {0} /\ m \in Int /\ m % WORD = 0 /\ j = m + (j % WORD)
  BY <1>0
<1> HIDE DEF m
<1>2. ASSUME j \in n .. n + WORD - 1
      PROVE  m = n
  <2> DEFINE r == j - n
  <2>1. r \in 0 .. WORD - 1 /\ j = n + r
    BY <1>0, <1>2
  <2> HIDE DEF r
  <2>2. j % WORD = r
    BY <2>1, InWord
  <2> QED BY <1>1, <2>1, <2>2
<1>3. ASSUME m < n + WORD, ~ (m < n)
      PROVE  j \in n .. n + WORD - 1
  <2>0. n \in Int /\ n % WORD = 0
    OBVIOUS
  <2>1. n < m => n + WORD <= m
    BY <2>0, <1>1, Multiples
  <2>2. m = n
    BY <1>0, <1>1, <1>3, <2>1
  <2> QED BY <1>0, <1>1, <2>2
<1>4. /\ m < n + WORD <=> m < n \/ j \in n .. n + WORD - 1
      /\ j \in n .. n + WORD - 1 => m >= n
  BY <1>0, <1>1, <1>2, <1>3
<1> QED BY <1>4 DEF m

LEMMA AddressesInt == Addresses \subseteq Int /\ IAP_APP_ADDRESS \in Nat /\ FLASH_END \in Int
  BY SectorFacts, LayoutAssumption DEF Addresses, FLASH_END, SectorStart

\* The word at n on top of the words below it.
LEMMA NextWord ==
  ASSUME NEW c, NEW n \in Nat, n % WORD = 0, call.at \in Nat,
         WrittenBelow(c, n, WordCells(IAP_APP_ADDRESS + call.at + n)),
         \A a \in WordCells(IAP_APP_ADDRESS + call.at + n) \cap Addresses :
           LET j == a - IAP_APP_ADDRESS - call.at IN
           c[a] = Source[j] \/ (c[a] = Garbage /\ a # IAP_APP_ADDRESS + call.at + n)
  PROVE  WrittenBelow(c, n + WORD, {})
<1> SUFFICES ASSUME NEW a \in Addresses
             PROVE  LET j == a - IAP_APP_ADDRESS - call.at IN
                    IF 0 <= j /\ j - (j % WORD) < n + WORD
                      THEN c[a] = Source[j] \/ (c[a] = Garbage /\ j % WORD # 0)
                      ELSE c[a] = before[a]
  BY DEF WrittenBelow
<1> DEFINE j == a - IAP_APP_ADDRESS - call.at
<1>1. j \in Int /\ a = IAP_APP_ADDRESS + call.at + j /\ WORD \in Nat \ {0}
  BY AddressesInt, DriverAssumption
<1>2. a \in WordCells(IAP_APP_ADDRESS + call.at + n) <=> j \in n .. n + WORD - 1
  BY <1>1, AddressesInt DEF WordCells
<1>3. CASE j \in n .. n + WORD - 1
  <2>1. c[a] = Source[j] \/ (c[a] = Garbage /\ a # IAP_APP_ADDRESS + call.at + n)
    BY <1>2, <1>3
  <2> HIDE DEF j
  <2> DEFINE r == j - n
  <2>2. r \in 0 .. WORD - 1 /\ j = n + r
    BY <1>1, <1>3
  <2> HIDE DEF r
  <2>3. j % WORD = r
    BY <2>2, InWord
  <2>4. 0 <= j /\ j - (j % WORD) < n + WORD
    BY <1>1, <2>2, <2>3
  <2>5. a # IAP_APP_ADDRESS + call.at + n => r # 0
    BY <1>1, <2>2
  <2> QED BY <2>1, <2>3, <2>4, <2>5 DEF j
<1>4. CASE j \notin n .. n + WORD - 1
  <2>1. IF 0 <= j /\ j - (j % WORD) < n
          THEN c[a] = Source[j] \/ (c[a] = Garbage /\ j % WORD # 0)
          ELSE c[a] = before[a]
    BY <1>2, <1>4 DEF WrittenBelow
  <2> HIDE DEF j
  <2>2. j - (j % WORD) < n + WORD <=> j - (j % WORD) < n
    BY <1>1, <1>4, OneWord
  <2>3. IF 0 <= j /\ j - (j % WORD) < n + WORD
          THEN c[a] = Source[j] \/ (c[a] = Garbage /\ j % WORD # 0)
          ELSE c[a] = before[a]
    BY <2>1, <2>2
  <2> QED BY <2>3 DEF j
<1> QED BY <1>3, <1>4

LEMMA WriteInvStep ==
  ASSUME WriteInv, [Next]_vars
  PROVE  WriteInv'
<1> USE DEF WriteInv
<1>1. ASSUME NEW w \in Writes, Flash_If_Write(w)
      PROVE  WriteInv'
  <2>1. /\ where' = "HAL_FLASH_Program" /\ i' = 0 /\ before' = cells /\ cells' = cells
        /\ call'.op = "write" /\ call'.at \in Nat /\ call'.len \in Nat
        /\ WORD \in Nat \ {0} /\ 0 % WORD = 0
    <3>1. WORD \in Nat \ {0} /\ w.at \in Nat /\ w.len \in Nat
      BY DriverAssumption
    <3>2. 0 % WORD = 0
      BY <3>1
    <3> QED BY <1>1, <3>1, <3>2 DEF Flash_If_Write, Begin
  <2>2. WrittenBelow(cells, i, {})'
    <3> SUFFICES ASSUME NEW a \in Addresses
                 PROVE  LET j == a - IAP_APP_ADDRESS - call'.at IN
                        ~ (0 <= j /\ j - (j % WORD) < 0)
      BY <2>1 DEF WrittenBelow
    <3> DEFINE j == a - IAP_APP_ADDRESS - call'.at
    <3>1. j \in Int
      BY <2>1, AddressesInt
    <3> HIDE DEF j
    <3>2. 0 <= j => j - (j % WORD) >= 0
      <4>1. j % WORD \in 0 .. WORD - 1 /\ (j - (j % WORD)) % WORD = 0
        BY <3>1, WordOf
      <4>2. j - (j % WORD) < 0 => j - (j % WORD) + WORD <= 0
        BY <2>1, <3>1, <4>1, Multiples
      <4> QED BY <2>1, <3>1, <4>1, <4>2
    <3> QED BY <2>1, <3>1, <3>2, WordOf DEF j
  <2> QED BY <2>1, <2>2
<1>2. CASE HAL_FLASH_Program /\ where' = "readback"
  <2>0. /\ where = "HAL_FLASH_Program" /\ i < call.len /\ Dest <= FLASH_END
        /\ UNCHANGED <<i, call, before>>
    BY <1>2 DEF HAL_FLASH_Program, ProgramFails, Return, Keep
  <2>1. /\ call.op = "write" /\ call.at \in Nat /\ call.len \in Nat
        /\ i \in Nat /\ i % WORD = 0 /\ i < call.len + WORD /\ WrittenBelow(cells, i, {})
    BY <2>0
  <2>2. PICK spoilt \in SUBSET WordCells(Dest) :
          cells' = [a \in Addresses |->
                     IF a \in spoilt THEN Garbage
                     ELSE IF a \in WordCells(Dest) THEN Source[i + a - Dest]
                     ELSE cells[a]]
    BY <1>2 DEF HAL_FLASH_Program, ProgramFails, Return
  <2>3. \A a \in Addresses \ WordCells(Dest) : cells'[a] = cells[a]
    BY <2>2
  <2>4. \A a \in WordCells(Dest) \cap Addresses : cells'[a] \in {Source[i + a - Dest], Garbage}
    BY <2>2
  <2>5. Dest' = Dest
    BY <2>0 DEF Dest
  <2>6. WrittenBelow(cells, i, WordCells(Dest))'
    BY <2>0, <2>1, <2>3, <2>5 DEF WrittenBelow
  <2> QED BY <1>2, <2>0, <2>1, <2>4, <2>5, <2>6
<1>3. CASE ReadBack /\ where' = "HAL_FLASH_Program"
  <2>1. /\ where = "readback" /\ cells[Dest] = Source[i]
        /\ i' = i + WORD /\ UNCHANGED <<call, before, cells>>
    BY <1>3 DEF ReadBack, Return, Keep
  <2>2. /\ call.op = "write" /\ call.at \in Nat /\ call.len \in Nat
        /\ i \in Nat /\ i % WORD = 0 /\ i < call.len /\ Dest <= FLASH_END
        /\ WrittenBelow(cells, i, WordCells(Dest))
        /\ \A a \in WordCells(Dest) \cap Addresses :
             cells[a] \in {Source[i + a - Dest], Garbage}
    BY <2>1
  <2>3. Dest = IAP_APP_ADDRESS + call.at + i /\ WORD \in Nat \ {0}
    BY DriverAssumption DEF Dest
  <2>4. ASSUME NEW a \in WordCells(Dest) \cap Addresses
        PROVE  \/ cells[a] = Source[a - IAP_APP_ADDRESS - call.at]
               \/ cells[a] = Garbage /\ a # Dest
    <3>1. a - IAP_APP_ADDRESS - call.at = i + a - Dest
      BY <2>2, <2>3, AddressesInt
    <3>2. a = Dest => i + a - Dest = i
      BY <2>2, <2>3, AddressesInt
    <3> QED BY <2>1, <2>2, <3>1, <3>2
  <2>5. WrittenBelow(cells, i + WORD, {})
    BY <2>2, <2>3, <2>4, NextWord
  <2>6. WrittenBelow(cells, i, {})'
    BY <2>1, <2>5 DEF WrittenBelow
  <2>7. i' \in Nat /\ i' % WORD = 0 /\ i' < call.len + WORD
    <3>1. (i + WORD) % WORD = 0
      <4>1. 0 \in 0 .. WORD - 1 /\ i \in Int
        BY <2>2, <2>3
      <4> QED BY <2>2, <4>1, InWord
    <3> QED BY <2>1, <2>2, <2>3, <3>1
  <2> QED BY <1>3, <2>1, <2>2, <2>6, <2>7
<1>4. CASE UNCHANGED vars
  BY <1>4 DEF vars, WrittenBelow, Dest
<1>5. CASE where' \notin {"HAL_FLASH_Program", "readback"}
  BY <1>5
<1>6. \/ \E w \in Writes : Flash_If_Write(w)
      \/ HAL_FLASH_Program /\ where' = "readback"
      \/ ReadBack /\ where' = "HAL_FLASH_Program"
      \/ UNCHANGED vars
      \/ where' \notin {"HAL_FLASH_Program", "readback"}
  BY DEF Next, Erase_FLASH, HAL_FLASHEx_Erase, FLASH_Erase_Sector, SectorsErased, EraseReturn,
     HAL_FLASH_Program, ProgramFails, ReadBack, WriteReturn, Reset, Return
<1> QED BY <1>1, <1>2, <1>3, <1>4, <1>5, <1>6

LEMMA CallInvariance == Spec => []CallInv
<1>1. Init => CallInv
  BY DEF Init, CallInv, EraseInv, WriteInv
<1>2. CallInv /\ [Next]_vars => CallInv'
  <2>1. CallInv /\ [Next]_vars =>
          (where \in {"idle", "HAL_FLASHEx_Erase", "sector", "erased", "HAL_FLASH_Program",
                      "readback"})'
    BY DEF CallInv, Next, vars, Erase_FLASH, HAL_FLASHEx_Erase, FLASH_Erase_Sector, SectorsErased,
       EraseReturn, Flash_If_Write, HAL_FLASH_Program, ProgramFails, ReadBack, WriteReturn, Reset,
       Return
  <2> QED BY <2>1, EraseInvStep, WriteInvStep DEF CallInv
<1> QED BY <1>1, <1>2, PTL DEF Spec

\* The service counts addresses and sectors as the driver does.
LEMMA SameLayout ==
  /\ Service!Addresses = Addresses /\ Service!IAP_APP_ADDRESS = IAP_APP_ADDRESS
  /\ \A k : Service!SectorCells(k) = SectorCells(k)
  /\ \A a : Service!WordCells(a) = WordCells(a)
  /\ \A a : Service!GetSector(a) = GetSector(a)
  /\ \A len : Service!NbSectors(len) = NbSectors(len)
  /\ \A n : Service!ErasedSectors(n) = ErasedSectors(n)
<1>1. /\ \A b, k : Service!SectorStart(b, k) = SectorStart(b, k)
      /\ Service!IAP_APP_ADDRESS = IAP_APP_ADDRESS
  BY DEF Service!SectorStart, SectorStart, Service!IAP_APP_ADDRESS, IAP_APP_ADDRESS
<1>2. \A a, b, k : Service!InSector(a, b, k) <=> InSector(a, b, k)
  BY <1>1 DEF Service!InSector, InSector
<1>3. Service!Addresses = Addresses
  BY <1>1 DEF Service!Addresses, Service!FLASH_END, Addresses, FLASH_END
<1>4. \A k : Service!SectorCells(k) = SectorCells(k)
  BY <1>2, <1>3 DEF Service!SectorCells, SectorCells
<1>5. \A a : Service!GetSector(a) = GetSector(a)
  <2> SUFFICES ASSUME NEW a PROVE Service!GetSector(a) = GetSector(a)
    OBVIOUS
  <2>1. \A k : (\E b \in {0, 1} : Service!InSector(a, b, k)) <=> \E b \in {0, 1} : InSector(a, b, k)
    BY <1>2
  <2> QED BY <2>1 DEF Service!GetSector, GetSector
<1>6. /\ \A len : Service!NbSectors(len) = NbSectors(len)
      /\ \A n : Service!ErasedSectors(n) = ErasedSectors(n)
  BY <1>1, <1>5 DEF Service!NbSectors, NbSectors, Service!ErasedSectors, ErasedSectors
<1>7. \A a : Service!WordCells(a) = WordCells(a)
  BY DEF Service!WordCells, WordCells
<1> QED BY <1>1, <1>3, <1>4, <1>5, <1>6, <1>7

\* An erase that came to its end or stopped is what the service calls one.
LEMMA ServiceErase ==
  ASSUME call.op = "erase", call.len \in Nat, where # "idle", where' = "idle"
  PROVE  /\ ErasedBelow(cells', last, {}) => Service!Erased_OK
         /\ EraseEnded(cells') => Service!EraseStopped
<1>1. startsector \in Nat /\ last \in Nat /\ startsector <= last /\ NbSectors(call.len) \in Nat
      /\ last = startsector + NbSectors(call.len) /\ startsector = GetSector(IAP_APP_ADDRESS)
  BY Loop, NbSectorsRange DEF last, startsector
<1>2. \A s \in Int : \A a \in Addresses :
        a \in UNION {SectorCells(k) : k \in ErasedSectors(s - startsector)}
          <=> \E k \in startsector .. s - 1 : InSector(a, 0, k)
  <2> SUFFICES ASSUME NEW s \in Int, NEW a \in Addresses
               PROVE  a \in UNION {SectorCells(k) : k \in ErasedSectors(s - startsector)}
                        <=> \E k \in startsector .. s - 1 : InSector(a, 0, k)
    OBVIOUS
  <2>1. ErasedSectors(s - startsector) = startsector .. s - 1
    BY <1>1 DEF ErasedSectors
  <2>2. \A k : a \in SectorCells(k) <=> InSector(a, 0, k)
    BY DEF SectorCells
  <2>3. a \in UNION {SectorCells(k) : k \in ErasedSectors(s - startsector)}
          <=> \E k \in ErasedSectors(s - startsector) : a \in SectorCells(k)
    OBVIOUS
  <2> QED BY <2>1, <2>2, <2>3
<1>3. ASSUME NEW s \in Int, NEW torn, ErasedBelow(cells', s, torn)
      PROVE  Service!ErasedUpTo(s - startsector, torn)
  <2> DEFINE U == UNION {Service!SectorCells(k) : k \in Service!ErasedSectors(s - startsector)}
  <2>1. U = UNION {SectorCells(k) : k \in ErasedSectors(s - startsector)}
    BY SameLayout
  <2> HIDE DEF U
  <2>2. \A a \in Addresses \ torn : cells'[a] = IF a \in U THEN Erased ELSE before[a]
    BY <1>2, <1>3, <2>1 DEF ErasedBelow
  <2> QED BY <2>2, SameLayout DEF Service!ErasedUpTo, U
<1>4. ErasedBelow(cells', last, {}) => Service!ErasedUpTo(NbSectors(call.len), {})
  <2>1. NbSectors(call.len) = last - startsector
    BY <1>1
  <2> QED BY <1>1, <1>3, <2>1
<1>5. ASSUME NEW s \in startsector .. last - 1, ErasedBelow(cells', s, SectorCells(s))
      PROVE  \E n \in 0 .. NbSectors(call.len) - 1 :
               Service!ErasedUpTo(n, SectorCells(startsector + n))
  <2> DEFINE n == s - startsector
  <2>1. n \in 0 .. NbSectors(call.len) - 1 /\ startsector + n = s
    BY <1>1
  <2>2. Service!ErasedUpTo(n, SectorCells(s))
    BY <1>1, <1>3, <1>5
  <2>3. Service!ErasedUpTo(n, SectorCells(startsector + n))
    BY <2>1, <2>2
  <2> HIDE DEF n
  <2> QED BY <2>1, <2>3
<1> QED
  BY <1>1, <1>4, <1>5, SameLayout DEF EraseEnded, Service!Erased_OK, Service!EraseStopped

\* So is a write.
LEMMA ServiceWrite ==
  ASSUME call.op = "write", call.at \in Nat, call.len \in Nat, where # "idle", where' = "idle",
         NEW n \in Nat, n % WORD = 0, n < call.len + WORD
  PROVE  /\ n >= call.len /\ WrittenBelow(cells', n, {}) => Service!Written_OK
         /\ n < call.len /\ (\/ WrittenBelow(cells', n, {})
                             \/ WrittenBelow(cells', n, WordCells(IAP_APP_ADDRESS + call.at + n)))
              => Service!WriteStopped
<1>1. ASSUME NEW m, NEW torn, WrittenBelow(cells', m, torn)
      PROVE  Service!WrittenUpTo(m, torn)
  BY <1>1, SameLayout DEF WrittenBelow, Service!WrittenUpTo
<1>2. ASSUME n >= call.len, WrittenBelow(cells', n, {})
      PROVE  Service!Written_OK
  <2>1. ASSUME NEW j \in Int
        PROVE  j - (j % WORD) < n <=> j - (j % WORD) < call.len
    <3>1. j % WORD \in 0 .. WORD - 1 /\ (j - (j % WORD)) % WORD = 0 /\ WORD \in Nat \ {0}
      BY WordOf, DriverAssumption
    <3>2. j - (j % WORD) \in Int /\ n \in Int
      BY <3>1
    <3>3. j - (j % WORD) < n => j - (j % WORD) + WORD <= n
      BY <3>1, <3>2, Multiples
    <3> QED BY <1>2, <3>1, <3>2, <3>3
  <2>2. \A a \in Addresses : a - IAP_APP_ADDRESS - call.at \in Int
    BY AddressesInt
  <2>3. WrittenBelow(cells', call.len, {})
    BY <1>2, <2>1, <2>2 DEF WrittenBelow
  <2> QED BY <1>1, <2>3 DEF Service!Written_OK
<1>3. ASSUME n < call.len,
             \/ WrittenBelow(cells', n, {})
             \/ WrittenBelow(cells', n, WordCells(IAP_APP_ADDRESS + call.at + n))
      PROVE  Service!WriteStopped
  <2>1. WrittenBelow(cells', n, WordCells(IAP_APP_ADDRESS + call.at + n))
    BY <1>3 DEF WrittenBelow
  <2>2. Service!WrittenUpTo(n, Service!WordCells(Service!IAP_APP_ADDRESS + call.at + n))
    BY <1>1, <2>1, SameLayout
  <2>3. n \in {k \in 0 .. call.len - 1 : k % WORD = 0}
    BY <1>3
  <2> QED BY <2>2, <2>3 DEF Service!WriteStopped
<1> QED BY <1>2, <1>3

\* Each call of the driver, with its faults and resets, is one step of the service.
THEOREM DriverImplements == Spec => ServiceSpec
<1> DEFINE Content == IF where = "idle" THEN cells ELSE before
<1>1. Spec => []CallInv
  BY CallInvariance
<1>3. Init => Service!Init
  BY SameLayout DEF Init, Service!Init
<1>4. CallInv /\ [Next]_vars => [Service!Next]_<<call, where # "idle", Content, result>>
  <2> SUFFICES ASSUME CallInv, EraseInv, WriteInv, [Next]_vars
               PROVE  [Service!Next]_<<call, where # "idle", Content, result>>
    BY DEF CallInv
  <2>1. CASE \E len \in Lens : Erase_FLASH(len)
    BY <2>1 DEF Erase_FLASH, Begin, Service!Next, Service!Erase_FLASH
  <2>2. CASE \E w \in Writes : Flash_If_Write(w)
    BY <2>2 DEF Flash_If_Write, Begin, Service!Next, Service!Flash_If_Write
  <2>3. CASE HAL_FLASHEx_Erase \/ FLASH_Erase_Sector \/ SectorsErased
    BY <2>3 DEF HAL_FLASHEx_Erase, FLASH_Erase_Sector, SectorsErased, Keep
  <2>4. CASE EraseReturn
    <3>1. /\ call.op = "erase" /\ call.len \in Nat /\ where # "idle" /\ where' = "idle"
          /\ UNCHANGED <<call, cells>> /\ EraseEnded(cells)
          /\ status = "HAL_OK" => ErasedBelow(cells, last, {})
          /\ result' = IF status = "HAL_OK" THEN "OK" ELSE "ERROR"
      BY <2>4 DEF EraseInv, EraseReturn, Return
    <3>2. EraseEnded(cells') /\ (status = "HAL_OK" => ErasedBelow(cells', last, {}))
      BY <3>1
    <3>3. Service!EraseStopped /\ (status = "HAL_OK" => Service!Erased_OK)
      BY <3>1, <3>2, ServiceErase
    <3> QED BY <3>1, <3>3 DEF Service!Next, Service!Return
  <2>5. CASE HAL_FLASH_Program
    <3>1. CASE where' = "readback"
      BY <2>5, <3>1 DEF HAL_FLASH_Program, ProgramFails, Return, Keep
    <3>2. CASE where' = "idle"
      <4>1. /\ call.op = "write" /\ call.at \in Nat /\ call.len \in Nat
            /\ i \in Nat /\ i % WORD = 0 /\ i < call.len + WORD /\ WrittenBelow(cells, i, {})
            /\ i < call.len /\ Dest = IAP_APP_ADDRESS + call.at + i /\ where # "idle"
        BY <2>5 DEF WriteInv, HAL_FLASH_Program, Dest
      <4>2. \A a \in Addresses \ WordCells(Dest) : cells'[a] = cells[a]
        BY <2>5 DEF HAL_FLASH_Program
      <4>3. WrittenBelow(cells', i, WordCells(Dest))
        BY <4>1, <4>2 DEF WrittenBelow
      <4>4. Service!WriteStopped
        BY <3>2, <4>1, <4>3, ServiceWrite
      <4>5. result' = "ERROR" /\ UNCHANGED call
        BY <2>5, <3>2 DEF HAL_FLASH_Program, ProgramFails, Return
      <4> QED BY <3>2, <4>1, <4>4, <4>5 DEF Service!Next, Service!Return
    <3> QED BY <2>5, <3>1, <3>2 DEF HAL_FLASH_Program, ProgramFails, Return
  <2>6. CASE ReadBack
    <3>1. CASE where' = "HAL_FLASH_Program"
      BY <2>6, <3>1 DEF ReadBack, Return, Keep
    <3>2. CASE where' = "idle"
      <4>1. /\ call.op = "write" /\ call.at \in Nat /\ call.len \in Nat
            /\ i \in Nat /\ i % WORD = 0 /\ i < call.len + WORD
            /\ WrittenBelow(cells, i, WordCells(Dest))
            /\ i < call.len /\ Dest = IAP_APP_ADDRESS + call.at + i /\ where # "idle"
            /\ UNCHANGED <<cells, call>> /\ result' = "ERROR"
        BY <2>6, <3>2 DEF WriteInv, ReadBack, Return, Dest
      <4>2. Service!WriteStopped
        BY <3>2, <4>1, ServiceWrite
      <4> QED BY <3>2, <4>1, <4>2 DEF Service!Next, Service!Return
    <3> QED BY <2>6, <3>1, <3>2 DEF ReadBack, Return
  <2>7. CASE WriteReturn
    <3>1. /\ call.op = "write" /\ call.at \in Nat /\ call.len \in Nat
          /\ i \in Nat /\ i % WORD = 0 /\ i < call.len + WORD /\ WrittenBelow(cells, i, {})
          /\ i >= call.len /\ where # "idle" /\ where' = "idle"
          /\ UNCHANGED <<cells, call>> /\ result' = "OK"
      BY <2>7 DEF WriteInv, WriteReturn, Return
    <3>2. Service!Written_OK
      BY <3>1, ServiceWrite
    <3> QED BY <3>1, <3>2 DEF Service!Next, Service!Return
  <2>8. CASE Reset
    <3>1. where' = "idle" /\ result' = "reset" /\ UNCHANGED call
      BY <2>8 DEF Reset
    <3>2. CASE where = "idle"
      <4>1. cells' = cells
        BY <2>8, <3>2 DEF Reset
      <4> QED BY <3>1, <3>2, <4>1 DEF Service!Next, Service!Reset
    <3>3. CASE where \in {"HAL_FLASHEx_Erase", "sector", "erased"}
      <4>1. call.op = "erase" /\ call.len \in Nat
        BY <3>3 DEF EraseInv
      <4>2. EraseEnded(cells')
        <5>1. CASE cells' = cells
          <6>1. EraseEnded(cells)
            BY <3>3, <4>1, Stopped DEF EraseInv
          <6> QED BY <5>1, <6>1
        <5>2. CASE cells' # cells
          <6>1. /\ where = "sector" /\ i < last /\ i \in startsector .. last
                /\ ErasedBelow(cells, i, {})
            BY <2>8, <3>3, <5>2 DEF EraseInv, Reset, last
          <6>2. \A a \in Addresses \ SectorCells(i) : cells'[a] = cells[a]
            BY <2>8, <5>2, <6>1 DEF Reset, SectorCells
          <6>3. ErasedBelow(cells', i, SectorCells(i))
            BY <6>1, <6>2 DEF ErasedBelow
          <6> QED BY <4>1, <6>1, <6>3, Stopped
        <5> QED BY <5>1, <5>2
      <4>3. Service!EraseStopped
        BY <3>1, <3>3, <4>1, <4>2, ServiceErase
      <4> QED BY <3>1, <3>3, <4>3 DEF Service!Next, Service!Return
    <3>4. CASE where \in {"HAL_FLASH_Program", "readback"}
      <4>1. /\ call.op = "write" /\ call.at \in Nat /\ call.len \in Nat
            /\ i \in Nat /\ i % WORD = 0 /\ i < call.len + WORD
            /\ Dest = IAP_APP_ADDRESS + call.at + i
            /\ where = "HAL_FLASH_Program" => WrittenBelow(cells, i, {})
            /\ where = "readback" => i < call.len /\ WrittenBelow(cells, i, WordCells(Dest))
        BY <3>4 DEF WriteInv, Dest
      <4>2. CASE i >= call.len
        <5>1. WrittenBelow(cells', i, {})
          BY <2>8, <3>4, <4>1, <4>2 DEF Reset
        <5>2. Service!Written_OK
          BY <3>1, <3>4, <4>1, <4>2, <5>1, ServiceWrite
        <5>3. Service!WriteStopped
          BY <5>2 DEF Service!Written_OK, Service!WriteStopped
        <5> QED BY <3>1, <3>4, <5>3 DEF Service!Next, Service!Return
      <4>3. CASE i < call.len
        <5>1. \A a \in Addresses \ WordCells(Dest) : cells'[a] = cells[a]
          BY <2>8, <3>4 DEF Reset
        <5>2. WrittenBelow(cells, i, WordCells(Dest))
          BY <3>4, <4>1 DEF WrittenBelow
        <5>3. WrittenBelow(cells', i, WordCells(Dest))
          BY <5>1, <5>2 DEF WrittenBelow
        <5>4. Service!WriteStopped
          BY <3>1, <3>4, <4>1, <4>3, <5>3, ServiceWrite
        <5> QED BY <3>1, <3>4, <5>4 DEF Service!Next, Service!Return
      <4> QED BY <4>1, <4>2, <4>3
    <3> QED BY <3>2, <3>3, <3>4 DEF CallInv
  <2>9. CASE UNCHANGED vars
    BY <2>9 DEF vars
  <2> QED BY <2>1, <2>2, <2>3, <2>4, <2>5, <2>6, <2>7, <2>8, <2>9 DEF Next
<1> QED BY <1>1, <1>3, <1>4, PTL DEF Spec, ServiceSpec, Service!Spec, Service!vars
-----------------------------------------------------------------------------
\* The place of an image that fits into bank 1 from the application's address on.
Fits == call.len \in 1 .. BankOneRoom

\* What AnnouncedErased says is true of such an image.
FittingErased == Fits => AnnouncedErased

\* An address of the image lies in one of the sectors that are erased for it.
LEMMA ImageInSectors ==
  ASSUME Fits, NEW a \in Addresses, IAP_APP_ADDRESS <= a, a < IAP_APP_ADDRESS + call.len
  PROVE  \E k \in startsector .. last - 1 : InSector(a, 0, k)
<1> DEFINE o == a - FLASH_BASE
           k == o \div SECTOR_SIZE
           r == o % SECTOR_SIZE
           nb == NbSectors(call.len)
<1>1. /\ a \in Int /\ call.len \in Nat /\ call.len \in 1 .. BankOneRoom /\ IAP_APP_ADDRESS \in Nat
      /\ FLASH_BASE \in Nat /\ SECTOR_SIZE \in Nat \ {0} /\ RESERVED_SECTORS \in Nat /\ o \in Int
  BY AddressesInt, SectorFacts, LayoutAssumption DEF Fits, BankOneRoom
<1>2. nb \in Nat /\ last = RESERVED_SECTORS + nb /\ startsector = RESERVED_SECTORS
  BY <1>1, NbSectorsRange, StartSector, LayoutAssumption DEF last
<1>3. ErasedOffset(a - IAP_APP_ADDRESS, nb)
  <2>1. a - IAP_APP_ADDRESS \in 0 .. call.len - 1
    BY <1>1
  <2> QED BY <1>1, <2>1, EraseCovers
<1>4. k \in Int /\ o = k * SECTOR_SIZE + r /\ r \in 0 .. SECTOR_SIZE - 1
  BY <1>1, Division
<1> HIDE DEF k, r, nb
<1>5. /\ (k + 1) * SECTOR_SIZE = k * SECTOR_SIZE + SECTOR_SIZE /\ k * SECTOR_SIZE \in Int
      /\ RESERVED_SECTORS * SECTOR_SIZE \in Int /\ nb * SECTOR_SIZE \in Int
      /\ (RESERVED_SECTORS + nb) * SECTOR_SIZE = RESERVED_SECTORS * SECTOR_SIZE + nb * SECTOR_SIZE
  BY <1>1, <1>2, <1>4
<1>6. InSector(a, 0, k)
  <2>1. SectorStart(0, k) = FLASH_BASE + k * SECTOR_SIZE
        /\ SectorStart(0, k + 1) = FLASH_BASE + (k + 1) * SECTOR_SIZE
    BY <1>1, <1>4, LayoutAssumption DEF SectorStart
  <2> QED BY <1>1, <1>4, <1>5, <2>1 DEF InSector
<1>7. RESERVED_SECTORS <= k
  <2>1. RESERVED_SECTORS * SECTOR_SIZE <= o
    BY <1>1, <1>5 DEF IAP_APP_ADDRESS
  <2>2. RESERVED_SECTORS * SECTOR_SIZE < (k + 1) * SECTOR_SIZE
    BY <2>1, <1>1, <1>4, <1>5
  <2>3. ~ (k + 1 <= RESERVED_SECTORS)
    BY <2>2, <1>1, <1>4, <1>5, Monotone
  <2> QED BY <2>3, <1>1, <1>4
<1>8. k < RESERVED_SECTORS + nb
  <2>1. o < (RESERVED_SECTORS + nb) * SECTOR_SIZE
    BY <1>1, <1>3, <1>5 DEF ErasedOffset, IAP_APP_ADDRESS
  <2>2. k * SECTOR_SIZE < (RESERVED_SECTORS + nb) * SECTOR_SIZE
    BY <2>1, <1>1, <1>4, <1>5
  <2>3. ~ (RESERVED_SECTORS + nb <= k)
    BY <2>2, <1>1, <1>2, <1>4, <1>5, Monotone
  <2> QED BY <2>3, <1>1, <1>2, <1>4
<1> QED BY <1>2, <1>4, <1>6, <1>7, <1>8

\* AnnouncedErased, which a run refutes for larger images, is true of those that fit
\* into bank 1: after a successful Erase_FLASH the whole place of the image is erased.
THEOREM FittingImageErased == Spec => []FittingErased
<1> DEFINE Done == where = "idle" /\ result = "OK" /\ call.op = "erase"
           Sectors0 == {a \in Addresses : \E k \in startsector .. last - 1 : InSector(a, 0, k)}
           AllErased == \A a \in Sectors0 : cells[a] = Erased
           Inv == Done => AllErased
<1>1. Init => Inv
  BY DEF Init
<1>2. CallInv /\ Inv /\ [Next]_vars => Inv'
  <2> SUFFICES ASSUME CallInv, Inv, [Next]_vars, Done'
               PROVE  AllErased'
    OBVIOUS
  <2>1. CASE EraseReturn
    <3>1. /\ status = "HAL_OK" /\ ErasedBelow(cells, last, {}) /\ cells' = cells /\ call' = call
      BY <2>1 DEF EraseReturn, Return, CallInv, EraseInv
    <3>2. Sectors0' = Sectors0
      BY <3>1 DEF last
    <3>3. AllErased
      BY <3>1 DEF ErasedBelow
    <3> QED BY <3>1, <3>2, <3>3
  <2>2. CASE UNCHANGED vars
    BY <2>2 DEF vars, last
  <2>3. CASE WriteReturn
    BY <2>3 DEF WriteReturn, Return, CallInv, WriteInv
  <2> QED
    BY <2>1, <2>2, <2>3 DEF Next, Erase_FLASH, HAL_FLASHEx_Erase, FLASH_Erase_Sector,
       SectorsErased, Flash_If_Write, HAL_FLASH_Program, ProgramFails, ReadBack, Reset, Return
<1>3. Inv => FittingErased
  <2> SUFFICES ASSUME Inv, Fits, Done, NEW a \in Addresses,
                      IAP_APP_ADDRESS <= a, a < IAP_APP_ADDRESS + call.len
               PROVE  cells[a] = Erased
    BY DEF FittingErased, AnnouncedErased
  <2>1. a \in Sectors0
    BY ImageInSectors
  <2> QED BY <2>1
<1> QED BY <1>1, <1>2, <1>3, CallInvariance, PTL DEF Spec
=============================================================================
