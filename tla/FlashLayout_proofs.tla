-------------------------- MODULE FlashLayout_proofs --------------------------
(***************************************************************************)
(* Which sectors an announcement erases, for every flash geometry and      *)
(* every announced size.                                                   *)
(***************************************************************************)
EXTENDS FlashLayout, TLAPS
-----------------------------------------------------------------------------
(* Arithmetic.                                                             *)

\* uint32_t leaves numbers in its range alone, and wraps small negative ones.
LEMMA ModIdentity ==
  ASSUME NEW u \in Nat \ {0}, NEW x \in 0 .. u - 1
  PROVE  x % u = x
  OBVIOUS

LEMMA ModNegative ==
  ASSUME NEW u \in Nat \ {0}, NEW x \in Int, - u < x, x < 0
  PROVE  x % u = x + u
  OBVIOUS

LEMMA ModRange ==
  ASSUME NEW u \in Nat \ {0}, NEW x \in Int
  PROVE  x % u \in 0 .. u - 1
  OBVIOUS

\* Multiples of a positive number are ordered as their factors are.
LEMMA Monotone ==
  ASSUME NEW s \in Nat \ {0}, NEW x \in Int, NEW y \in Int
  PROVE  x * s \in Int /\ (x <= y <=> x * s <= y * s)
  OBVIOUS

\* Quotient and remainder, which only one pair of numbers is.
LEMMA Division ==
  ASSUME NEW u \in Nat \ {0}, NEW x \in Int
  PROVE  x \div u \in Int /\ x = (x \div u) * u + (x % u) /\ x % u \in 0 .. u - 1
  OBVIOUS

LEMMA DivisionUnique ==
  ASSUME NEW u \in Nat \ {0}, NEW p \in Int, NEW q \in Int,
         NEW r \in 0 .. u - 1, NEW t \in 0 .. u - 1, p * u + r = q * u + t
  PROVE  p = q /\ r = t
<1>1. /\ p * u \in Int /\ q * u \in Int
      /\ (p + 1) * u = p * u + u /\ (q + 1) * u = q * u + u
  OBVIOUS
<1>2. (p + 1 <= q => (p + 1) * u <= q * u) /\ (q + 1 <= p => (q + 1) * u <= p * u)
  BY Monotone
<1>3. ~ (p + 1 <= q) /\ ~ (q + 1 <= p)
  BY <1>1, <1>2
<1> QED BY <1>3

LEMMA Remainder ==
  ASSUME NEW u \in Nat \ {0}, NEW q \in Int, NEW r \in 0 .. u - 1
  PROVE  (q * u + r) % u = r
<1> DEFINE x == q * u + r
<1>1. x \in Int
  OBVIOUS
<1> HIDE DEF x
<1>2. x = (x \div u) * u + (x % u) /\ x % u \in 0 .. u - 1 /\ x \div u \in Int
  BY <1>1, Division
<1>3. (x \div u) * u + (x % u) = q * u + r
  BY <1>2 DEF x
<1>4. x % u = r
  BY <1>2, <1>3, DivisionUnique
<1> QED BY <1>4 DEF x

Sectors == 0 .. FLASH_SECTOR_TOTAL - 1
-----------------------------------------------------------------------------
(* Sectors.                                                                *)

\* Sector numbers are numbers that UINT32 does not wrap, and sectors do not overlap.
LEMMA SectorFacts ==
  /\ \A b \in {0, 1}, k \in 0 .. FLASH_SECTOR_TOTAL : SectorStart(b, k) \in Nat
  /\ IAP_APP_ADDRESS = SectorStart(0, RESERVED_SECTORS)
  /\ FLASH_SECTOR_TOTAL < UINT32
  /\ IAP_APP_ADDRESS + BankOneRoom = SectorStart(1, 0)
  /\ SectorStart(1, 0) = SectorStart(0, FLASH_SECTOR_TOTAL)
  /\ SectorStart(1, 0) < UINT32
<1>1. ASSUME NEW b \in {0, 1}, NEW k \in 0 .. FLASH_SECTOR_TOTAL
      PROVE  SectorStart(b, k) \in Nat
  <2>1. b * FLASH_SECTOR_TOTAL + k \in Nat
    BY LayoutAssumption
  <2>2. (b * FLASH_SECTOR_TOTAL + k) * SECTOR_SIZE \in Nat
    BY <2>1, LayoutAssumption
  <2> QED BY <2>2, LayoutAssumption DEF SectorStart
<1>2. IAP_APP_ADDRESS = SectorStart(0, RESERVED_SECTORS)
  BY LayoutAssumption DEF IAP_APP_ADDRESS, SectorStart
<1>3. SectorStart(1, 0) = SectorStart(0, FLASH_SECTOR_TOTAL)
  BY LayoutAssumption DEF SectorStart
<1>4. IAP_APP_ADDRESS + BankOneRoom = SectorStart(1, 0)
  <2>1. RESERVED_SECTORS * SECTOR_SIZE + (FLASH_SECTOR_TOTAL - RESERVED_SECTORS) * SECTOR_SIZE
          = FLASH_SECTOR_TOTAL * SECTOR_SIZE
    BY LayoutAssumption
  <2>2. RESERVED_SECTORS * SECTOR_SIZE \in Int /\ FLASH_SECTOR_TOTAL * SECTOR_SIZE \in Int
        /\ (FLASH_SECTOR_TOTAL - RESERVED_SECTORS) * SECTOR_SIZE \in Int
    BY LayoutAssumption
  <2>3. SectorStart(1, 0) = FLASH_BASE + FLASH_SECTOR_TOTAL * SECTOR_SIZE
    BY LayoutAssumption DEF SectorStart
  <2> QED BY <2>1, <2>2, <2>3, LayoutAssumption DEF IAP_APP_ADDRESS, BankOneRoom
<1>5. FLASH_SECTOR_TOTAL < UINT32 /\ SectorStart(1, 0) < UINT32
  <2>1. /\ FLASH_SECTOR_TOTAL * SECTOR_SIZE \in Nat
        /\ FLASH_SECTOR_TOTAL <= FLASH_SECTOR_TOTAL * SECTOR_SIZE
        /\ 2 * FLASH_SECTOR_TOTAL * SECTOR_SIZE = 2 * (FLASH_SECTOR_TOTAL * SECTOR_SIZE)
    BY LayoutAssumption
  <2>2. SectorStart(1, 0) = FLASH_BASE + FLASH_SECTOR_TOTAL * SECTOR_SIZE
    BY LayoutAssumption DEF SectorStart
  <2> QED BY <2>1, <2>2, LayoutAssumption
<1> QED BY <1>1, <1>2, <1>3, <1>4, <1>5

\* GetSector always returns the number of a sector.
LEMMA GetSectorRange ==
  ASSUME NEW a \in Nat
  PROVE  GetSector(a) \in Sectors
  BY LayoutAssumption DEF GetSector, Sectors

\* An address lies in one sector only, whose number GetSector returns.
LEMMA GetSectorOf ==
  ASSUME NEW a \in Nat, NEW b \in {0, 1}, NEW k \in Sectors, InSector(a, b, k)
  PROVE  GetSector(a) = k
<1>1. ASSUME NEW c \in {0, 1}, NEW j \in Sectors, InSector(a, c, j)
      PROVE  j = k
  <2> DEFINE x == b * FLASH_SECTOR_TOTAL + k
             y == c * FLASH_SECTOR_TOTAL + j
  <2>1. x \in Int /\ y \in Int
    BY LayoutAssumption DEF Sectors
  <2>2. /\ x * SECTOR_SIZE <= a - FLASH_BASE /\ a - FLASH_BASE < (x + 1) * SECTOR_SIZE
        /\ y * SECTOR_SIZE <= a - FLASH_BASE /\ a - FLASH_BASE < (y + 1) * SECTOR_SIZE
    <3>1. SectorStart(b, k + 1) = FLASH_BASE + (x + 1) * SECTOR_SIZE
      BY LayoutAssumption DEF SectorStart, Sectors
    <3>2. SectorStart(c, j + 1) = FLASH_BASE + (y + 1) * SECTOR_SIZE
      BY LayoutAssumption DEF SectorStart, Sectors
    <3>3. /\ x * SECTOR_SIZE \in Int /\ (x + 1) * SECTOR_SIZE \in Int
          /\ y * SECTOR_SIZE \in Int /\ (y + 1) * SECTOR_SIZE \in Int
      BY <2>1, Monotone, LayoutAssumption
    <3> QED BY <1>1, <3>1, <3>2, <3>3, LayoutAssumption DEF InSector, SectorStart
  <2> HIDE DEF x, y
  <2>3. ~ (x + 1 <= y) /\ ~ (y + 1 <= x)
    BY <2>1, <2>2, Monotone, LayoutAssumption
  <2>4. x = y
    BY <2>1, <2>3
  <2> QED BY <2>4, LayoutAssumption DEF x, y, Sectors
<1>2. \E j \in 0 .. FLASH_SECTOR_TOTAL - 1 : \E c \in {0, 1} : InSector(a, c, j)
  BY DEF Sectors
<1>3. GetSector(a) \in Sectors /\ \E c \in {0, 1} : InSector(a, c, GetSector(a))
  BY <1>2 DEF GetSector, Sectors
<1> QED BY <1>1, <1>3

\* The application area begins with sector RESERVED_SECTORS.
LEMMA FirstSector == GetSector(IAP_APP_ADDRESS) = RESERVED_SECTORS
<1>1. /\ IAP_APP_ADDRESS \in Nat /\ RESERVED_SECTORS \in Sectors
      /\ RESERVED_SECTORS * SECTOR_SIZE \in Nat
  BY SectorFacts, LayoutAssumption DEF Sectors
<1>2. (RESERVED_SECTORS + 1) * SECTOR_SIZE = RESERVED_SECTORS * SECTOR_SIZE + SECTOR_SIZE
  BY LayoutAssumption
<1>3. InSector(IAP_APP_ADDRESS, 0, RESERVED_SECTORS)
  BY <1>1, <1>2, LayoutAssumption DEF InSector, SectorStart, IAP_APP_ADDRESS
<1> QED BY <1>1, <1>3, GetSectorOf
-----------------------------------------------------------------------------
(* What is erased.                                                         *)

\* No more sectors are asked for than bank 1 has from the application's on.
LEMMA NbSectorsRange ==
  ASSUME NEW len \in Nat
  PROVE  NbSectors(len) \in 0 .. FLASH_SECTOR_TOTAL - RESERVED_SECTORS
<1>1. IAP_APP_ADDRESS + len \in Nat
  BY SectorFacts, LayoutAssumption
<1>2. UINT32 \in Nat \ {0} /\ (IAP_APP_ADDRESS + len) % UINT32 \in Nat
  <2>1. UINT32 \in Nat \ {0}
    BY SectorFacts, LayoutAssumption
  <2> QED BY <1>1, <2>1, ModRange
<1>3. GetSector((IAP_APP_ADDRESS + len) % UINT32) - RESERVED_SECTORS + 1 \in Int
  BY <1>2, GetSectorRange, LayoutAssumption DEF Sectors
<1>4. (GetSector((IAP_APP_ADDRESS + len) % UINT32) - RESERVED_SECTORS + 1) % UINT32 \in Nat
  BY <1>2, <1>3, ModRange
<1> QED BY <1>4, FirstSector, LayoutAssumption DEF NbSectors

\* Whatever size is announced, the sectors of the bootloader are not erased, nor is
\* anything behind the end of bank 1.
THEOREM BootloaderKept ==
  \A len \in Nat :
    ErasedSectors(NbSectors(len)) \subseteq RESERVED_SECTORS .. FLASH_SECTOR_TOTAL - 1
BY NbSectorsRange, FirstSector, LayoutAssumption DEF ErasedSectors

\* An image that fits into the application's part of bank 1 finds all of its place
\* erased.
THEOREM EraseCovers ==
  \A len \in 1 .. BankOneRoom : \A o \in 0 .. len - 1 : ErasedOffset(o, NbSectors(len))
<1> SUFFICES ASSUME NEW len \in 1 .. BankOneRoom, NEW o \in 0 .. len - 1
             PROVE  ErasedOffset(o, NbSectors(len))
  OBVIOUS
<1> DEFINE a == IAP_APP_ADDRESS + len
           most == FLASH_SECTOR_TOTAL - RESERVED_SECTORS
<1>1. /\ BankOneRoom \in Nat /\ IAP_APP_ADDRESS \in Nat /\ a \in Nat
      /\ a <= SectorStart(1, 0)
      /\ RESERVED_SECTORS * SECTOR_SIZE \in Nat
      /\ BankOneRoom = most * SECTOR_SIZE
      /\ FLASH_BASE \in Nat /\ SECTOR_SIZE \in Nat \ {0}
      /\ IAP_APP_ADDRESS = FLASH_BASE + RESERVED_SECTORS * SECTOR_SIZE
  BY SectorFacts, LayoutAssumption DEF BankOneRoom, IAP_APP_ADDRESS
<1>2. a % UINT32 = a
  BY <1>1, SectorFacts, ModIdentity, LayoutAssumption
<1>3. SUFFICES len <= NbSectors(len) * SECTOR_SIZE /\ NbSectors(len) \in Int
  BY <1>1, LayoutAssumption DEF ErasedOffset
<1> DEFINE endS == GetSector(a)
<1>4. endS \in Sectors
  BY <1>1, GetSectorRange
<1>5. NbSectors(len) = IF (endS - RESERVED_SECTORS + 1) % UINT32 > most THEN most
                       ELSE (endS - RESERVED_SECTORS + 1) % UINT32
  BY <1>2, FirstSector DEF NbSectors
<1> HIDE DEF endS
<1>6. CASE endS - RESERVED_SECTORS + 1 < 0
  <2>0. endS - RESERVED_SECTORS + 1 \in Int /\ - UINT32 < endS - RESERVED_SECTORS + 1
        /\ UINT32 \in Nat \ {0}
    BY <1>4, SectorFacts, LayoutAssumption DEF Sectors
  <2>1. (endS - RESERVED_SECTORS + 1) % UINT32 = endS - RESERVED_SECTORS + 1 + UINT32
    BY <2>0, <1>6, ModNegative
  <2>2. (endS - RESERVED_SECTORS + 1) % UINT32 > most
    BY <2>1, <1>4, SectorFacts, LayoutAssumption DEF Sectors
  <2>3. NbSectors(len) = most
    BY <1>5, <2>2
  <2> QED BY <1>1, <2>3, LayoutAssumption
<1>7. CASE endS - RESERVED_SECTORS + 1 >= 0
  <2>1. endS - RESERVED_SECTORS + 1 \in 0 .. most
    BY <1>7, <1>4, LayoutAssumption DEF Sectors
  <2>2. NbSectors(len) = endS - RESERVED_SECTORS + 1
    BY <1>5, <2>1, ModIdentity, SectorFacts, LayoutAssumption
  <2>3. CASE \E k \in Sectors : \E b \in {0, 1} : InSector(a, b, k)
    <3>1. PICK b \in {0, 1} : InSector(a, b, endS)
      BY <2>3, GetSectorOf, <1>1 DEF endS
    <3>2. CASE b = 0
      <4>1. (endS + 1) * SECTOR_SIZE \in Int /\ a < FLASH_BASE + (endS + 1) * SECTOR_SIZE
        BY <3>1, <3>2, <1>4, <1>1, Monotone, LayoutAssumption DEF InSector, SectorStart, Sectors
      <4>2. (endS + 1) * SECTOR_SIZE =
              RESERVED_SECTORS * SECTOR_SIZE + (endS - RESERVED_SECTORS + 1) * SECTOR_SIZE
        BY <1>4, LayoutAssumption DEF Sectors
      <4>3. (endS - RESERVED_SECTORS + 1) * SECTOR_SIZE \in Int
        BY <2>1, Monotone, LayoutAssumption
      <4> QED BY <4>1, <4>2, <4>3, <1>1, <2>1, <2>2
    <3>3. CASE b = 1
      <4>0. endS \in 0 .. FLASH_SECTOR_TOTAL /\ 0 \in 0 .. FLASH_SECTOR_TOTAL
        BY <1>4, LayoutAssumption DEF Sectors
      <4>1. SectorStart(1, endS) <= SectorStart(1, 0)
        <5>1. SectorStart(1, endS) \in Nat /\ SectorStart(1, 0) \in Nat
          BY <4>0, SectorFacts
        <5>2. SectorStart(1, endS) <= a
          BY <3>1, <3>3 DEF InSector
        <5> HIDE DEF a
        <5> QED BY <5>1, <5>2, <1>1
      <4>2. (FLASH_SECTOR_TOTAL + endS) * SECTOR_SIZE <= FLASH_SECTOR_TOTAL * SECTOR_SIZE
        BY <4>1, <1>4, Monotone, LayoutAssumption DEF SectorStart, Sectors
      <4>3. endS <= 0
        BY <4>2, <1>4, Monotone, LayoutAssumption DEF Sectors
      <4> QED BY <4>3, <1>4, <1>7, LayoutAssumption DEF Sectors
    <3> QED BY <3>2, <3>3
  <2>4. CASE ~ \E k \in Sectors : \E b \in {0, 1} : InSector(a, b, k)
    <3>1. endS = FLASH_SECTOR_TOTAL - 1
      BY <2>4 DEF endS, GetSector, Sectors
    <3> QED BY <3>1, <2>2, <1>1, LayoutAssumption
  <2> QED BY <2>3, <2>4
<1> QED BY <1>4, <1>6, <1>7, LayoutAssumption DEF Sectors
=============================================================================
