---------------------- MODULE UploadRefinement_proofs ----------------------
(***************************************************************************)
(* The bootloader with its host implements FirmwareUpdate, whatever fails  *)
(* (a silently spoilt cell apart): every step of UploadSession is a step   *)
(* of the abstract update, or leaves it alone.                             *)
(***************************************************************************)
EXTENDS UploadSession_proofs
-----------------------------------------------------------------------------
(* The refinement mapping.                                                 *)

Phase == IF pc = "commit" THEN "committed" ELSE IF Open THEN "open" ELSE "closed"
Target == IF Open THEN expected_checksum ELSE NoImage

\* The slot that is read off a flash f.
PrefixIn(f, m) ==
  CHOOSE n \in 0 .. Size[m] :
    /\ \A j \in 0 .. n - 1 : f[j] = Byte(m, j)
    /\ n < Size[m] => f[n] # Byte(m, n)

SlotIn(f) ==
  IF f[0].kind = "byte" THEN [img |-> f[0].img, n |-> PrefixIn(f, f[0].img)]
                        ELSE [img |-> NoImage, n |-> 0]

\* f starts with n cells of image m and goes on with something else.
Leads(f, m, n) ==
  /\ n \in 0 .. Size[m]
  /\ \A j \in 0 .. n - 1 : f[j] = Byte(m, j)
  /\ n < Size[m] => f[n].kind # "byte"

\* There is one such n only, and the slot holds it.
LEMMA SlotOfLead ==
  ASSUME NEW f, NEW m \in Images, NEW n, Leads(f, m, n)
  PROVE  SlotIn(f) = IF n = 0 THEN [img |-> NoImage, n |-> 0] ELSE [img |-> m, n |-> n]
<1>0. Size[m] \in Nat \ {0} /\ n \in 0 .. Size[m]
  BY ConstantTypes DEF Leads
<1>1. CASE n = 0
  BY <1>0, <1>1 DEF Leads, SlotIn
<1>2. CASE n # 0
  <2>1. f[0] = Byte(m, 0)
    BY <1>0, <1>2 DEF Leads
  <2>2. f[0].kind = "byte" /\ f[0].img = m
    BY <2>1 DEF Byte
  <2>3. n < Size[m] => f[n] # Byte(m, n)
    BY DEF Leads, Byte
  <2>4. ASSUME NEW k \in 0 .. Size[m],
               \A j \in 0 .. k - 1 : f[j] = Byte(m, j),
               k < Size[m] => f[k] # Byte(m, k)
        PROVE  k = n
    <3>1. ~ (k < n)
      BY <1>0, <2>4 DEF Leads
    <3>2. ~ (n < k)
      BY <1>0, <2>3, <2>4
    <3> QED BY <1>0, <3>1, <3>2
  <2>5. PrefixIn(f, m) = n
    BY <1>0, <2>3, <2>4 DEF PrefixIn, Leads
  <2> QED BY <1>2, <2>2, <2>5 DEF SlotIn
<1> QED BY <1>1, <1>2

\* Without silent faults a write that succeeds leaves the flash as it should be.
LEMMA Exact ==
  ASSUME ~ SilentFaults
  PROVE  Written = {AfterWrite(len_in_RX_buffer)}
BY DEF Written

\* The stored part of the image leads the flash while an upload is open.
LEMMA StoredLeads ==
  ASSUME ~ SilentFaults, flash \in [Offsets -> Cells], expected_checksum \in Images,
         NEW k \in 0 .. Size[expected_checksum], StoredUpTo(k)
  PROVE  Leads(flash, expected_checksum, k)
<1>1. 0 .. Size[expected_checksum] - 1 \subseteq Offsets
  BY ConstantTypes, RoomTypes DEF Offsets
<1>2. \A j \in 0 .. k - 1 : flash[j] = Byte(expected_checksum, j)
  BY <1>1, ConstantTypes DEF StoredUpTo
<1>3. k < Size[expected_checksum] => flash[k] = Erased
  BY <1>1, ConstantTypes DEF StoredUpTo
<1> QED BY <1>2, <1>3 DEF Leads, Erased, Plain
-----------------------------------------------------------------------------
(* Steps of the abstract update, in terms of the mapping.                  *)

\* The mapping is the one of UpdateSpec.
LEMMA Mapped ==
  /\ Update!vars = <<Phase, Target, SlotIn(flash), acked>>
  /\ Update!Stored = IF SlotIn(flash).img = Target THEN SlotIn(flash).n ELSE 0
BY DEF Update!vars, Update!Stored, Phase, Target, SlotIn, PrefixIn, Prefix

LEMMA Stutters ==
  ASSUME UNCHANGED <<Phase, Target, flash, acked>>
  PROVE  UNCHANGED Update!vars
BY DEF Update!vars, Phase, Target, Prefix

LEMMA Closes ==
  ASSUME Phase' = "closed", Target' = NoImage, Phase = "closed" => Target = NoImage,
         UNCHANGED <<flash, acked>>
  PROVE  [Update!Next]_(Update!vars)
<1>1. CASE Phase = "closed"
  BY <1>1, Stutters
<1>2. CASE Phase # "closed"
  BY <1>2 DEF Update!Next, Update!Close, Phase, Target, Prefix
<1> QED BY <1>1, <1>2

LEMMA Announces ==
  ASSUME Phase = "closed", Phase' = "open", Target' \in Images,
         SlotIn(flash)' = [img |-> NoImage, n |-> 0], UNCHANGED acked
  PROVE  Update!Next
<1>1. Update!Announce(Target')
  BY DEF Update!Announce, Update!Empty, Phase, Target, SlotIn, PrefixIn, Prefix
<1> QED BY <1>1 DEF Update!Next

LEMMA Scratches ==
  ASSUME Phase = "closed", Phase' = "closed", Target' = Target,
         SlotIn(flash)' = [img |-> NoImage, n |-> 0], UNCHANGED acked
  PROVE  Update!Next
<1>1. Update!Scratch
  BY DEF Update!Scratch, Update!Empty, Phase, Target, SlotIn, PrefixIn, Prefix
<1> QED BY <1>1 DEF Update!Next

LEMMA Commits ==
  ASSUME Phase = "open", Phase' = "committed", Target' = Target,
         SlotIn(flash) = [img |-> Target, n |-> Size[Target]], UNCHANGED <<flash, acked>>
  PROVE  Update!Next
<1>1. Update!Commit
  BY DEF Update!Commit, Phase, Target, SlotIn, PrefixIn, Prefix
<1> QED BY <1>1 DEF Update!Next

LEMMA Acknowledges ==
  ASSUME Phase # "closed", Phase' = Phase, Target' = Target,
         acked' = Update!Stored, UNCHANGED flash
  PROVE  Update!Next
<1>1. Update!Acknowledge
  BY DEF Update!Acknowledge, Phase, Target, SlotIn, PrefixIn, Prefix
<1> QED BY <1>1 DEF Update!Next

LEMMA Forgets ==
  ASSUME Phase' = Phase, Target' = Target, acked' = 0, UNCHANGED flash
  PROVE  Update!Next
<1>1. Update!Forget
  BY DEF Update!Forget, Phase, Target, SlotIn, PrefixIn, Prefix
<1> QED BY <1>1 DEF Update!Next

\* How many cells of an open upload the slot holds.
LEMMA StoredIs ==
  ASSUME ~ SilentFaults, TypeOK, Target = expected_checksum, expected_checksum \in Images,
         NEW k \in 0 .. Size[expected_checksum], StoredUpTo(k)
  PROVE  /\ Update!Stored = k
         /\ SlotIn(flash) = IF k = 0 THEN [img |-> NoImage, n |-> 0]
                            ELSE [img |-> expected_checksum, n |-> k]
<1>1. SlotIn(flash) = IF k = 0 THEN [img |-> NoImage, n |-> 0]
                      ELSE [img |-> expected_checksum, n |-> k]
  BY StoredLeads, SlotOfLead DEF TypeOK, ServerTypeOK
<1>2. NoImage # Target
  BY ConstantTypes
<1> QED BY <1>1, <1>2, Mapped
-----------------------------------------------------------------------------
(* The steps.                                                              *)

\* The main loop and the flash: erase announces,
LEMMA EraseImplements ==
  ASSUME IInv, erase, UNCHANGED hostVars
  PROVE  [Update!Next]_(Update!vars)
<1> USE DEF IInv, TypeOK, ServerTypeOK
<1>1. /\ Idle /\ rb = 0 /\ pc = "erase" /\ expected_checksum = img /\ expected_size = Size[img]
      /\ img \in Images
  BY DEF erase, At, ProtocolInv, IdleInv, ReceiveInv, Idle, Receiving, HostAnnounced, HostSending,
     BlockPending, BlockWritten, BlockAnswered, HostGone, HostBack
<1>2. /\ Phase = "closed" /\ Target = NoImage /\ UNCHANGED <<acked, expected_checksum>>
      /\ pc' = "reply_idle"
  BY <1>1 DEF Phase, Target, Open, Idle, erase, Goto, hostVars, expVars
<1>3. 0 \in Offsets /\ expected_size \in 1 .. BankOneRoom
  BY <1>1, ConstantTypes, RoomTypes DEF Offsets
<1>4. ASSUME flash'[0] \in {Erased, Garbage}
      PROVE  SlotIn(flash)' = [img |-> NoImage, n |-> 0]
  BY <1>4 DEF SlotIn, Erased, Garbage, Plain
<1>5. CASE current_status' = "FLASH_RECEIVE" /\ flash' = AfterErase(NbSectors(expected_size))
  <2>1. flash'[0] = Erased
    BY <1>3, <1>5, EraseCovers DEF AfterErase
  <2>2. Phase' = "open" /\ Target' = img
    BY <1>1, <1>2, <1>5 DEF Phase, Target, Open
  <2> QED BY <1>1, <1>2, <1>4, <2>1, <2>2, Announces
<1>6. CASE /\ current_status' = current_status
           /\ \/ \E n \in 0 .. NbSectors(expected_size) : flash' = AfterErase(n)
              \/ \E n \in 0 .. NbSectors(expected_size) - 1 : flash' = TornErase(n)
  <2>1. Phase' = "closed" /\ Target' = NoImage
    BY <1>1, <1>2, <1>6 DEF Phase, Target, Open, Idle
  <2>a. expected_size \in Nat /\ NbSectors(expected_size) \in Nat
    BY <1>3, NbSectorsRange, RoomTypes, LayoutAssumption
  <2>b. 0 .. NbSectors(expected_size) - 1 \subseteq 0 .. NbSectors(expected_size)
    BY ONLY <2>a
  <2>2. PICK n \in 0 .. NbSectors(expected_size) : flash' = AfterErase(n) \/ flash' = TornErase(n)
    BY ONLY <1>6, <2>b
  <2>3. n \in Nat /\ SECTOR_SIZE \in Nat \ {0} /\ 0 * SECTOR_SIZE = 0 /\ (0 + 1) * SECTOR_SIZE > 0
    BY <1>3, NbSectorsRange, LayoutAssumption
  <2>4. CASE flash' = TornErase(0)
    <3>1. flash'[0] = Garbage
      BY <1>3, <2>3, <2>4 DEF TornErase, ErasedOffset
    <3> QED BY <1>2, <1>4, <2>1, <3>1, Scratches
  <2>5. CASE flash' = AfterErase(0)
    <3>1. \A o \in Offsets : ~ ErasedOffset(o, 0)
      BY <2>3, RoomTypes DEF Offsets, ErasedOffset
    <3>2. flash' = flash
      BY <2>5, <3>1 DEF AfterErase
    <3> QED BY <1>2, <2>1, <3>2, Stutters
  <2>6. CASE n # 0
    <3>1. 0 < n * SECTOR_SIZE
      BY <2>3, <2>6
    <3>2. flash'[0] = Erased
      BY <1>3, <2>2, <3>1 DEF AfterErase, TornErase, ErasedOffset
    <3> QED BY <1>2, <1>4, <2>1, <3>2, Scratches
  <2> QED BY <2>2, <2>4, <2>5, <2>6
<1> QED BY <1>5, <1>6 DEF erase

\* A step that stores the image up to n cells, as the next block or a part of it.
LEMMA Stores ==
  ASSUME Phase = "open", Phase' = "open", Target' = Target, UNCHANGED acked,
         NEW n \in Nat \ {0}, SlotIn(flash)' = [img |-> Target, n |-> n],
         Update!Stored < Size[Target],
         n = Update!Least(Update!Stored + IAP_RX_BUFFER_SIZE, Size[Target])
  PROVE  Update!Next
<1>1. Update!Store
  BY DEF Update!Store, Update!Extended, Phase, Target, SlotIn, PrefixIn, Prefix
<1> QED BY <1>1 DEF Update!Next

LEMMA Tears ==
  ASSUME Phase = "open", Phase' = "closed", Target' = NoImage, UNCHANGED acked,
         \/ SlotIn(flash)' = SlotIn(flash)
         \/ \E n \in Update!Stored + 1
                       .. Update!Least(Update!Stored + IAP_RX_BUFFER_SIZE, Size[Target]) :
              SlotIn(flash)' = [img |-> Target, n |-> n]
  PROVE  Update!Next
<1>1. Update!Tear
  BY DEF Update!Tear, Update!Extended, Phase, Target, SlotIn, PrefixIn, Prefix
<1> QED BY <1>1 DEF Update!Next

\* write stores the next block, or tears it.
LEMMA WriteImplements ==
  ASSUME ~ SilentFaults, IInv, write, UNCHANGED hostVars
  PROVE  [Update!Next]_(Update!vars)
<1> USE DEF IInv, TypeOK, ServerTypeOK
<1> DEFINE m == expected_checksum
           k == received_bytes
           len == len_in_RX_buffer
<1>1. /\ Receiving /\ BlockPending /\ pc = "write" /\ m = img /\ m \in Images
      /\ k <= Size[m] /\ StoredUpTo(k)
  BY DEF write, At, ProtocolInv, IdleInv, ReceiveInv, Idle, Receiving, HostAnnounced, HostSending,
     BlockPending, BlockWritten, BlockAnswered, HostGone, HostBack, Stored
<1>2. /\ len \in Nat \ {0} /\ k \in Nat /\ Size[m] \in Nat /\ k + len <= Size[m]
      /\ k + len = Min2(k + IAP_RX_BUFFER_SIZE, Size[m]) /\ len <= IAP_RX_BUFFER_SIZE
      /\ Size[m] <= AppRoom /\ AppRoom \in Nat
  BY <1>1, ConstantTypes, RoomTypes DEF BlockPending, BlockEnd, Min2, BufferInv
<1>3. \A j \in RXIndex : j < len => RXBuffer[j] = Byte(m, k + j)
  BY <1>1 DEF BlockPending, Buffered
<1>4. /\ Phase = "open" /\ Target = m /\ UNCHANGED <<acked, expected_checksum>>
      /\ current_status' = "FLASH_RECEIVE"
  BY <1>1 DEF Phase, Target, Open, Receiving, write, hostVars, expVars, recvVars
<1>5. /\ Update!Stored = k
      /\ SlotIn(flash) = IF k = 0 THEN [img |-> NoImage, n |-> 0] ELSE [img |-> m, n |-> k]
  BY <1>1, <1>2, <1>4, StoredIs
<1>6. Update!Least(k + IAP_RX_BUFFER_SIZE, Size[m]) = k + len
  BY <1>2, ConstantTypes DEF Min2, Update!Least
\* What n cells more lead to.
<1>7. ASSUME NEW n \in 0 .. len, NEW f,
             f = AfterWrite(n)
             \/ (n < len /\ f = [AfterWrite(n) EXCEPT ![k + n] = Garbage])
      PROVE  SlotIn(f) = IF k + n = 0 THEN [img |-> NoImage, n |-> 0]
                         ELSE [img |-> m, n |-> k + n]
  <2>1. ASSUME NEW o \in Offsets
        PROVE  /\ o < k + n => AfterWrite(n)[o] = Byte(m, o)
               /\ k + n <= o /\ o < Size[m] => AfterWrite(n)[o] = Erased
    <3>1. o \in Nat
      BY <1>2 DEF Offsets
    <3>2. /\ o < k => flash[o] = Byte(m, o)
          /\ k <= o /\ o < Size[m] => flash[o] = Erased
      BY <1>1 DEF StoredUpTo
    <3>3. ~ (k <= o /\ o < k + n) => AfterWrite(n)[o] = flash[o]
      BY DEF AfterWrite
    <3>4. ASSUME k <= o, o < k + n
          PROVE  AfterWrite(n)[o] = Byte(m, o)
      <4>1. o - k \in RXIndex /\ o - k < len /\ k + (o - k) = o
        BY <1>2, <3>1, <3>4, ConstantTypes DEF RXIndex
      <4>2. RXBuffer[o - k] = Byte(m, o)
        BY <1>3, <4>1
      <4>3. flash[o] = Erased
        BY <1>2, <3>1, <3>2, <3>4
      <4>4. AfterWrite(n)[o] = Programmed(flash[o], RXBuffer[o - k])
        BY <3>4 DEF AfterWrite
      <4> QED BY <4>2, <4>3, <4>4 DEF Programmed, Byte
    <3> QED BY <1>2, <3>1, <3>2, <3>3, <3>4
  <2>2. 0 .. Size[m] - 1 \subseteq Offsets
    BY <1>2 DEF Offsets
  <2>3. k + n \in 0 .. Size[m]
    BY <1>2
  <2>4. AfterWrite(n) = [o \in Offsets |-> AfterWrite(n)[o]]
    BY DEF AfterWrite
  <2>5. \A j \in 0 .. (k + n) - 1 : f[j] = Byte(m, j)
    <3> SUFFICES ASSUME NEW j \in 0 .. (k + n) - 1 PROVE f[j] = Byte(m, j)
      OBVIOUS
    <3>1. j \in Offsets /\ j # k + n /\ j < k + n
      BY <1>2, <2>2, <2>3
    <3>2. f[j] = AfterWrite(n)[j]
      BY <1>7, <2>4, <3>1
    <3> QED BY <2>1, <3>1, <3>2
  <2>6. k + n < Size[m] => f[k + n].kind # "byte"
    <3>1. ASSUME k + n < Size[m]
          PROVE  k + n \in Offsets /\ AfterWrite(n)[k + n] = Erased
      <4>1. k + n \in Offsets
        BY <1>2, <2>2, <2>3, <3>1
      <4> QED BY <1>2, <2>1, <2>3, <3>1, <4>1
    <3>2. k + n < Size[m] => f[k + n] \in {Erased, Garbage}
      BY <1>7, <2>4, <3>1
    <3> QED BY <3>2 DEF Erased, Garbage, Plain
  <2>7. Leads(f, m, k + n)
    BY <2>3, <2>5, <2>6 DEF Leads
  <2> QED BY <1>1, <2>7, SlotOfLead
<1>8. CASE flash' \in Written /\ Goto("count")
  <2>1. flash' = AfterWrite(len)
    BY <1>8, Exact
  <2>2. SlotIn(flash') = [img |-> m, n |-> k + len]
    BY <1>2, <1>7, <2>1
  <2>3. SlotIn(flash)' = [img |-> m, n |-> k + len]
    BY <2>2 DEF SlotIn, PrefixIn
  <2>4. Phase' = "open" /\ Target' = Target
    BY <1>4, <1>8 DEF Goto, Phase, Target, Open
  <2>5. k + len \in Nat \ {0} /\ k < Size[m]
    BY <1>2
  <2> HIDE DEF m, k, len
  <2>6. Update!Next
    BY <1>4, <1>5, <1>6, <2>3, <2>4, <2>5, Stores
  <2> QED BY <2>6
<1>9. CASE /\ \E n \in 0 .. len_in_RX_buffer - 1 : flash' \in TornWrite(n)
           /\ pc' = "reply_fail"
  <2>1. PICK n \in 0 .. len - 1 : flash' \in TornWrite(n)
    BY <1>9
  <2>2. n \in 0 .. len /\ n < len
    BY <1>2, <2>1
  <2>3. SlotIn(flash') = IF k + n = 0 THEN [img |-> NoImage, n |-> 0] ELSE [img |-> m, n |-> k + n]
    BY <1>7, <2>1, <2>2 DEF TornWrite
  <2>4. SlotIn(flash)' = IF k + n = 0 THEN [img |-> NoImage, n |-> 0] ELSE [img |-> m, n |-> k + n]
    BY <2>3 DEF SlotIn, PrefixIn
  <2>5. Phase' = "closed" /\ Target' = NoImage
    BY <1>9 DEF Phase, Target, Open
  <2>6. n = 0 \/ (k + n \in k + 1 .. k + len /\ k + n # 0)
    BY <1>2, <2>2
  <2>7. n = 0 => SlotIn(flash)' = SlotIn(flash)
    BY <1>2, <1>5, <2>4
  <2> HIDE DEF m, k, len
  <2>8. Update!Next
    BY <1>4, <1>5, <1>6, <2>4, <2>5, <2>6, <2>7, Tears
  <2> QED BY <2>8
<1> QED BY <1>8, <1>9 DEF write

\* verify finds the whole image in the slot when it commits.
LEMMA VerifyImplements ==
  ASSUME ~ SilentFaults, IInv, verify, UNCHANGED hostVars
  PROVE  [Update!Next]_(Update!vars)
<1> USE DEF IInv, TypeOK, ServerTypeOK
<1>1. /\ pc = "verify" /\ rb = 0 /\ pc' \in {"lwip", "commit", "reply_bad"}
      /\ UNCHANGED <<flash, acked, current_status, expected_checksum>>
  BY DEF verify, At, Goto, hostVars, recvVars, expVars, keptVars
<1>2. CASE pc' # "commit"
  BY <1>1, <1>2, Stutters DEF Phase, Target, Open
<1>3. CASE pc' = "commit"
  <2>1. received_bytes >= expected_size
    BY <1>3 DEF verify, Goto
  <2>2. /\ Receiving /\ expected_checksum \in Images /\ expected_size = Size[expected_checksum]
        /\ received_bytes = expected_size /\ StoredUpTo(Size[expected_checksum])
    BY <1>1, <2>1 DEF ProtocolInv, IdleInv, ReceiveInv, Idle, Receiving, Stored
  <2>3. Phase = "open" /\ Target = expected_checksum /\ Phase' = "committed" /\ Target' = Target
    BY <1>1, <1>3, <2>2 DEF Phase, Target, Open, Receiving
  <2>4. Size[expected_checksum] \in Nat \ {0}
        /\ Size[expected_checksum] \in 0 .. Size[expected_checksum]
    BY <2>2, ConstantTypes
  <2>5. SlotIn(flash) = [img |-> Target, n |-> Size[Target]]
    BY <2>2, <2>3, <2>4, StoredIs
  <2> QED BY <1>1, <2>3, <2>5, Commits
<1> QED BY <1>2, <1>3

\* reset_buf ends an upload that a lost connection left open.
LEMMA ResetImplements ==
  ASSUME IInv, reset_buf, UNCHANGED hostVars
  PROVE  [Update!Next]_(Update!vars)
<1>1. /\ pc \in {"lwip", "reply_fail"} /\ pc' = pc
      /\ UNCHANGED <<flash, acked, expected_checksum>>
      /\ current_status' \in {current_status, "IDLE"}
  BY DEF reset_buf, IInv, ProtocolInv, ResetInv, hostVars, expVars, keptVars
<1>2. CASE current_status' = current_status
  BY <1>1, <1>2, Stutters DEF Phase, Target, Open
<1>3. CASE current_status' = "IDLE"
  <2>1. Phase' = "closed" /\ Target' = NoImage /\ (Phase = "closed" => Target = NoImage)
    BY <1>1, <1>3 DEF Phase, Target, Open
  <2> QED BY <1>1, <2>1, Closes
<1> QED BY <1>1, <1>2, <1>3

\* Nothing else the main loop does shows.
LEMMA ServerImplements ==
  ASSUME ~ SilentFaults, IInv, Server, UNCHANGED hostVars
  PROVE  [Update!Next]_(Update!vars)
<1>1. CASE erase
  BY <1>1, EraseImplements
<1>2. CASE write
  BY <1>2, WriteImplements
<1>3. CASE verify
  BY <1>3, VerifyImplements
<1>4. CASE reset_buf
  BY <1>4, ResetImplements
<1>5. CASE dispatch
  <2>1. /\ pc = "dispatch" /\ rb = 0 /\ pc' \in {"reply_idle", "reset", "erase", "idle_done"}
        /\ UNCHANGED <<flash, acked, current_status>>
    BY <1>5 DEF dispatch, At, Goto, hostVars, recvVars, keptVars
  <2>2. current_status # "FLASH_RECEIVE"
    BY <2>1 DEF IInv, ProtocolInv, ReceiveInv, Receiving, HostAnnounced, HostSending,
       BlockPending, BlockWritten, BlockAnswered, HostGone, HostBack
  <2> QED BY <2>1, <2>2, Stutters DEF Phase, Target, Open
<1>6. CASE reply_fail
  <2>1. pc = "reply_fail" /\ rb = 0 /\ pc' = "verify" /\ UNCHANGED <<flash, acked, current_status>>
    BY <1>6 DEF reply_fail, At, Goto, hostVars, recvVars, keptVars
  <2>2. current_status # "FLASH_RECEIVE"
    BY <2>1 DEF IInv, ProtocolInv, ReceiveInv, Receiving, HostAnnounced, HostSending,
       BlockPending, BlockWritten, BlockAnswered, HostGone, HostBack
  <2> QED BY <2>1, <2>2, Stutters DEF Phase, Target, Open
<1>7. CASE \/ server_init \/ task_test \/ task_clear \/ reply_idle \/ idle_done \/ count \/ consume
           \/ reply_block \/ reply_bad \/ lwip_done
  <2>1. /\ pc \notin {"commit", "reply_fail"} /\ pc' \notin {"commit", "reply_fail"}
        /\ UNCHANGED <<flash, acked, current_status, expected_checksum>>
    BY <1>7
    DEF server_init, task_test, task_clear, reply_idle, idle_done, count, consume, reply_block,
        reply_bad, lwip_done, At, Goto, hostVars, recvVars, expVars, keptVars
  <2> QED BY <2>1, Stutters DEF Phase, Target, Open
<1> QED BY <1>1, <1>2, <1>3, <1>4, <1>5, <1>6, <1>7 DEF Server, ProcessCommand

\* The host learns of the blocks that are stored, and starts over.
LEMMA HostImplements ==
  ASSUME ~ SilentFaults, IInv, Host
  PROVE  [Update!Next]_(Update!vars)
<1>1. /\ UNCHANGED <<pc, flash, current_status, expected_checksum>>
  BY DEF Host, HostOpen, TCP_accept, HostPing, HostAnnounce, HostSend, Command, Deliver,
     CDC_Receive_FS, TCP_recv, IAP_data_recv, HostOk, HostRefused, HostDrains, Answer, CdcTaken,
     TcpTaken, HostTimeout, HostClosed, TCP_closed, HostAgain, serverVars, mainVars, recvVars,
     expVars, keptVars
<1>2. Phase' = Phase /\ Target' = Target
  BY <1>1 DEF Phase, Target, Open
<1>3. CASE UNCHANGED acked
  BY <1>1, <1>2, <1>3, Stutters
<1>4. CASE acked' = 0
  BY <1>1, <1>2, <1>4, Forgets
<1>5. CASE HostOk /\ host = "wait_block"
  <2>1. acked' = sent /\ Answer("OK")
    BY <1>5 DEF HostOk
  <2>2. ReplyUnderway
    BY <2>1 DEF Answer, CdcTaken, TcpTaken, ReplyUnderway, IInv, TypeOK, ProtocolInv, LinkInv
  <2>3. Receiving /\ BlockAnswered
    <3>1. rb = 0
      BY <1>5, <2>2 DEF IInv, ProtocolInv, ResetInv, Resting, Checked
    <3>2. Receiving
      BY <1>5, <2>2, <3>1 DEF IInv, ProtocolInv, IdleInv, Idle, Receiving, Checked, TypeOK, ServerTypeOK
    <3> QED
      BY <1>5, <2>2, <3>2 DEF IInv, ProtocolInv, ReceiveInv, HostAnnounced, HostSending,
         BlockPending, BlockWritten, HostGone, HostBack
  <2>4. /\ sent = received_bytes /\ pc \in {"verify", "lwip", "task", "commit", "reply_bad"}
        /\ current_status = "FLASH_RECEIVE" /\ expected_checksum \in Images
        /\ received_bytes \in 0 .. Size[expected_checksum] /\ StoredUpTo(received_bytes)
    BY <2>3, ConstantTypes DEF IInv, TypeOK, ServerTypeOK, ProtocolInv, ReceiveInv, BlockAnswered,
       Receiving, Stored
  <2>5. Phase # "closed" /\ Target = expected_checksum
    BY <2>4 DEF Phase, Target, Open
  <2>6. Update!Stored = received_bytes
    BY <2>4, <2>5, StoredIs DEF IInv
  <2> QED BY <1>1, <1>2, <2>1, <2>4, <2>5, <2>6, Acknowledges
<1>6. HostOk /\ host # "wait_block" => UNCHANGED acked
  BY DEF HostOk
<1>7. HostOpen => acked' = 0
  BY DEF HostOpen
<1> QED
  BY <1>3, <1>4, <1>5, <1>6, <1>7
  DEF Host, HostPing, HostAnnounce, HostSend, HostRefused, HostDrains, HostTimeout, HostClosed,
      HostAgain, hostVars

\* The bootloader, its transports, its failures and its restarts on the one side,
\* the upload tool on the other: an image arrives in the flash block by block, each
\* acknowledged only when it is there, and is committed only when it is complete.
THEOREM UploadImplements ==
  ASSUME ~ PromptHost, ~ SilentFaults
  PROVE  Spec => UpdateSpec
<1>1. Init => Update!Init
  <2> SUFFICES ASSUME Init PROVE Update!Init
    OBVIOUS
  <2>1. 0 \in Offsets
    <3>1. PICK m \in Images : Size[m] \in 1 .. BankOneRoom
      BY ConstantTypes DEF Init
    <3> QED BY <3>1, RoomTypes DEF Offsets
  <2>2. flash[0].kind # "byte"
    BY <2>1 DEF Init, ServerInit, Erased, Plain
  <2> QED BY <2>2 DEF Init, ServerInit, Update!Init, Update!Empty, Open
<1>2. IInv /\ [Next]_vars => [Update!Next]_(Update!vars)
  <2> SUFFICES ASSUME IInv, [Next]_vars PROVE [Update!Next]_(Update!vars)
    OBVIOUS
  <2>1. CASE Server /\ UNCHANGED hostVars
    BY <2>1, ServerImplements
  <2>2. CASE Host
    BY <2>2, HostImplements
  <2>3. CASE Restart(SystemReset) \/ Restart(PowerCycle) \/ \E f \in Flags : Restart(AppTrigger(f))
    <3>1. pc' = "startup" /\ current_status' = "IDLE" /\ UNCHANGED <<flash, acked>>
      BY <2>3 DEF Restart, SystemReset, PowerCycle, AppTrigger, Reboot
    <3>2. Phase' = "closed" /\ Target' = NoImage /\ (Phase = "closed" => Target = NoImage)
      BY <3>1 DEF Phase, Target, Open
    <3> QED BY <3>1, <3>2, Closes
  <2>4. CASE UNCHANGED vars
    BY <2>4, Stutters DEF vars, serverVars, mainVars, recvVars, expVars, keptVars, hostVars,
       Phase, Target, Open
  <2> QED BY <2>1, <2>2, <2>3, <2>4 DEF Next
<1> QED BY <1>1, <1>2, Invariance, PTL DEF Spec, UpdateSpec, Update!Spec
=============================================================================
