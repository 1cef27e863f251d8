----------------------------- MODULE EthRx_proofs -----------------------------
(***************************************************************************)
(* Proofs about EthRx, for every ring, pool of buffers and bounds: no      *)
(* buffer leaks or is in two places, and the driver links no descriptor    *)
(* without a buffer until the MAC is first restarted.                      *)
(***************************************************************************)
EXTENDS EthRx, TLAPS

\* A chain that is whole is not empty, only such a chain is delivered, and it
\* is made of buffers.
TypeInv ==
  /\ TypeOK
  /\ pc # "fault" => \A k \in DOMAIN pRx : pRx[k].buf # NoBuffer
  /\ rxdataready => Len(pRx) > 0
  /\ pc = "deliver" => rxdataready

LEMMA Bounds == ETH_RX_DESC_CNT \in Nat \ {0} /\ MaxFrames \in Nat /\ NoBuffer \notin RxBuffers
  BY RxAssumption

LEMMA Successor ==
  ASSUME NEW i \in Descriptors
  PROVE  INCR(i) \in Descriptors
  BY Bounds DEF INCR, Descriptors

LEMMA Element ==
  ASSUME NEW S, NEW s \in Seq(S)
  PROVE  DOMAIN s = 1 .. Len(s) /\ Len(s) \in Nat /\ \A k \in 1 .. Len(s) : s[k] \in S
  OBVIOUS

LEMMA Appended ==
  ASSUME NEW S, NEW s \in Seq(S), NEW e \in S
  PROVE  /\ Append(s, e) \in Seq(S) /\ Len(Append(s, e)) = Len(s) + 1
         /\ \A k \in 1 .. Len(s) : Append(s, e)[k] = s[k]
         /\ Append(s, e)[Len(s) + 1] = e
  OBVIOUS

LEMMA UnionAdded ==
  ASSUME NEW S, NEW x
  PROVE  UNION (S \cup {x}) = (UNION S) \cup x
<1>1. ASSUME NEW b \in UNION (S \cup {x}) PROVE b \in (UNION S) \cup x
  OBVIOUS
<1>2. ASSUME NEW b \in (UNION S) \cup x PROVE b \in UNION (S \cup {x})
  <2>1. CASE b \in x
    BY <2>1
  <2>2. CASE b \in UNION S
    <3>1. PICK p \in S : b \in p
      BY <2>2
    <3> QED BY <3>1
  <2> QED BY <2>1, <2>2
<1> QED BY <1>1, <1>2

LEMMA TypeInvInit == Init => TypeInv
<1> SUFFICES ASSUME Init PROVE TypeInv
  OBVIOUS
<1>1. Blank \in Parts /\ 0 \in Descriptors
  BY Bounds DEF Blank, Parts, Descriptors
<1>2. ring \in Rings
  BY <1>1 DEF Init, Rings
<1>3. pRx \in Chains /\ DOMAIN pRx = {}
  BY DEF Init, Chains
<1>4. given \in Seq(0 .. MaxFrames)
  BY DEF Init
<1>5. TypeOK
  <2>1. 0 \in 0 .. ETH_RX_DESC_CNT /\ 0 \in 0 .. MaxFrames /\ 0 \in Nat
    BY Bounds
  <2>2. pool \subseteq RxBuffers /\ held \subseteq SUBSET RxBuffers
    BY DEF Init
  <2> QED BY <1>1, <1>2, <1>3, <1>4, <2>1, <2>2, Zenon DEF Init, TypeOK
<1> QED BY <1>3, <1>5 DEF Init, TypeInv

\* The typing of the ring and of the chain, step by step.
LEMMA DmaStoreType ==
  ASSUME TypeOK, DmaStore
  PROVE  ring' \in Rings /\ fifo' \in Parts /\ dmaPos' \in Descriptors
<1> DEFINE D == [own : BOOLEAN, buf : RxBuffers \cup {NoBuffer}, data : Parts]
<1>1. ring[dmaPos] \in D /\ fifo \in Parts
  BY DEF TypeOK, Rings
<1>2. [ring[dmaPos] EXCEPT !.own = FALSE, !.data = fifo] \in D
  BY <1>1
<1>3. ring' \in Rings
  BY <1>2 DEF DmaStore, TypeOK, Rings
<1>4. Blank \in Parts /\ [fifo EXCEPT !.part = @ + 1] \in Parts
  BY <1>1, Bounds DEF Parts, Blank
<1>6. fifo' \in Parts
  BY <1>4 DEF DmaStore
<1>5. dmaPos' \in Descriptors
  BY Successor DEF DmaStore, TypeOK
<1> QED BY <1>3, <1>5, <1>6

LEMMA ReadDataType ==
  ASSUME TypeOK, HAL_ETH_ReadData, rxdataready => Len(pRx) > 0
  PROVE  /\ ring' \in Rings /\ pRx' \in Chains
         /\ rxdataready' \in BOOLEAN /\ (rxdataready' => Len(pRx') > 0)
         /\ RxDescIdx' \in Descriptors /\ RxBuildDescCnt' \in 0 .. ETH_RX_DESC_CNT
<1> DEFINE d == ring[RxDescIdx]
           e == [buf |-> d.buf, data |-> d.data]
           D == [own : BOOLEAN, buf : RxBuffers \cup {NoBuffer}, data : Parts]
<1>1. d \in D /\ [d EXCEPT !.buf = NoBuffer] \in D
  BY DEF TypeOK, Rings
<1>2. ring' = [ring EXCEPT ![RxDescIdx] = [d EXCEPT !.buf = NoBuffer]] \/ ring' = ring
  BY DEF HAL_ETH_ReadData
<1>3. ring' \in Rings
  BY <1>1, <1>2 DEF TypeOK, Rings
<1>7. RxDescIdx' \in Descriptors
  BY Successor DEF HAL_ETH_ReadData, TypeOK
<1>8. RxBuildDescCnt' \in 0 .. ETH_RX_DESC_CNT
  BY Bounds DEF HAL_ETH_ReadData, More, TypeOK
<1>4. Append(pRx, e) \in Chains /\ Len(Append(pRx, e)) > 0
  BY <1>1, Appended, Element DEF TypeOK, Chains
<1>5. \/ pRx' = Append(pRx, e) /\ rxdataready' = LD(d.data)
      \/ pRx' = pRx /\ rxdataready' = rxdataready
  BY DEF HAL_ETH_ReadData
<1>6. CASE pRx' = Append(pRx, e) /\ rxdataready' = LD(d.data)
  <2>1. LD(d.data) \in BOOLEAN
    BY Zenon DEF LD
  <2> QED BY <1>4, <1>6, <2>1, <1>3, <1>7, <1>8
<1>9. CASE pRx' = pRx /\ rxdataready' = rxdataready
  BY <1>3, <1>7, <1>8, <1>9 DEF TypeOK
<1> QED BY <1>5, <1>6, <1>9

\* The buffer a descriptor is given back with: its own, or a free one.
Given == IF NeedsBuffer THEN CHOOSE p \in pool : TRUE ELSE ring[RxBuildDescIdx].buf

LEMMA UpdateDescriptorType ==
  ASSUME TypeOK, ETH_UpdateDescriptor
  PROVE  /\ Given \in RxBuffers
         /\ ring' = [ring EXCEPT ![RxBuildDescIdx] = [own |-> TRUE, buf |-> Given, data |-> Blank]]
         /\ pool' = pool \ {Given}
         /\ ring' \in Rings
         /\ RxBuildDescIdx' \in Descriptors /\ RxBuildDescCnt' \in 0 .. ETH_RX_DESC_CNT
<1> DEFINE D == [own : BOOLEAN, buf : RxBuffers \cup {NoBuffer}, data : Parts]
<1>1. ring[RxBuildDescIdx] \in D
  BY DEF TypeOK, Rings
<1>2. Given \in RxBuffers
  BY <1>1 DEF ETH_UpdateDescriptor, NeedsBuffer, Given, TypeOK
<1>3. /\ ring' = [ring EXCEPT ![RxBuildDescIdx] = [own |-> TRUE, buf |-> Given, data |-> Blank]]
      /\ pool' = pool \ {Given}
  BY DEF ETH_UpdateDescriptor, Given
<1>4. [own |-> TRUE, buf |-> Given, data |-> Blank] \in D
  BY <1>2, Bounds DEF Blank, Parts
<1>5. ring' \in Rings
  BY <1>3, <1>4 DEF TypeOK, Rings
<1>6. RxBuildDescIdx' \in Descriptors
  BY Successor DEF ETH_UpdateDescriptor, TypeOK
<1>7. RxBuildDescCnt' \in 0 .. ETH_RX_DESC_CNT
  BY Bounds DEF ETH_UpdateDescriptor, TypeOK
<1> QED BY <1>2, <1>3, <1>5, <1>6, <1>7

LEMMA DeliverType ==
  ASSUME TypeInv, Deliver
  PROVE  /\ given' \in Seq(0 .. MaxFrames) /\ pRx' \in Chains /\ held' \subseteq SUBSET RxBuffers
         /\ pool' \subseteq RxBuffers /\ DOMAIN pRx' = {}
<1>1. Len(pRx) \in Nat /\ Len(pRx) > 0
  BY DEF Deliver, TypeInv, TypeOK, Chains
<1>2. pRx[Len(pRx)] \in [buf : RxBuffers \cup {NoBuffer}, data : Parts]
  <2>1. \A k \in 1 .. Len(pRx) : pRx[k] \in [buf : RxBuffers \cup {NoBuffer}, data : Parts]
    BY Element DEF TypeInv, TypeOK, Chains
  <2> QED BY <1>1, <2>1
<1>3. pRx[Len(pRx)].data.frame \in 0 .. MaxFrames
  BY <1>2 DEF Parts
<1>4. given' \in Seq(0 .. MaxFrames)
  BY <1>3 DEF Deliver, TypeInv, TypeOK
<1>5. pRx' \in Chains /\ DOMAIN pRx' = {}
  BY DEF Deliver, Chains
<1>6. ChainBuffers \subseteq RxBuffers
  <2>1. \A k \in DOMAIN pRx : pRx[k] \in [buf : RxBuffers \cup {NoBuffer}, data : Parts]
    BY Element DEF TypeInv, TypeOK, Chains
  <2> QED BY <2>1 DEF Deliver, TypeInv, ChainBuffers
<1>7. held' \subseteq SUBSET RxBuffers
  BY <1>6 DEF Deliver, TypeInv, TypeOK
<1>8. pool' \subseteq RxBuffers
  BY <1>6 DEF Deliver, Freed, TypeInv, TypeOK
<1> QED BY <1>4, <1>5, <1>7, <1>8

LEMMA TypeInvKept ==
  ASSUME TypeInv, [Next]_vars
  PROVE  TypeInv'
<1> USE DEF TypeInv
<1>1. CASE FrameArrives
  <2>1. \A n \in 1 .. env.maxParts : n \in Nat
    OBVIOUS
  <2>2. fifo' \in Parts /\ frames' \in 0 .. MaxFrames
    BY <1>1, <2>1, Bounds DEF FrameArrives, Parts, TypeOK
  <2> QED BY <1>1, <2>2 DEF FrameArrives, TypeOK, driver
<1>2. CASE DmaStore
  BY <1>2, DmaStoreType DEF DmaStore, TypeOK, driver
<1>3. CASE FrameMissed
  BY <1>3, Bounds DEF FrameMissed, Blank, Parts, TypeOK, driver
<1>4. CASE low_level_input
  BY <1>4 DEF low_level_input, TypeOK, driver, wire
<1>5. CASE HAL_ETH_ReadData
  <2>1. pc' \in {"fault", pc} /\ pc = "read"
    BY <1>5 DEF HAL_ETH_ReadData
  <2>2. pc' # "fault" => \A k \in DOMAIN pRx' : pRx'[k].buf # NoBuffer
    <3> DEFINE e == [buf |-> ring[RxDescIdx].buf, data |-> ring[RxDescIdx].data]
    <3>1. e \in [buf : RxBuffers \cup {NoBuffer}, data : Parts]
      BY DEF TypeOK, Rings
    <3>2. \/ pRx' = Append(pRx, e) /\ (pc' # "fault" => e.buf # NoBuffer)
          \/ pRx' = pRx
      BY <1>5, <2>1 DEF HAL_ETH_ReadData
    <3>3. DOMAIN pRx = 1 .. Len(pRx) /\ Len(pRx) \in Nat
      BY Element DEF TypeOK, Chains
    <3>4. /\ DOMAIN Append(pRx, e) = 1 .. Len(pRx) + 1
          /\ \A k \in 1 .. Len(pRx) : Append(pRx, e)[k] = pRx[k]
          /\ Append(pRx, e)[Len(pRx) + 1] = e
      BY <3>1, Appended, Element DEF TypeOK, Chains
    <3> QED BY <1>5, <2>1, <3>2, <3>3, <3>4
  <2>3. TypeOK'
    BY <1>5, <2>1, ReadDataType DEF HAL_ETH_ReadData, TypeOK, wire
  <2> QED BY <1>5, <2>1, <2>2, <2>3, ReadDataType
<1>6. CASE ReadDone
  BY <1>6 DEF ReadDone, TypeOK, driver, wire
<1>7. CASE ETH_UpdateDescriptor
  <2>1. pool' \subseteq RxBuffers
    BY <1>7, UpdateDescriptorType DEF TypeOK
  <2> QED BY <1>7, <2>1, UpdateDescriptorType DEF ETH_UpdateDescriptor, TypeOK, wire
<1>8. CASE UpdateDone
  BY <1>8 DEF UpdateDone, TypeOK, wire
<1>9. CASE Deliver
  BY <1>9, DeliverType DEF Deliver, TypeOK, Freed, wire
<1>10. CASE LwipFrees
  <2>1. pool' \subseteq RxBuffers /\ held' \subseteq SUBSET RxBuffers
    BY <1>10 DEF LwipFrees, Freed, TypeOK
  <2> QED BY <1>10, <2>1 DEF LwipFrees, Freed, TypeOK, wire
<1>11. CASE sys_check_timeouts
  BY <1>11 DEF sys_check_timeouts, TypeOK, driver, wire
<1>12. CASE LinkCheck
  <2>1. pc' \in {"input", "build"} /\ gState' \in {"READY", "BUSY", "STARTED"}
        /\ linkUp' \in BOOLEAN
    BY <1>12 DEF LinkCheck, HAL_ETH_Stop, HAL_ETH_Start, TypeOK
  <2>2. RxBuildDescCnt' \in 0 .. ETH_RX_DESC_CNT /\ stops' \in Nat
    BY <1>12, Bounds DEF LinkCheck, HAL_ETH_Stop, HAL_ETH_Start, TypeOK
  <2> QED BY <1>12, <2>1, <2>2 DEF LinkCheck, TypeOK, wire
<1>13. CASE UNCHANGED vars
  BY <1>13 DEF vars, driver, wire, TypeOK
<1> QED BY <1>1, <1>2, <1>3, <1>4, <1>5, <1>6, <1>7, <1>8, <1>9, <1>10, <1>11, <1>12, <1>13
        DEF Next, MainLoop, HardFault_Handler

\* Every variable stays what its comment says it is.
THEOREM RxTypeCorrect == Spec => []TypeOK
<1>1. Spec => []TypeInv
  BY TypeInvInit, TypeInvKept, PTL DEF Spec
<1> QED BY <1>1, PTL DEF TypeInv
-----------------------------------------------------------------------------
(* Buffers. *)

\* The parts of BuffersConserved.
Partition ==
  /\ RxBuffers = pool \cup RingBuffers \cup ChainBuffers \cup UNION held
  /\ pool \cap (RingBuffers \cup ChainBuffers \cup UNION held) = {}
  /\ RingBuffers \cap (ChainBuffers \cup UNION held) = {}
  /\ ChainBuffers \cap UNION held = {}
RingApart ==
  \A i, j \in Descriptors : ring[i].buf = ring[j].buf /\ ring[i].buf # NoBuffer => i = j
ChainApart == \A j, k \in DOMAIN pRx : pRx[j].buf = pRx[k].buf => j = k
PacketsApart == \A p, q \in held : p # q => p \cap q = {}

LEMMA BuffersParts ==
  BuffersConserved <=> (pc # "fault" => Partition /\ RingApart /\ ChainApart /\ PacketsApart)
  BY Zenon DEF BuffersConserved, Partition, RingApart, ChainApart, PacketsApart

\* A step that moves no buffer.
LEMMA NoneMoved ==
  ASSUME BuffersConserved, pc' # "fault" => pc # "fault", UNCHANGED <<pool, held, pRx>>,
         \A i \in Descriptors : ring'[i].buf = ring[i].buf
  PROVE  BuffersConserved'
<1>1. RingBuffers' = RingBuffers
  BY DEF RingBuffers
<1>2. ChainBuffers' = ChainBuffers
  BY DEF ChainBuffers
<1>3. ASSUME Partition PROVE Partition'
  BY <1>1, <1>2, <1>3 DEF Partition
<1>4. ASSUME RingApart PROVE RingApart'
  BY <1>4 DEF RingApart
<1>5. ASSUME ChainApart PROVE ChainApart'
  BY <1>5 DEF ChainApart
<1>6. ASSUME PacketsApart PROVE PacketsApart'
  BY <1>6 DEF PacketsApart
<1> QED BY <1>3, <1>4, <1>5, <1>6, BuffersParts DEF BuffersConserved, Partition, RingApart, ChainApart, PacketsApart

\* A descriptor's buffer moves into the frame being put together.
LEMMA ReadMoves ==
  ASSUME TypeInv, BuffersConserved, HAL_ETH_ReadData, pc' # "fault"
  PROVE  Partition' /\ RingApart' /\ ChainApart' /\ PacketsApart'
<1> DEFINE d == ring[RxDescIdx]
           e == [buf |-> d.buf, data |-> d.data]
<1>1. pc = "read" /\ UNCHANGED <<pool, held>>
  BY DEF HAL_ETH_ReadData
<1>2. Partition /\ RingApart /\ ChainApart /\ PacketsApart
  BY <1>1, BuffersParts
<1>3. CASE ring' = ring /\ pRx' = pRx
  BY <1>1, <1>2, <1>3
  DEF Partition, RingApart, ChainApart, PacketsApart, RingBuffers, ChainBuffers
<1>4. CASE /\ pRx' = Append(pRx, e) /\ d.buf # NoBuffer
           /\ ring' = [ring EXCEPT ![RxDescIdx] = [d EXCEPT !.buf = NoBuffer]]
  <2>1. /\ RxDescIdx \in Descriptors
        /\ \A i \in Descriptors : ring'[i].buf = IF i = RxDescIdx THEN NoBuffer ELSE ring[i].buf
    BY <1>4 DEF TypeInv, TypeOK, Rings
  <2>2. RingBuffers' = RingBuffers \ {d.buf} /\ d.buf \in RingBuffers
    BY <1>2, <1>4, <2>1 DEF RingBuffers, RingApart
  <2>3. /\ DOMAIN pRx = 1 .. Len(pRx) /\ Len(pRx) \in Nat
        /\ DOMAIN pRx' = 1 .. Len(pRx) + 1
        /\ \A k \in 1 .. Len(pRx) : pRx'[k] = pRx[k]
        /\ pRx'[Len(pRx) + 1] = e
    <3>1. e \in [buf : RxBuffers \cup {NoBuffer}, data : Parts]
      BY DEF TypeInv, TypeOK, Rings
    <3> QED BY <1>4, <3>1, Appended, Element DEF TypeInv, TypeOK, Chains
  <2>4. ChainBuffers' = ChainBuffers \cup {d.buf}
    BY <2>3 DEF ChainBuffers
  <2>5. Partition'
    BY <1>1, <1>2, <2>2, <2>4 DEF Partition
  <2>6. RingApart'
    BY <1>2, <2>1 DEF RingApart
  <2>7. \A k \in DOMAIN pRx : pRx[k].buf # d.buf
    BY <1>2, <2>2 DEF Partition, ChainBuffers
  <2>8. ChainApart'
    BY <1>2, <2>3, <2>7 DEF ChainApart
  <2> QED BY <1>1, <1>2, <2>5, <2>6, <2>8 DEF PacketsApart
<1> QED BY <1>1, <1>3, <1>4 DEF HAL_ETH_ReadData

\* A free buffer moves into a descriptor, or the descriptor keeps its own.
LEMMA BuildMoves ==
  ASSUME TypeInv, BuffersConserved, ETH_UpdateDescriptor
  PROVE  Partition' /\ RingApart' /\ ChainApart' /\ PacketsApart'
<1>1. pc = "build" /\ UNCHANGED <<pRx, held>>
  BY DEF ETH_UpdateDescriptor
<1>2. Partition /\ RingApart /\ ChainApart /\ PacketsApart
  BY <1>1, BuffersParts
<1>3. /\ RxBuildDescIdx \in Descriptors /\ Given \in RxBuffers /\ Given # NoBuffer
      /\ \A i \in Descriptors :
           ring'[i].buf = IF i = RxBuildDescIdx THEN Given ELSE ring[i].buf
      /\ pool' = pool \ {Given}
  BY UpdateDescriptorType, Bounds DEF TypeInv, TypeOK, Rings
<1>4. ChainBuffers' = ChainBuffers /\ ChainApart' /\ PacketsApart'
  BY <1>1, <1>2 DEF ChainBuffers, ChainApart, PacketsApart
<1>5. CASE NeedsBuffer
  <2>1. Given \in pool /\ ring[RxBuildDescIdx].buf = NoBuffer
    BY <1>5 DEF ETH_UpdateDescriptor, NeedsBuffer, Given
  <2>2. RingBuffers' = RingBuffers \cup {Given} /\ Given \notin RingBuffers
    BY <1>2, <1>3, <2>1 DEF RingBuffers, Partition
  <2>3. Partition'
    BY <1>1, <1>2, <1>3, <1>4, <2>1, <2>2 DEF Partition
  <2>4. \A i \in Descriptors : ring[i].buf # Given
    BY <1>3, <2>2 DEF RingBuffers
  <2>5. RingApart'
    BY <1>2, <1>3, <2>4 DEF RingApart
  <2> QED BY <1>4, <2>3, <2>5
<1>6. CASE ~NeedsBuffer
  <2>1. Given = ring[RxBuildDescIdx].buf /\ Given \in RingBuffers
    BY <1>3, <1>6 DEF NeedsBuffer, Given, RingBuffers
  <2>2. \A i \in Descriptors : ring'[i].buf = ring[i].buf
    BY <1>3, <2>1
  <2>3. RingBuffers' = RingBuffers /\ pool' = pool
    BY <1>2, <1>3, <2>1, <2>2 DEF RingBuffers, Partition
  <2> QED BY <1>1, <1>2, <1>4, <2>2, <2>3 DEF Partition, RingApart
<1> QED BY <1>5, <1>6

\* A frame's buffers move to lwIP, or back to the pool.
LEMMA DeliverMoves ==
  ASSUME TypeInv, BuffersConserved, Deliver
  PROVE  Partition' /\ RingApart' /\ ChainApart' /\ PacketsApart'
<1>1. pc = "deliver" /\ UNCHANGED ring /\ pRx' = <<>>
  BY DEF Deliver
<1>2. Partition /\ RingApart /\ ChainApart /\ PacketsApart
  BY <1>1, BuffersParts
<1>3. DOMAIN pRx' = {}
  BY <1>1
<1>4. RingBuffers' = RingBuffers /\ RingApart' /\ ChainBuffers' = {} /\ ChainApart'
  BY <1>1, <1>2, <1>3 DEF RingBuffers, RingApart, ChainBuffers, ChainApart
<1>5. CASE held' = held \cup {ChainBuffers} /\ pool' = pool
  <2>1. UNION held' = (UNION held) \cup ChainBuffers
    <3>1. UNION (held \cup {ChainBuffers}) = (UNION held) \cup ChainBuffers
      BY UnionAdded, Zenon
    <3> QED BY <1>5, <3>1, Zenon
  <2>2. Partition'
    BY <1>2, <1>4, <1>5, <2>1 DEF Partition
  <2>3. \A p \in held : p \cap ChainBuffers = {}
    BY <1>2 DEF Partition
  <2> QED BY <1>2, <1>4, <1>5, <2>2, <2>3 DEF PacketsApart
<1>6. CASE pool' = pool \cup ChainBuffers /\ held' = held
  BY <1>2, <1>4, <1>6 DEF Partition, PacketsApart
<1> QED BY <1>5, <1>6 DEF Deliver, Freed

LEMMA FreeMoves ==
  ASSUME BuffersConserved, LwipFrees
  PROVE  Partition' /\ RingApart' /\ ChainApart' /\ PacketsApart'
<1>1. pc \in {"deliver", "timers"} /\ UNCHANGED <<ring, pRx>>
  BY DEF LwipFrees
<1>2. Partition /\ RingApart /\ ChainApart /\ PacketsApart
  BY <1>1, BuffersParts
<1>3. RingBuffers' = RingBuffers /\ RingApart' /\ ChainBuffers' = ChainBuffers /\ ChainApart'
  BY <1>1, <1>2 DEF RingBuffers, RingApart, ChainBuffers, ChainApart
<1>4. PICK packet \in held : pool' = pool \cup packet /\ held' = held \ {packet}
  BY DEF LwipFrees, Freed
<1>5. UNION held' = (UNION held) \ packet
  BY <1>2, <1>4 DEF PacketsApart
<1>6. packet \subseteq UNION held
  BY <1>4
<1>7. Partition'
  BY <1>2, <1>3, <1>4, <1>5, <1>6 DEF Partition
<1>8. PacketsApart'
  BY <1>2, <1>4 DEF PacketsApart
<1> QED BY <1>3, <1>7, <1>8

LEMMA ConservedKept ==
  ASSUME TypeInv, BuffersConserved, [Next]_vars
  PROVE  BuffersConserved'
<1> DEFINE Kept == pc' # "fault" => Partition' /\ RingApart' /\ ChainApart' /\ PacketsApart'
<1>1. Kept => BuffersConserved'
  BY Zenon DEF BuffersConserved, Partition, RingApart, ChainApart, PacketsApart
<1>2. CASE HAL_ETH_ReadData
  BY <1>1, <1>2, ReadMoves
<1>3. CASE ETH_UpdateDescriptor
  BY <1>1, <1>3, BuildMoves
<1>4. CASE Deliver
  BY <1>1, <1>4, DeliverMoves
<1>5. CASE LwipFrees
  BY <1>1, <1>5, FreeMoves
<1>6. CASE DmaStore
  <2>1. \A i \in Descriptors : ring'[i].buf = ring[i].buf
    BY <1>6 DEF DmaStore, TypeInv, TypeOK, Rings
  <2> QED BY <1>6, <2>1, NoneMoved DEF DmaStore, driver
<1>7. CASE \/ FrameArrives \/ FrameMissed \/ low_level_input \/ ReadDone \/ UpdateDone
           \/ sys_check_timeouts \/ LinkCheck \/ UNCHANGED vars
  <2>1. UNCHANGED <<pool, held, pRx, ring>> /\ (pc' # "fault" => pc # "fault")
    BY <1>7 DEF FrameArrives, FrameMissed, low_level_input, ReadDone, UpdateDone,
                sys_check_timeouts, LinkCheck, vars, driver
  <2> QED BY <2>1, NoneMoved
<1> QED BY <1>2, <1>3, <1>4, <1>5, <1>6, <1>7 DEF Next, MainLoop, HardFault_Handler

\* No buffer leaks, and none is in two places: however the pool runs dry and
\* however often the MAC is stopped and started.
THEOREM RxBuffersConserved == Spec => []BuffersConserved
<1>1. Init => BuffersConserved
  <2>1. ASSUME Init PROVE RingBuffers = {} /\ ChainBuffers = {} /\ UNION held = {}
    BY <2>1 DEF Init, RingBuffers, ChainBuffers
  <2>2. ASSUME Init PROVE Partition
    BY <2>1, <2>2 DEF Init, Partition
  <2>3. ASSUME Init PROVE RingApart /\ ChainApart /\ PacketsApart
    BY <2>3 DEF Init, RingApart, ChainApart, PacketsApart
  <2> QED BY <2>2, <2>3, BuffersParts
<1>2. TypeInv /\ BuffersConserved /\ [Next]_vars => BuffersConserved'
  BY ConservedKept
<1>3. Spec => []TypeInv
  BY TypeInvInit, TypeInvKept, PTL DEF Spec
<1> QED BY <1>1, <1>2, <1>3, PTL DEF Spec
-----------------------------------------------------------------------------
(* The driver's indexes. *)

\* The descriptors that have been read and not given back follow RxBuildDescIdx.
End == RxBuildDescIdx + RxBuildDescCnt
Window(i) ==
  IF End <= ETH_RX_DESC_CNT THEN RxBuildDescIdx <= i /\ i < End
  ELSE RxBuildDescIdx <= i \/ i < End - ETH_RX_DESC_CNT

\* RxDescIdx is where they end, and the other descriptors have their buffers.
InStep ==
  /\ RxDescIdx = IF End < ETH_RX_DESC_CNT THEN End ELSE End - ETH_RX_DESC_CNT
  /\ gState = "READY" => RxBuildDescCnt = 0
  /\ gState # "READY" \/ stops # 0 => \A i \in Descriptors : ~Window(i) => ring[i].buf # NoBuffer

\* What the main loop is doing, and the state the MAC is in meanwhile.
Modes ==
  /\ pc = "read" => gState = "STARTED"
  /\ gState = "BUSY" => pc = "build"
  /\ gState = "READY" => pc \notin {"read", "build", "deliver"}

LEMMA ModesKept ==
  ASSUME Modes, [Next]_vars
  PROVE  Modes'
  BY DEF Modes, Next, MainLoop, HardFault_Handler, LinkCheck, HAL_ETH_Stop, HAL_ETH_Start,
         FrameArrives, DmaStore, FrameMissed, low_level_input, HAL_ETH_ReadData, ReadDone,
         ETH_UpdateDescriptor, UpdateDone, Deliver, LwipFrees, sys_check_timeouts, vars, driver

\* The indexes stay in step unless the MAC is stopped while descriptors are
\* missing, and in step the driver finds a buffer in each descriptor it reads.
LEMMA InStepKept ==
  ASSUME TypeInv, Modes, InStep, [Next]_vars,
         LinkCheck /\ HAL_ETH_Stop => RxBuildDescCnt = 0
  PROVE  InStep' /\ (pc # "fault" => pc' # "fault")
<1> USE Bounds DEF TypeInv, TypeOK, Modes, Descriptors, End
<1>1. CASE HAL_ETH_ReadData
  <2>1. pc = "read" /\ gState = "STARTED" /\ gState' = gState /\ stops' = stops
    BY <1>1 DEF HAL_ETH_ReadData
  <2>2. ring[RxDescIdx].buf # NoBuffer
    <3>1. /\ RxDescIdx \in Descriptors /\ RxBuildDescIdx \in Descriptors
          /\ RxBuildDescCnt \in 0 .. ETH_RX_DESC_CNT - 1
          /\ RxDescIdx = IF End < ETH_RX_DESC_CNT THEN End ELSE End - ETH_RX_DESC_CNT
      BY <1>1 DEF HAL_ETH_ReadData, More, InStep
    <3>2. ~Window(RxDescIdx)
      BY ONLY <3>1, Bounds DEF Window, Descriptors, End
    <3> HIDE DEF Descriptors, End
    <3> QED BY <2>1, <3>1, <3>2 DEF InStep
  <2>3. pc' = "read"
    BY <1>1, <2>1, <2>2 DEF HAL_ETH_ReadData
  <2>4. \A i \in Descriptors : i # RxDescIdx => ring'[i].buf = ring[i].buf
    <3> HIDE DEF Descriptors, End
    <3>1. ring' = [ring EXCEPT ![RxDescIdx] = [ring[RxDescIdx] EXCEPT !.buf = NoBuffer]]
          \/ ring' = ring
      BY <1>1 DEF HAL_ETH_ReadData
    <3>2. RxDescIdx \in Descriptors /\ ring \in Rings
      OBVIOUS
    <3> QED BY ONLY <3>1, <3>2 DEF Rings
  <2>5. /\ RxDescIdx' = INCR(RxDescIdx) /\ RxBuildDescCnt' = RxBuildDescCnt + 1
        /\ RxBuildDescIdx' = RxBuildDescIdx /\ RxBuildDescIdx \in Descriptors
        /\ RxBuildDescCnt \in 0 .. ETH_RX_DESC_CNT - 1
        /\ RxDescIdx = IF End < ETH_RX_DESC_CNT THEN End ELSE End - ETH_RX_DESC_CNT
    BY <1>1 DEF HAL_ETH_ReadData, More, InStep
  <2>6. \A i \in Descriptors : ~Window(i)' => ~Window(i) /\ i # RxDescIdx
    BY ONLY <2>5, Bounds DEF Window, Descriptors, End
  <2>7. RxDescIdx' = IF End' < ETH_RX_DESC_CNT THEN End' ELSE End' - ETH_RX_DESC_CNT
    BY ONLY <2>5, Bounds DEF INCR, Descriptors, End
  <2>8. InStep'
    BY <2>1, <2>4, <2>6, <2>7 DEF InStep
  <2> QED BY <2>3, <2>8
<1>2. CASE ETH_UpdateDescriptor
  <2>1. /\ pc = "build" /\ pc' = pc /\ gState' = gState /\ stops' = stops
        /\ RxDescIdx' = RxDescIdx /\ gState # "READY" /\ RxBuildDescCnt > 0
    BY <1>2 DEF ETH_UpdateDescriptor
  <2>2. \A i \in Descriptors :
          ring'[i].buf = IF i = RxBuildDescIdx THEN Given ELSE ring[i].buf
    <3> HIDE DEF Descriptors, End
    <3>1. ring' = [ring EXCEPT ![RxBuildDescIdx] = [own |-> TRUE, buf |-> Given, data |-> Blank]]
      BY <1>2, UpdateDescriptorType
    <3> QED BY <3>1 DEF Rings
  <2>3. Given # NoBuffer
    <3>1. Given \in RxBuffers
      BY <1>2, UpdateDescriptorType
    <3> QED BY <3>1, Bounds
  <2>4. \A i \in Descriptors : ~Window(i)' => ~Window(i) \/ i = RxBuildDescIdx
    <3>1. /\ RxBuildDescIdx' = INCR(RxBuildDescIdx) /\ RxBuildDescCnt' = RxBuildDescCnt - 1
          /\ RxBuildDescIdx \in Descriptors /\ RxBuildDescCnt \in 1 .. ETH_RX_DESC_CNT
      BY <1>2, <2>1 DEF ETH_UpdateDescriptor
    <3> QED BY ONLY <3>1, Bounds DEF Window, INCR, Descriptors, End
  <2>5. RxDescIdx' = IF End' < ETH_RX_DESC_CNT THEN End' ELSE End' - ETH_RX_DESC_CNT
    BY <1>2, <2>1 DEF ETH_UpdateDescriptor, InStep, INCR
  <2>6. InStep'
    BY <2>1, <2>2, <2>3, <2>4, <2>5 DEF InStep
  <2> QED BY <2>1, <2>6
<1>3. CASE DmaStore
  <2>1. \A i \in Descriptors : ring'[i].buf = ring[i].buf
    BY <1>3 DEF DmaStore, Rings
  <2>2. UNCHANGED <<driver, pc, stops>>
    BY <1>3 DEF DmaStore
  <2> QED BY <2>1, <2>2 DEF InStep, Window, driver
<1>4. CASE UpdateDone
  <2>1. /\ UNCHANGED <<RxDescIdx, RxBuildDescIdx, RxBuildDescCnt, ring, stops>>
        /\ pc = "build" /\ gState' = "STARTED" /\ pc' \in {"input", "deliver", "timers"}
        /\ gState # "READY"
    BY <1>4 DEF UpdateDone
  <2> QED BY <2>1 DEF InStep, Window
<1>5. CASE LinkCheck
  <2>1. pc = "link" /\ UNCHANGED <<RxDescIdx, RxBuildDescIdx, ring>>
    BY <1>5 DEF LinkCheck
  <2>2. CASE HAL_ETH_Stop
    <3>1. RxBuildDescCnt = 0
      BY <1>5, <2>2
    <3>2. gState = "STARTED" /\ gState' = "READY" /\ pc' = "input"
          /\ UNCHANGED RxBuildDescCnt
      BY <2>2 DEF HAL_ETH_Stop
    <3>3. \A i \in Descriptors : Window(i)' = Window(i)
      BY <2>1, <3>2 DEF Window
    <3> HIDE DEF Descriptors, End
    <3>4. \A i \in Descriptors : ~Window(i)' => ring'[i].buf # NoBuffer
      BY <2>1, <3>2, <3>3 DEF InStep
    <3>5. RxDescIdx' = IF End' < ETH_RX_DESC_CNT THEN End' ELSE End' - ETH_RX_DESC_CNT
      BY <2>1, <3>2 DEF InStep, End
    <3> QED BY <3>1, <3>2, <3>4, <3>5 DEF InStep
  <2>3. CASE HAL_ETH_Start
    <3>1. /\ gState = "READY" /\ gState' = "BUSY" /\ pc' = "build" /\ stops' = stops
          /\ RxBuildDescCnt' = ETH_RX_DESC_CNT
      BY <2>3 DEF HAL_ETH_Start
    <3>2. RxDescIdx = RxBuildDescIdx
      BY <3>1 DEF InStep
    <3>3. \A i \in Descriptors : Window(i)'
      BY <2>1, <3>1 DEF Window
    <3> QED BY <2>1, <3>1, <3>2, <3>3 DEF InStep
  <2>4. CASE pc' = "input" /\ UNCHANGED <<gState, linkUp, RxBuildDescCnt, stops>>
    BY <2>1, <2>4 DEF InStep, Window
  <2> QED BY <1>5, <2>2, <2>3, <2>4 DEF LinkCheck
<1>6. CASE Deliver \/ LwipFrees
  <2>1. /\ UNCHANGED <<gState, RxDescIdx, RxBuildDescIdx, RxBuildDescCnt, ring, stops>>
        /\ pc \in {"deliver", "timers"} /\ pc' \in {pc, "input"}
    BY <1>6 DEF Deliver, LwipFrees
  <2> QED BY <2>1 DEF InStep, Window
<1>7. CASE \/ FrameArrives \/ FrameMissed \/ low_level_input \/ ReadDone \/ sys_check_timeouts
           \/ UNCHANGED vars
  <2>1. UNCHANGED <<driver, ring, stops>>
    BY <1>7 DEF FrameArrives, FrameMissed, low_level_input, ReadDone, sys_check_timeouts, vars
  <2>2. pc' = pc \/ pc' \in {"read", "timers", "build", "link"}
    BY <1>7 DEF FrameArrives, FrameMissed, low_level_input, ReadDone, sys_check_timeouts, vars
  <2> QED BY <2>1, <2>2 DEF InStep, Window, driver
<1> QED BY <1>1, <1>2, <1>3, <1>4, <1>5, <1>6, <1>7 DEF Next, MainLoop, HardFault_Handler

\* Until the MAC is first stopped.
Phase == Modes /\ (stops = 0 => pc # "fault" /\ InStep)

LEMMA PhaseKept ==
  ASSUME TypeInv, Phase, [Next]_vars
  PROVE  Phase'
<1>1. stops' = stops \/ HAL_ETH_Stop
  BY DEF Next, MainLoop, HardFault_Handler, LinkCheck, HAL_ETH_Start, FrameArrives, DmaStore,
         FrameMissed, low_level_input, HAL_ETH_ReadData, ReadDone, ETH_UpdateDescriptor, UpdateDone,
         Deliver, LwipFrees, sys_check_timeouts, vars
<1>2. stops' = 0 => stops = 0 /\ ~HAL_ETH_Stop
  BY <1>1 DEF HAL_ETH_Stop, TypeInv, TypeOK
<1> QED BY <1>2, ModesKept, InStepKept DEF Phase

LEMMA PhaseInit == Init => Phase
  BY Bounds DEF Init, Phase, Modes, InStep, End
=============================================================================
