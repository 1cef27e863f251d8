---------------------------- MODULE EthFrames_proofs ----------------------------
(***************************************************************************)
(* Proofs about EthRx, for every ring, pool of buffers and bounds: what    *)
(* lwIP is handed is whole frames, each once, and the driver links no      *)
(* descriptor without a buffer over restarts either.                       *)
(***************************************************************************)
EXTENDS EthRx_proofs, FiniteSetTheorems

(* Frames, until the MAC is first stopped. *)

\* The descriptor k places on from RxDescIdx.
Place(k) == IF RxDescIdx + k < ETH_RX_DESC_CNT THEN RxDescIdx + k
            ELSE RxDescIdx + k - ETH_RX_DESC_CNT

\* How many descriptors, from RxDescIdx on, have been given back to the DMA.
Built == ETH_RX_DESC_CNT - RxBuildDescCnt

\* b comes next after a off the wire: the next part of a frame, or the first
\* part of a later one.
Part(d) == d.part \in 1 .. d.parts
Follows(a, b) ==
  /\ Part(b)
  /\ IF LD(a) THEN FD(b) /\ a.frame < b.frame
     ELSE b = [a EXCEPT !.part = @ + 1]

\* The part read last; a frame that has been delivered counts as one part.
Whole(f) == [frame |-> f, part |-> 1, parts |-> 1]
Read == IF pRx # <<>> THEN pRx[Len(pRx)].data
        ELSE Whole(IF given # <<>> THEN given[Len(given)] ELSE 0)

\* What the k-th descriptor from there on holds.
Data(k) == IF k = 0 THEN Read ELSE ring[Place(k - 1)].data

\* The chain holds the first parts of one frame, later than those delivered.
ChainInOrder ==
  /\ Part(Read)
  /\ pRx # <<>> => Read.part = Len(pRx)
  /\ \A k \in DOMAIN pRx : pRx[k].data = [Read EXCEPT !.part = k]
  /\ rxdataready = (pRx # <<>> /\ LD(Read))
  /\ \A j, k \in DOMAIN given : j < k => given[j] < given[k]
  /\ pRx # <<>> => \A k \in DOMAIN given : given[k] < Read.frame

\* The DMA has filled n descriptors, and the MAC has what comes after them.
Filled(n) ==
  /\ dmaPos = Place(n)
  /\ \A k \in 0 .. ETH_RX_DESC_CNT - 1 : ring[Place(k)].own <=> n <= k /\ k < Built
  /\ \A k \in 1 .. n : Follows(Data(k - 1), Data(k))
  /\ IF fifo = Blank THEN LD(Data(n)) /\ Data(n).frame <= frames
     ELSE Follows(Data(n), fifo) /\ fifo.frame <= frames

NothingYet ==
  /\ \A i \in Descriptors : ~ring[i].own
  /\ RxDescIdx = 0 /\ dmaPos = 0 /\ fifo = Blank
  /\ pRx = <<>> /\ given = <<>> /\ ~rxdataready

InOrder ==
  /\ gState = "READY" => NothingYet
  /\ gState # "READY" => ChainInOrder /\ \E n \in 0 .. Built : Filled(n)

LEMMA Ends ==
  /\ Len(<<>>) = 0 /\ ~(Len(<<>>) > 0)
  /\ \A S : \A s \in Seq(S) : s # <<>> => s[1] \in S /\ s[Len(s)] \in S
<1>1. Len(<<>>) = 0
  OBVIOUS
<1>2. ASSUME NEW S, NEW s \in Seq(S), s # <<>>
      PROVE  s[1] \in S /\ s[Len(s)] \in S
  <2>1. 1 \in 1 .. Len(s) /\ Len(s) \in 1 .. Len(s)
    BY <1>2
  <2> QED BY <2>1, Element
<1> QED BY <1>1, <1>2

LEMMA Places ==
  ASSUME RxDescIdx \in Descriptors
  PROVE  /\ Place(0) = RxDescIdx /\ Place(ETH_RX_DESC_CNT) = RxDescIdx
         /\ \A k \in 0 .. ETH_RX_DESC_CNT : Place(k) \in Descriptors
         /\ \A k \in 0 .. ETH_RX_DESC_CNT - 1 : INCR(Place(k)) = Place(k + 1)
         /\ \A j, k \in 0 .. ETH_RX_DESC_CNT - 1 : Place(j) = Place(k) => j = k
<1> DEFINE N == ETH_RX_DESC_CNT
<1>1. N \in Nat \ {0} /\ RxDescIdx \in 0 .. N - 1
  BY Bounds DEF Descriptors
<1>2. Place(0) = RxDescIdx /\ Place(N) = RxDescIdx
  BY <1>1 DEF Place
<1>3. ASSUME NEW k \in 0 .. N PROVE Place(k) \in Descriptors
  BY <1>1 DEF Place, Descriptors
<1>5. ASSUME NEW k \in 0 .. N - 1 PROVE INCR(Place(k)) = Place(k + 1)
  BY <1>1 DEF Place, INCR
<1>4. ASSUME NEW j \in 0 .. N - 1, NEW k \in 0 .. N - 1, Place(j) = Place(k)
      PROVE  j = k
  BY <1>1, <1>4 DEF Place
<1> QED BY <1>2, <1>3, <1>4, <1>5

LEMMA Wholes ==
  ASSUME NEW f
  PROVE  Part(Whole(f)) /\ LD(Whole(f)) /\ Whole(f).frame = f
  BY DEF Part, Whole, LD, Blank

\* A frame that is complete is followed by the same parts as one delivered.
LEMMA FollowsWhole ==
  ASSUME NEW a, NEW b, LD(a), Follows(a, b)
  PROVE  Follows(Whole(a.frame), b)
  BY Wholes DEF Follows

\* Only the last part of a frame is followed by a first part.
LEMMA FirstFollows ==
  ASSUME NEW a \in Parts, NEW b, Part(a), Follows(a, b), FD(b)
  PROVE  LD(a) /\ a.frame < b.frame
<1>1. CASE ~LD(a)
  <2>1. b.part = a.part + 1 /\ a.part \in Nat /\ a.part >= 1
    BY <1>1 DEF Follows, Part, Parts
  <2> QED BY <2>1 DEF FD
<1> QED BY <1>1 DEF Follows

LEMMA ReadType ==
  ASSUME TypeInv
  PROVE  Read \in Parts
<1>1. CASE pRx # <<>>
  <2>1. pRx \in Seq([buf : RxBuffers \cup {NoBuffer}, data : Parts])
    BY DEF TypeInv, TypeOK, Chains
  <2>2. Len(pRx) \in 1 .. Len(pRx)
    BY <1>1, <2>1
  <2>3. pRx[Len(pRx)] \in [buf : RxBuffers \cup {NoBuffer}, data : Parts]
    BY <2>1, <2>2, Element
  <2> QED BY <1>1, <2>3 DEF Read
<1>2. CASE pRx = <<>>
  <2> DEFINE f == IF given # <<>> THEN given[Len(given)] ELSE 0
  <2>1. f \in 0 .. MaxFrames
    BY Bounds DEF TypeInv, TypeOK
  <2>2. Whole(f) \in Parts
    BY <2>1 DEF Whole, Parts
  <2> QED BY <1>2, <2>2 DEF Read
<1> QED BY <1>1, <1>2

LEMMA DataType ==
  ASSUME TypeInv, NEW k \in 0 .. ETH_RX_DESC_CNT
  PROVE  Data(k) \in Parts
<1>1. CASE k = 0
  BY <1>1, ReadType DEF Data
<1>2. CASE k # 0
  <2>1. k - 1 \in 0 .. ETH_RX_DESC_CNT
    BY <1>2, Bounds
  <2>2. Place(k - 1) \in Descriptors
    BY <2>1, Places DEF TypeInv, TypeOK
  <2> QED BY <1>2, <2>2 DEF Data, TypeInv, TypeOK, Rings
<1> QED BY <1>1, <1>2

LEMMA BuiltRange ==
  ASSUME TypeInv
  PROVE  /\ Built \in 0 .. ETH_RX_DESC_CNT
         /\ \A n \in 0 .. Built : n \in 0 .. ETH_RX_DESC_CNT
  BY Bounds DEF TypeInv, TypeOK, Built

\* The part the MAC has comes after one that is in order itself.
LEMMA LastIsPart ==
  ASSUME ChainInOrder, NEW n \in 0 .. Built, Filled(n), TypeInv
  PROVE  Part(Data(n))
<1>1. CASE n = 0
  BY <1>1 DEF Data, ChainInOrder
<1>2. CASE n # 0
  <2>1. n \in 1 .. n
    BY <1>2, BuiltRange
  <2> QED BY <2>1 DEF Filled, Follows
<1> QED BY <1>1, <1>2

\* A step that changes nothing of this.
LEMMA OrderStutters ==
  ASSUME InOrder, UNCHANGED <<ring, RxDescIdx, RxBuildDescCnt, rxdataready, pRx, wire, given>>,
         (gState' = "READY") = (gState = "READY")
  PROVE  InOrder'
<1>1. NothingYet => NothingYet'
  BY DEF NothingYet, wire
<1>2. Read' = Read /\ Built' = Built /\ \A k : Place(k)' = Place(k)
  BY DEF Read, Built, Place
<1>3. ChainInOrder => ChainInOrder'
  BY <1>2 DEF ChainInOrder
<1>4. \A k : Data(k)' = Data(k)
  BY <1>2 DEF Data
<1>5. ASSUME NEW n, Filled(n) PROVE Filled(n)'
  BY <1>2, <1>4, <1>5 DEF Filled, wire
<1> QED BY <1>1, <1>2, <1>3, <1>5 DEF InOrder

LEMMA ReadOrder ==
  ASSUME TypeInv, Phase, InOrder, stops = 0, HAL_ETH_ReadData
  PROVE  InOrder'
<1> DEFINE N == ETH_RX_DESC_CNT
           d == ring[RxDescIdx]
           e == [buf |-> d.buf, data |-> d.data]
<1>1. /\ pc = "read" /\ gState = "STARTED" /\ gState' = "STARTED"
      /\ UNCHANGED <<given, frames, fifo, dmaPos>>
      /\ RxDescIdx \in Descriptors /\ RxDescIdx' = INCR(RxDescIdx)
      /\ RxBuildDescCnt \in 0 .. N - 1 /\ RxBuildDescCnt' = RxBuildDescCnt + 1
      /\ ~d.own /\ ~rxdataready
  BY Bounds DEF HAL_ETH_ReadData, More, TypeInv, TypeOK, Phase, Modes, wire
<1>2. ChainInOrder
  BY <1>1 DEF InOrder
<1>3. PICK n \in 0 .. Built : Filled(n)
  BY <1>1 DEF InOrder
<1>4. N \in Nat \ {0} /\ Built \in 1 .. N /\ n \in 0 .. N /\ Built' = Built - 1
  BY <1>1, Bounds DEF Built
<1>5. n >= 1
  <2>1. 0 \in 0 .. N - 1 /\ Place(0) = RxDescIdx
    BY <1>1, <1>4, Places
  <2> QED BY <1>1, <1>3, <1>4, <2>1 DEF Filled
<1>6. Data(1) = d.data /\ Data(0) = Read
  BY <1>1, Places DEF Data
<1>7. Follows(Read, d.data)
  <2>1. 1 \in 1 .. n /\ 1 - 1 = 0
    BY <1>4, <1>5
  <2> QED BY <1>3, <1>6, <2>1 DEF Filled
<1>8. FD(d.data) \/ pRx # <<>>
  BY <1>7, Wholes DEF Follows, Read
<1>9. /\ pRx' = Append(pRx, e) /\ rxdataready' = LD(d.data)
      /\ ring' = [ring EXCEPT ![RxDescIdx].buf = NoBuffer]
  BY <1>8 DEF HAL_ETH_ReadData
<1>10. /\ Len(pRx) \in Nat /\ DOMAIN pRx = 1 .. Len(pRx)
       /\ DOMAIN pRx' = 1 .. Len(pRx) + 1 /\ Len(pRx') = Len(pRx) + 1
       /\ \A k \in 1 .. Len(pRx) : pRx'[k] = pRx[k]
       /\ pRx'[Len(pRx) + 1] = e
       /\ pRx' # <<>> /\ (pRx = <<>> => Len(pRx) = 0)
  <2>1. e \in [buf : RxBuffers \cup {NoBuffer}, data : Parts]
    BY <1>1 DEF TypeInv, TypeOK, Rings
  <2>2. pRx \in Seq([buf : RxBuffers \cup {NoBuffer}, data : Parts])
    BY DEF TypeInv, TypeOK, Chains
  <2>3. Append(pRx, e) # <<>>
    <3>1. Len(Append(pRx, e)) = Len(pRx) + 1 /\ Len(pRx) \in Nat
      BY <2>1, <2>2, Appended, Element
    <3>2. Len(Append(pRx, e)) # 0
      BY <3>1
    <3>3. Len(<<>>) = 0
      OBVIOUS
    <3> QED BY <3>2, <3>3, Zenon
  <2>4. pRx = <<>> => Len(pRx) = 0
    OBVIOUS
  <2> QED BY <1>9, <2>1, <2>2, <2>3, <2>4, Appended, Element
<1>11. Read' = d.data /\ d.data \in Parts /\ Read \in Parts
  <2>1. d.data \in Parts
    BY <1>1 DEF TypeInv, TypeOK, Rings
  <2> QED BY <1>10, <2>1, ReadType DEF Read
<1>12. ChainInOrder'
  <2>1. Part(Read') /\ rxdataready' = (pRx' # <<>> /\ LD(Read'))
    <3>1. LD(d.data) = (pRx' # <<>> /\ LD(d.data))
      BY <1>10, Zenon DEF LD
    <3>2. Part(d.data)
      BY <1>7 DEF Follows
    <3> QED BY <1>9, <1>11, <3>1, <3>2
  <2>2. CASE pRx = <<>>
    <3>1. LD(Read) /\ d.data.part = 1 /\ Read.frame < d.data.frame
      BY <1>7, <2>2, Wholes DEF Follows, FD, Read
    <3>2. \A k \in DOMAIN pRx' : k = 1 /\ pRx'[k].data = d.data
      BY <1>10, <2>2
    <3>3. d.data = [d.data EXCEPT !.part = 1]
      BY <1>11, <3>1 DEF Parts
    <3>4. \A k \in DOMAIN given : given[k] < d.data.frame
      <4>1. given \in Seq(0 .. MaxFrames) /\ MaxFrames \in Nat
        BY Bounds DEF TypeInv, TypeOK
      <4>2. CASE given # <<>>
        <5>1. Read.frame = given[Len(given)]
          BY <2>2, <4>2, Wholes DEF Read
        <5>2. Len(given) \in DOMAIN given /\ DOMAIN given = 1 .. Len(given) /\ Len(given) \in Nat
          BY <4>1, <4>2
        <5>3. \A k \in DOMAIN given : given[k] \in Nat
          BY <4>1
        <5>4. \A k \in DOMAIN given : k < Len(given) => given[k] < given[Len(given)]
          BY <1>2, <5>2 DEF ChainInOrder
        <5>5. d.data.frame \in Nat
          BY <1>11 DEF Parts
        <5> QED BY <3>1, <5>1, <5>2, <5>3, <5>4, <5>5
      <4>3. CASE given = <<>>
        BY <4>3
      <4> QED BY <4>2, <4>3
    <3> QED BY <1>1, <1>2, <1>10, <1>11, <2>1, <2>2, <3>1, <3>2, <3>3, <3>4 DEF ChainInOrder
  <2>3. CASE pRx # <<>>
    <3>1. d.data = [Read EXCEPT !.part = @ + 1] /\ Read.part = Len(pRx)
      BY <1>1, <1>2, <1>7, <2>3 DEF ChainInOrder, Follows
    <3>2. d.data.part = Len(pRx) + 1 /\ d.data.frame = Read.frame
      BY <1>11, <3>1 DEF Parts
    <3>3. \A k : [d.data EXCEPT !.part = k] = [Read EXCEPT !.part = k]
      BY <1>11, <3>1 DEF Parts
    <3>4. \A k \in 1 .. Len(pRx) : pRx'[k].data = [d.data EXCEPT !.part = k]
      BY <1>2, <1>10, <3>3 DEF ChainInOrder
    <3>5. d.data = [d.data EXCEPT !.part = Len(pRx) + 1]
      BY <1>11, <3>2 DEF Parts
    <3>6. \A k \in DOMAIN pRx' : pRx'[k].data = [d.data EXCEPT !.part = k]
      <4> SUFFICES ASSUME NEW k \in DOMAIN pRx'
                   PROVE  pRx'[k].data = [d.data EXCEPT !.part = k]
        OBVIOUS
      <4>1. k \in 1 .. Len(pRx) \/ k = Len(pRx) + 1
        BY <1>10
      <4>2. CASE k = Len(pRx) + 1
        BY <1>10, <3>5, <4>2
      <4> QED BY <3>4, <4>1, <4>2
    <3> QED BY <1>1, <1>2, <1>10, <1>11, <2>1, <2>3, <3>2, <3>6 DEF ChainInOrder
  <2> QED BY <2>2, <2>3
<1>13. \A k \in 0 .. N - 1 : Place(k)' = Place(k + 1)
  BY <1>1, <1>4 DEF Place, INCR, Descriptors
<1>14. \A i \in Descriptors : ring'[i].own = ring[i].own /\ ring'[i].data = ring[i].data
  BY <1>9 DEF TypeInv, TypeOK, Rings
<1>15. \A k \in 0 .. n - 1 : Data(k)' = Data(k + 1)
  <2> SUFFICES ASSUME NEW k \in 0 .. n - 1 PROVE Data(k)' = Data(k + 1)
    OBVIOUS
  <2>1. CASE k = 0
    BY <1>6, <1>11, <2>1 DEF Data
  <2>2. CASE k # 0
    <3>1. k - 1 \in 0 .. N - 1 /\ k \in 0 .. N /\ (k - 1) + 1 = k /\ k + 1 # 0 /\ (k + 1) - 1 = k
      BY <1>4, <2>2
    <3>2. Place(k - 1)' = Place(k) /\ Place(k) \in Descriptors
      BY <1>1, <1>13, <3>1, Places
    <3> QED BY <1>14, <2>2, <3>1, <3>2 DEF Data
  <2> QED BY <2>1, <2>2
<1>16. Filled(n - 1)'
  <2>1. dmaPos' = Place(n - 1)'
    <3>1. n - 1 \in 0 .. N - 1 /\ (n - 1) + 1 = n
      BY <1>4, <1>5
    <3> QED BY <1>1, <1>3, <1>13, <3>1 DEF Filled
  <2>2. ASSUME NEW k \in 0 .. N - 1
        PROVE  ring'[Place(k)'].own <=> n - 1 <= k /\ k < Built'
    <3>1. Place(k)' = Place(k + 1) /\ Place(k + 1) \in Descriptors
      <4>1. k + 1 \in 0 .. N
        BY <1>4
      <4> QED BY <1>1, <1>13, <4>1, Places
    <3>2. CASE k < N - 1
      <4>1. k + 1 \in 0 .. N - 1
        BY <1>4, <3>2
      <4>2. ring[Place(k + 1)].own <=> n <= k + 1 /\ k + 1 < Built
        BY <1>3, <4>1 DEF Filled
      <4> QED BY <1>4, <1>14, <3>1, <4>2
    <3>3. CASE k = N - 1
      <4>1. Place(k + 1) = RxDescIdx
        <5>1. k + 1 = N
          BY <1>4, <3>3
        <5> QED BY <1>1, <5>1, Places
      <4>2. ~(k < Built')
        BY <1>4, <3>3
      <4> QED BY <1>1, <1>14, <3>1, <4>1, <4>2
    <3> QED BY <1>4, <3>2, <3>3
  <2>3. \A k \in 1 .. n - 1 : Follows(Data(k - 1)', Data(k)')
    <3> SUFFICES ASSUME NEW k \in 1 .. n - 1 PROVE Follows(Data(k - 1)', Data(k)')
      OBVIOUS
    <3>1. k - 1 \in 0 .. n - 1 /\ k \in 0 .. n - 1 /\ (k - 1) + 1 = k /\ k + 1 \in 1 .. n
          /\ (k + 1) - 1 = k
      BY <1>4
    <3>2. Data(k - 1)' = Data(k) /\ Data(k)' = Data(k + 1)
      BY <1>15, <3>1
    <3>3. Follows(Data(k), Data(k + 1))
      BY <1>3, <3>1 DEF Filled
    <3> QED BY <3>2, <3>3
  <2>4. Data(n - 1)' = Data(n)
    <3>1. n - 1 \in 0 .. n - 1 /\ (n - 1) + 1 = n
      BY <1>4, <1>5
    <3> QED BY <1>15, <3>1
  <2> QED BY <1>1, <1>3, <2>1, <2>2, <2>3, <2>4 DEF Filled
<1>17. n - 1 \in 0 .. Built'
  BY <1>3, <1>4, <1>5
<1> QED BY <1>1, <1>12, <1>16, <1>17 DEF InOrder

LEMMA BuildOrder ==
  ASSUME TypeInv, Phase, InOrder, stops = 0, ETH_UpdateDescriptor
  PROVE  InOrder'
<1> DEFINE N == ETH_RX_DESC_CNT
<1>1. /\ gState # "READY" /\ gState' = gState
      /\ UNCHANGED <<given, frames, fifo, dmaPos, RxDescIdx, pRx, rxdataready>>
      /\ RxDescIdx \in Descriptors /\ RxBuildDescIdx \in Descriptors
      /\ RxBuildDescCnt \in 1 .. N /\ RxBuildDescCnt' = RxBuildDescCnt - 1
      /\ RxDescIdx = IF End < N THEN End ELSE End - N
  BY Bounds DEF ETH_UpdateDescriptor, TypeInv, TypeOK, Phase, Modes, InStep, wire
<1>2. ChainInOrder
  BY <1>1 DEF InOrder
<1>3. PICK n \in 0 .. Built : Filled(n)
  BY <1>1 DEF InOrder
<1>4. /\ N \in Nat \ {0} /\ Built \in 0 .. N - 1 /\ n \in 0 .. N - 1 /\ n <= Built
      /\ Built' = Built + 1
  BY <1>1, Bounds DEF Built
<1>5. RxBuildDescIdx = Place(Built)
  BY <1>1, <1>4 DEF Place, Built, End, Descriptors
<1>6. \A i \in Descriptors :
        /\ ring'[i].own = IF i = RxBuildDescIdx THEN TRUE ELSE ring[i].own
        /\ i # RxBuildDescIdx => ring'[i].data = ring[i].data
  <2>1. /\ ring \in Rings
        /\ ring' = [ring EXCEPT ![RxBuildDescIdx] = [own |-> TRUE, buf |-> Given, data |-> Blank]]
    BY UpdateDescriptorType DEF TypeInv, TypeOK
  <2> QED BY <2>1 DEF Rings
<1>7. /\ \A k : Place(k)' = Place(k)
      /\ Read' = Read
  BY <1>1 DEF Place, Read
<1>8. \A k \in 0 .. n : Data(k)' = Data(k)
  <2> SUFFICES ASSUME NEW k \in 0 .. n PROVE Data(k)' = Data(k)
    OBVIOUS
  <2>1. CASE k = 0
    BY <1>7, <2>1 DEF Data
  <2>2. CASE k # 0
    <3>1. k - 1 \in 0 .. N - 1 /\ k - 1 \in 0 .. N /\ k - 1 # Built /\ Built \in 0 .. N - 1
      BY <1>4, <2>2
    <3>2. Place(k - 1) \in Descriptors /\ Place(k - 1) # RxBuildDescIdx
      BY <1>1, <1>5, <3>1, Places
    <3> QED BY <1>6, <1>7, <2>2, <3>2 DEF Data
  <2> QED BY <2>1, <2>2
<1>9. Filled(n)'
  <2>1. dmaPos' = Place(n)'
    BY <1>1, <1>3, <1>7 DEF Filled
  <2>2. ASSUME NEW k \in 0 .. N - 1
        PROVE  ring'[Place(k)'].own <=> n <= k /\ k < Built'
    <3>1. Place(k) \in Descriptors /\ (Place(k) = RxBuildDescIdx => k = Built)
      <4>1. k \in 0 .. N
        BY <1>4
      <4> QED BY <1>1, <1>4, <1>5, <4>1, Places
    <3>2. ring[Place(k)].own <=> n <= k /\ k < Built
      BY <1>3 DEF Filled
    <3>3. CASE k = Built
      <4>1. ring'[Place(k)'].own
        BY <1>1, <1>5, <1>6, <1>7, <3>3
      <4>2. n <= k /\ k < Built'
        BY <1>4, <3>3
      <4> QED BY <4>1, <4>2
    <3>4. CASE k # Built
      <4>1. ring'[Place(k)'].own = ring[Place(k)].own
        BY <1>6, <1>7, <3>1, <3>4
      <4> QED BY <1>4, <3>2, <3>4, <4>1
    <3> QED BY <3>3, <3>4
  <2>3. \A k \in 1 .. n : Follows(Data(k - 1)', Data(k)')
    <3> SUFFICES ASSUME NEW k \in 1 .. n PROVE Follows(Data(k - 1)', Data(k)')
      OBVIOUS
    <3>1. k - 1 \in 0 .. n /\ k \in 0 .. n
      BY <1>4
    <3>2. Data(k - 1)' = Data(k - 1) /\ Data(k)' = Data(k)
      BY <1>8, <3>1
    <3> QED BY <1>3, <3>2 DEF Filled
  <2>4. Data(n)' = Data(n)
    BY <1>4, <1>8
  <2> QED BY <1>1, <1>3, <2>1, <2>2, <2>3, <2>4 DEF Filled
<1>10. ChainInOrder'
  BY <1>1, <1>2, <1>7 DEF ChainInOrder
<1>11. n \in 0 .. Built'
  BY <1>4
<1> QED BY <1>1, <1>9, <1>10, <1>11 DEF InOrder

LEMMA DeliverOrder ==
  ASSUME TypeInv, Phase, InOrder, stops = 0, Deliver
  PROVE  InOrder'
<1>1. /\ gState # "READY" /\ gState' = gState /\ pRx' = <<>> /\ ~rxdataready'
      /\ given' = Append(given, pRx[Len(pRx)].data.frame)
      /\ UNCHANGED <<ring, frames, fifo, dmaPos, RxDescIdx, RxBuildDescCnt>>
      /\ rxdataready
  BY DEF Deliver, TypeInv, Phase, Modes, wire
<1>2. ChainInOrder
  BY <1>1 DEF InOrder
<1>3. PICK n \in 0 .. Built : Filled(n)
  BY <1>1 DEF InOrder
<1>4. pRx # <<>> /\ LD(Read)
  BY <1>1, <1>2 DEF ChainInOrder
<1>5. given' = Append(given, Read.frame) /\ Read.frame \in 0 .. MaxFrames
  BY <1>1, <1>4, ReadType DEF Read, Parts
<1>6. /\ Len(given) \in Nat /\ DOMAIN given = 1 .. Len(given)
      /\ Len(given') = Len(given) + 1 /\ DOMAIN given' = 1 .. Len(given) + 1
      /\ given'[Len(given) + 1] = Read.frame
      /\ \A k \in 1 .. Len(given) : given'[k] = given[k]
  BY <1>5, Appended, Element DEF TypeInv, TypeOK
<1>7. given' # <<>>
  <2>1. Len(given') # 0
    BY <1>6
  <2>2. Len(<<>>) = 0
    OBVIOUS
  <2> QED BY <2>1, <2>2, Zenon
<1>8. Read' = Whole(Read.frame)
  BY <1>1, <1>6, <1>7 DEF Read
<1>9. ChainInOrder'
  <2>1. Part(Read')
    BY <1>8, Wholes
  <2>2. ASSUME NEW j \in DOMAIN given', NEW k \in DOMAIN given', j < k
        PROVE  given'[j] < given'[k]
    <3>1. j \in 1 .. Len(given) /\ given'[j] = given[j]
      BY <1>6, <2>2
    <3>2. CASE k = Len(given) + 1
      BY <1>2, <1>4, <1>6, <3>1, <3>2 DEF ChainInOrder
    <3>3. CASE k # Len(given) + 1
      <4>1. k \in 1 .. Len(given) /\ given'[k] = given[k]
        BY <1>6, <3>3
      <4> QED BY <1>2, <1>6, <2>2, <3>1, <4>1 DEF ChainInOrder
    <3> QED BY <3>2, <3>3
  <2>3. DOMAIN pRx' = {}
    BY <1>1
  <2>4. rxdataready' = FALSE
    BY <1>1 DEF Deliver
  <2> QED BY <1>1, <2>1, <2>2, <2>3, <2>4 DEF ChainInOrder
<1>10. Built' = Built /\ \A k : Place(k)' = Place(k)
  BY <1>1 DEF Built, Place
<1>11. \A k : k # 0 => Data(k)' = Data(k)
  BY <1>1, <1>10 DEF Data
<1>12. Data(0) = Read /\ Data(0)' = Whole(Read.frame)
  BY <1>8 DEF Data
<1>13. \A k, b : Follows(Data(k), b) => Follows(Data(k)', b)
  BY <1>4, <1>11, <1>12, FollowsWhole
<1>14. \A k : LD(Data(k)) => LD(Data(k)') /\ Data(k)'.frame = Data(k).frame
  BY <1>4, <1>11, <1>12, Wholes
<1>15. \A k \in 1 .. n : Follows(Data(k - 1)', Data(k)')
  <2> SUFFICES ASSUME NEW k \in 1 .. n PROVE Follows(Data(k - 1)', Data(k)')
    OBVIOUS
  <2>1. Follows(Data(k - 1), Data(k)) /\ k # 0
    BY <1>3 DEF Filled
  <2> QED BY <1>11, <1>13, <2>1
<1>16. Filled(n)'
  <2>1. dmaPos' = Place(n)'
    BY <1>1, <1>3, <1>10 DEF Filled
  <2>2. \A k \in 0 .. ETH_RX_DESC_CNT - 1 : ring'[Place(k)'].own <=> n <= k /\ k < Built'
    BY <1>1, <1>3, <1>10 DEF Filled
  <2>3. IF fifo' = Blank THEN LD(Data(n)') /\ Data(n)'.frame <= frames'
        ELSE Follows(Data(n)', fifo') /\ fifo'.frame <= frames'
    BY <1>1, <1>3, <1>13, <1>14 DEF Filled
  <2> QED BY <1>15, <2>1, <2>2, <2>3 DEF Filled
<1> QED BY <1>1, <1>3, <1>9, <1>10, <1>16 DEF InOrder

LEMMA StoreOrder ==
  ASSUME TypeInv, Phase, InOrder, stops = 0, DmaStore
  PROVE  InOrder'
<1> DEFINE N == ETH_RX_DESC_CNT
<1>1. /\ fifo # Blank /\ ring[dmaPos].own /\ dmaPos' = INCR(dmaPos) /\ dmaPos \in Descriptors
      /\ ring' = [ring EXCEPT ![dmaPos].own = FALSE, ![dmaPos].data = fifo]
      /\ fifo' = IF LD(fifo) THEN Blank ELSE [fifo EXCEPT !.part = @ + 1]
      /\ UNCHANGED <<gState, given, frames, RxDescIdx, RxBuildDescCnt, pRx, rxdataready>>
      /\ RxDescIdx \in Descriptors /\ fifo \in Parts
  BY DEF DmaStore, TypeInv, TypeOK, driver
<1>2. gState # "READY" /\ ChainInOrder
  BY <1>1 DEF InOrder, NothingYet
<1>3. PICK n \in 0 .. Built : Filled(n)
  BY <1>2 DEF InOrder
<1>4. /\ N \in Nat \ {0} /\ Built \in 0 .. N /\ n \in 0 .. N /\ Built' = Built
      /\ n <= Built
  BY <1>1, <1>3, BuiltRange, Bounds DEF Built
<1>5. dmaPos = Place(n) /\ Follows(Data(n), fifo) /\ fifo.frame <= frames
  BY <1>1, <1>3 DEF Filled
<1>6. n < Built
  <2>1. CASE n = N
    <3>1. Place(n) = Place(0) /\ 0 \in 0 .. N - 1
      BY <1>1, <1>4, <2>1, Places
    <3>2. ring[Place(0)].own <=> n <= 0 /\ 0 < Built
      BY <1>3, <3>1 DEF Filled
    <3> QED BY <1>1, <1>4, <1>5, <2>1, <3>1, <3>2
  <2>2. CASE n # N
    <3>1. n \in 0 .. N - 1
      BY <1>4, <2>2
    <3>2. ring[Place(n)].own <=> n <= n /\ n < Built
      BY <1>3, <3>1 DEF Filled
    <3> QED BY <1>1, <1>5, <3>2
  <2> QED BY <2>1, <2>2
<1>7. n \in 0 .. N - 1 /\ n + 1 \in 0 .. N /\ n + 1 \in 0 .. Built'
  BY <1>4, <1>6
<1>8. \A i \in Descriptors :
        /\ ring'[i].own = IF i = dmaPos THEN FALSE ELSE ring[i].own
        /\ ring'[i].data = IF i = dmaPos THEN fifo ELSE ring[i].data
  BY <1>1 DEF TypeInv, TypeOK, Rings
<1>9. Read' = Read /\ \A k : Place(k)' = Place(k)
  BY <1>1 DEF Read, Place
<1>10. \A k \in 0 .. n : Data(k)' = Data(k)
  <2> SUFFICES ASSUME NEW k \in 0 .. n PROVE Data(k)' = Data(k)
    OBVIOUS
  <2>1. CASE k = 0
    BY <1>9, <2>1 DEF Data
  <2>2. CASE k # 0
    <3>1. k - 1 \in 0 .. N - 1 /\ k - 1 \in 0 .. N /\ k - 1 # n
      BY <1>4, <1>7, <2>2
    <3>2. Place(k - 1) \in Descriptors /\ Place(k - 1) # dmaPos
      BY <1>1, <1>5, <1>7, <3>1, Places
    <3> QED BY <1>8, <1>9, <2>2, <3>2 DEF Data
  <2> QED BY <2>1, <2>2
<1>11. Data(n + 1)' = fifo
  <2>1. n + 1 # 0 /\ (n + 1) - 1 = n
    BY <1>7
  <2>2. ring'[Place(n)'].data = fifo
    BY <1>1, <1>5, <1>8, <1>9
  <2> QED BY <2>1, <2>2 DEF Data
<1>12. Filled(n + 1)'
  <2>1. dmaPos' = Place(n + 1)'
    BY <1>1, <1>5, <1>7, <1>9, Places
  <2>2. ASSUME NEW k \in 0 .. N - 1
        PROVE  ring'[Place(k)'].own <=> n + 1 <= k /\ k < Built'
    <3>1. Place(k) \in Descriptors /\ (Place(k) = dmaPos => k = n)
      <4>1. k \in 0 .. N
        BY <1>4
      <4> QED BY <1>1, <1>5, <1>7, <4>1, Places
    <3>2. ring[Place(k)].own <=> n <= k /\ k < Built
      BY <1>3 DEF Filled
    <3>3. CASE k = n
      <4>1. ~ring'[Place(k)'].own
        BY <1>1, <1>5, <1>8, <1>9, <3>3
      <4>2. ~(n + 1 <= k)
        BY <1>7, <3>3
      <4> QED BY <4>1, <4>2
    <3>4. CASE k # n
      <4>1. ring'[Place(k)'].own = ring[Place(k)].own
        BY <1>8, <1>9, <3>1, <3>4
      <4>2. n <= k <=> n + 1 <= k
        BY <1>7, <3>4
      <4> QED BY <1>4, <3>2, <4>1, <4>2
    <3> QED BY <3>3, <3>4
  <2>3. \A k \in 1 .. n + 1 : Follows(Data(k - 1)', Data(k)')
    <3> SUFFICES ASSUME NEW k \in 1 .. n + 1 PROVE Follows(Data(k - 1)', Data(k)')
      OBVIOUS
    <3>1. CASE k = n + 1
      <4>1. k - 1 = n /\ n \in 0 .. n
        BY <1>7, <3>1
      <4> QED BY <1>5, <1>10, <1>11, <3>1, <4>1
    <3>2. CASE k # n + 1
      <4>1. k \in 1 .. n /\ k - 1 \in 0 .. n /\ k \in 0 .. n
        BY <1>7, <3>2
      <4>2. Data(k - 1)' = Data(k - 1) /\ Data(k)' = Data(k)
        BY <1>10, <4>1
      <4> QED BY <1>3, <4>1, <4>2 DEF Filled
    <3> QED BY <3>1, <3>2
  <2>4. CASE LD(fifo)
    BY <1>1, <1>5, <1>11, <2>1, <2>2, <2>3, <2>4 DEF Filled
  <2>5. CASE ~LD(fifo)
    <3>1. fifo' = [fifo EXCEPT !.part = @ + 1]
      BY <1>1, <2>5
    <3>2. fifo.part # fifo.parts /\ fifo.part \in 1 .. fifo.parts /\ fifo.parts \in Nat
          /\ fifo.part \in Nat
      BY <1>1, <1>5, <2>5 DEF LD, Follows, Part, Parts
    <3>3. fifo'.part = fifo.part + 1 /\ fifo'.parts = fifo.parts /\ fifo'.frame = fifo.frame
      BY <1>1, <3>1 DEF Parts
    <3>4. Part(fifo') /\ fifo' # Blank
      BY <3>2, <3>3 DEF Part, Blank
    <3>5. Follows(fifo, fifo')
      BY <2>5, <3>1, <3>4 DEF Follows
    <3>6. fifo'.frame <= frames'
      BY <1>1, <1>5, <3>3
    <3> QED BY <1>11, <2>1, <2>2, <2>3, <3>4, <3>5, <3>6 DEF Filled
  <2> QED BY <2>4, <2>5
<1>13. ChainInOrder'
  BY <1>1, <1>2, <1>9 DEF ChainInOrder
<1> QED BY <1>1, <1>2, <1>7, <1>12, <1>13 DEF InOrder

\* The wire: what the MAC has changes, and nothing else.
LEMMA WireOrder ==
  ASSUME TypeInv, InOrder, FrameArrives \/ FrameMissed
  PROVE  InOrder'
<1>1. UNCHANGED <<gState, ring, RxDescIdx, RxBuildDescCnt, dmaPos, pRx, rxdataready, given>>
  BY DEF FrameArrives, FrameMissed, driver
<1>2. gState # "READY"
  BY DEF FrameArrives, FrameMissed, FD, Blank, InOrder, NothingYet
<1>3. ChainInOrder
  BY <1>2 DEF InOrder
<1>4. PICK n \in 0 .. Built : Filled(n)
  BY <1>2 DEF InOrder
<1>5. Data(n) \in Parts /\ frames \in Nat
  BY BuiltRange, DataType, Bounds DEF TypeInv, TypeOK
<1>6. Built' = Built /\ Read' = Read /\ \A k : Place(k)' = Place(k)
  BY <1>1 DEF Built, Read, Place
<1>7. ChainInOrder' /\ \A k : Data(k)' = Data(k)
  BY <1>1, <1>3, <1>6 DEF ChainInOrder, Data
<1>8. IF fifo' = Blank THEN LD(Data(n)) /\ Data(n).frame <= frames'
      ELSE Follows(Data(n), fifo') /\ fifo'.frame <= frames'
  <2>1. CASE FrameArrives
    <3>1. PICK p \in 1 .. env.maxParts :
            fifo' = [frame |-> frames + 1, part |-> 1, parts |-> p]
      BY <2>1 DEF FrameArrives
    <3>2. frames' = frames + 1 /\ LD(Data(n)) /\ Data(n).frame <= frames
      BY <1>4, <2>1 DEF FrameArrives, Filled
    <3>3. fifo' # Blank /\ Part(fifo') /\ FD(fifo') /\ Data(n).frame < fifo'.frame
      BY <1>5, <3>1, <3>2 DEF Blank, Part, FD, Parts
    <3>4. fifo'.frame <= frames'
      BY <1>5, <3>1, <3>2
    <3> QED BY <3>2, <3>3, <3>4 DEF Follows
  <2>2. CASE FrameMissed
    <3>1. fifo' = Blank /\ frames' = frames /\ FD(fifo) /\ fifo # Blank /\ fifo \in Parts
      BY <2>2 DEF FrameMissed, FD, Blank, TypeInv, TypeOK
    <3>2. Follows(Data(n), fifo) /\ fifo.frame <= frames /\ Part(Data(n))
      BY <1>3, <1>4, <3>1, LastIsPart DEF Filled
    <3>3. LD(Data(n)) /\ Data(n).frame < fifo.frame
      BY <1>5, <3>1, <3>2, FirstFollows
    <3> QED BY <1>5, <3>1, <3>2, <3>3 DEF Parts
  <2> QED BY <2>1, <2>2
<1>9. Filled(n)'
  BY <1>1, <1>4, <1>6, <1>7, <1>8 DEF Filled
<1> QED BY <1>1, <1>2, <1>4, <1>6, <1>7, <1>9 DEF InOrder

LEMMA LinkOrder ==
  ASSUME TypeInv, InOrder, LinkCheck, stops' = 0
  PROVE  InOrder'
<1>1. UNCHANGED <<RxDescIdx, rxdataready, pRx, ring, wire, given>>
  BY DEF LinkCheck
<1>2. CASE HAL_ETH_Stop
  BY <1>2 DEF HAL_ETH_Stop, TypeInv, TypeOK
<1>3. CASE HAL_ETH_Start
  <2>1. NothingYet /\ gState' = "BUSY" /\ RxBuildDescCnt' = ETH_RX_DESC_CNT
    BY <1>3 DEF HAL_ETH_Start, InOrder
  <2>2. pRx' = <<>> /\ given' = <<>> /\ fifo' = Blank /\ Built' = 0
    BY <1>1, <2>1, Bounds DEF NothingYet, wire, Built
  <2>3. Read' = Whole(0) /\ Data(0)' = Read'
    BY <2>2 DEF Read, Data
  <2>4. ChainInOrder'
    <3>1. DOMAIN pRx' = {} /\ DOMAIN given' = {}
      BY <2>2
    <3>2. rxdataready' = FALSE
      BY <1>1, <2>1 DEF NothingYet, TypeInv, TypeOK
    <3> QED BY <2>2, <2>3, <3>1, <3>2, Wholes DEF ChainInOrder
  <2>5. Filled(0)'
    <3>1. dmaPos' = Place(0)'
      BY <1>1, <2>1, Bounds DEF NothingYet, wire, Place
    <3>2. ASSUME NEW k \in 0 .. ETH_RX_DESC_CNT - 1
          PROVE  ring'[Place(k)'].own <=> 0 <= k /\ k < Built'
      <4>1. Place(k)' = k /\ k \in Descriptors
        BY <1>1, <2>1, Bounds DEF NothingYet, Place, Descriptors
      <4> QED BY <1>1, <2>1, <2>2, <4>1 DEF NothingYet
    <3>3. LD(Data(0)') /\ Data(0)'.frame <= frames'
      BY <1>1, <2>3, Wholes DEF wire, TypeInv, TypeOK
    <3> QED BY <2>2, <3>1, <3>2, <3>3 DEF Filled
  <2>6. 0 \in 0 .. Built'
    BY <2>2
  <2> QED BY <2>1, <2>4, <2>5, <2>6 DEF InOrder
<1>4. CASE UNCHANGED <<gState, RxBuildDescCnt>>
  BY <1>1, <1>4, OrderStutters
<1> QED BY <1>2, <1>3, <1>4 DEF LinkCheck

LEMMA OrderKept ==
  ASSUME TypeInv, Phase, stops = 0 => InOrder, [Next]_vars
  PROVE  stops' = 0 => InOrder'
<1> SUFFICES ASSUME stops' = 0 PROVE InOrder'
  OBVIOUS
<1>1. stops = 0
  BY DEF Next, MainLoop, HardFault_Handler, LinkCheck, HAL_ETH_Stop, HAL_ETH_Start,
         FrameArrives, DmaStore, FrameMissed, low_level_input, HAL_ETH_ReadData, ReadDone,
         ETH_UpdateDescriptor, UpdateDone, Deliver, LwipFrees, sys_check_timeouts, vars,
         TypeInv, TypeOK
<1>2. CASE HAL_ETH_ReadData
  BY <1>1, <1>2, ReadOrder
<1>3. CASE ETH_UpdateDescriptor
  BY <1>1, <1>3, BuildOrder
<1>4. CASE Deliver
  BY <1>1, <1>4, DeliverOrder
<1>5. CASE DmaStore
  BY <1>1, <1>5, StoreOrder
<1>6. CASE FrameArrives \/ FrameMissed
  BY <1>1, <1>6, WireOrder
<1>7. CASE LinkCheck
  BY <1>1, <1>7, LinkOrder
<1>8. CASE \/ low_level_input \/ ReadDone \/ UpdateDone \/ LwipFrees \/ sys_check_timeouts
           \/ UNCHANGED vars
  <2>1. UNCHANGED <<ring, RxDescIdx, RxBuildDescCnt, rxdataready, pRx, wire, given>>
    BY <1>8 DEF low_level_input, ReadDone, UpdateDone, LwipFrees, sys_check_timeouts, vars,
                driver
  <2>2. (gState' = "READY") = (gState = "READY")
    BY <1>8 DEF low_level_input, ReadDone, UpdateDone, LwipFrees, sys_check_timeouts, vars,
                driver
  <2> QED BY <1>1, <2>1, <2>2, OrderStutters
<1> QED BY <1>2, <1>3, <1>4, <1>5, <1>6, <1>7, <1>8 DEF Next, MainLoop, HardFault_Handler

LEMMA OrderWhole ==
  ASSUME TypeInv, Phase, InOrder, stops = 0
  PROVE  WholeFrames
<1> SUFFICES ASSUME pc = "deliver" PROVE WholeFrames
  BY DEF WholeFrames
<1>1. ChainInOrder /\ rxdataready
  BY DEF InOrder, Phase, Modes, TypeInv
<1>2. pRx # <<>> /\ LD(Read) /\ Read = pRx[Len(pRx)].data /\ Read.part = Len(pRx)
  BY <1>1 DEF ChainInOrder, Read
<1>3. \A k \in DOMAIN pRx :
        pRx[k].data = [frame |-> Read.frame, part |-> k, parts |-> Len(pRx)]
  <2>1. Read \in Parts /\ Read.parts = Len(pRx)
    BY <1>2, ReadType DEF LD
  <2>2. \A k : [Read EXCEPT !.part = k] = [frame |-> Read.frame, part |-> k, parts |-> Len(pRx)]
    BY <2>1 DEF Parts
  <2> QED BY <1>1, <2>2 DEF ChainInOrder
<1>4. \A k \in DOMAIN given : given[k] < Read.frame /\ given[k] \in Nat
  <2>1. given \in Seq(0 .. MaxFrames)
    BY DEF TypeInv, TypeOK
  <2>2. \A k \in DOMAIN given : given[k] \in 0 .. MaxFrames
    BY <2>1, Element
  <2> QED BY <1>1, <1>2, <2>2, Bounds DEF ChainInOrder
<1>5. Read.frame \in Nat
  BY ReadType DEF Parts
<1>6. Read.frame \notin {given[k] : k \in DOMAIN given}
  BY <1>4, <1>5
<1> QED BY <1>2, <1>3, <1>4, <1>6 DEF WholeFrames
-----------------------------------------------------------------------------
(* Frames of one descriptor, however often the MAC is restarted. *)

\* A descriptor that holds a frame and the buffer it is in.
Waiting(i) == ~ring[i].own /\ ring[i].buf # NoBuffer
Single(d) == d.part = 1 /\ d.parts = 1
IsNew(f) == f <= frames /\ \A k \in DOMAIN given : given[k] # f

\* What a descriptor, the chain and the MAC have are different frames, of one
\* part each, and none has been delivered.
RingNew ==
  /\ \A i \in Descriptors : Waiting(i) => Single(ring[i].data) /\ IsNew(ring[i].data.frame)
  /\ \A i, j \in Descriptors :
       Waiting(i) /\ Waiting(j) /\ ring[i].data.frame = ring[j].data.frame => i = j
ChainNew == pRx # <<>> =>
  /\ rxdataready /\ Len(pRx) = 1 /\ Single(pRx[1].data) /\ IsNew(pRx[1].data.frame)
  /\ \A i \in Descriptors : Waiting(i) => ring[i].data.frame # pRx[1].data.frame
FifoNew == fifo # Blank =>
  /\ Single(fifo) /\ IsNew(fifo.frame)
  /\ \A i \in Descriptors : Waiting(i) => ring[i].data.frame # fifo.frame
  /\ pRx # <<>> => pRx[1].data.frame # fifo.frame
SingleParts ==
  /\ RingNew /\ ChainNew /\ FifoNew
  /\ \A k \in DOMAIN given : given[k] <= frames

LEMMA ReadSingle ==
  ASSUME TypeInv, SingleParts, HAL_ETH_ReadData, pc' # "fault"
  PROVE  SingleParts'
<1> DEFINE d == ring[RxDescIdx]
           e == [buf |-> d.buf, data |-> d.data]
<1>1. UNCHANGED <<given, frames, fifo>> /\ ~rxdataready /\ pRx = <<>> /\ ~d.own
      /\ RxDescIdx \in Descriptors
  BY DEF HAL_ETH_ReadData, More, wire, SingleParts, ChainNew, TypeInv, TypeOK
<1>2. \A f : IsNew(f)' = IsNew(f)
  BY <1>1 DEF IsNew
<1>3. CASE ~FD(d.data)
  <2>1. UNCHANGED <<pRx, ring, rxdataready>>
    BY <1>1, <1>3 DEF HAL_ETH_ReadData
  <2>2. \A i : Waiting(i)' = Waiting(i)
    BY <2>1 DEF Waiting
  <2> QED BY <1>1, <1>2, <2>1, <2>2 DEF SingleParts, RingNew, ChainNew, FifoNew
<1>4. CASE FD(d.data)
  <2>1. /\ pRx' = Append(pRx, e) /\ rxdataready' = LD(d.data) /\ d.buf # NoBuffer
        /\ ring' = [ring EXCEPT ![RxDescIdx].buf = NoBuffer]
    BY <1>4 DEF HAL_ETH_ReadData
  <2>2. Waiting(RxDescIdx)
    BY <1>1, <2>1 DEF Waiting
  <2>3. pRx' = <<e>> /\ Len(pRx') = 1 /\ pRx'[1].data = d.data
    BY <1>1, <2>1
  <2>4. \A i \in Descriptors :
          /\ Waiting(i)' <=> Waiting(i) /\ i # RxDescIdx
          /\ ring'[i].data = ring[i].data
    BY <2>1 DEF Waiting, TypeInv, TypeOK, Rings
  <2>5. Single(d.data) /\ IsNew(d.data.frame) /\ LD(d.data)
    BY <1>1, <2>2 DEF SingleParts, RingNew, Single, LD, Blank
  <2>6. RingNew'
    BY <1>2, <2>4 DEF SingleParts, RingNew
  <2>7. ChainNew'
    BY <1>1, <1>2, <2>1, <2>2, <2>3, <2>4, <2>5 DEF SingleParts, RingNew, ChainNew
  <2>8. FifoNew'
    BY <1>1, <1>2, <2>2, <2>3, <2>4 DEF SingleParts, FifoNew
  <2> QED BY <1>1, <2>6, <2>7, <2>8 DEF SingleParts
<1> QED BY <1>3, <1>4

LEMMA BuildSingle ==
  ASSUME TypeInv, SingleParts, ETH_UpdateDescriptor
  PROVE  SingleParts'
<1>1. UNCHANGED <<given, frames, fifo, pRx, rxdataready>>
  BY DEF ETH_UpdateDescriptor, wire
<1>2. \A f : IsNew(f)' = IsNew(f)
  BY <1>1 DEF IsNew
<1>3. \A i \in Descriptors :
        Waiting(i)' => Waiting(i) /\ ring'[i].data = ring[i].data
  <2>1. /\ ring \in Rings
        /\ ring' = [ring EXCEPT ![RxBuildDescIdx] = [own |-> TRUE, buf |-> Given, data |-> Blank]]
    BY UpdateDescriptorType DEF TypeInv, TypeOK
  <2> QED BY <2>1 DEF Rings, Waiting
<1> QED BY <1>1, <1>2, <1>3 DEF SingleParts, RingNew, ChainNew, FifoNew

LEMMA StoreSingle ==
  ASSUME TypeInv, SingleParts, DmaStore
  PROVE  SingleParts'
<1>1. UNCHANGED <<given, frames, pRx, rxdataready>> /\ fifo # Blank /\ dmaPos \in Descriptors
  BY DEF DmaStore, driver, TypeInv, TypeOK
<1>2. \A f : IsNew(f)' = IsNew(f)
  BY <1>1 DEF IsNew
<1>3. \A i \in Descriptors :
        /\ ring'[i].data = IF i = dmaPos THEN fifo ELSE ring[i].data
        /\ i # dmaPos => Waiting(i)' = Waiting(i)
  BY DEF DmaStore, Waiting, TypeInv, TypeOK, Rings
<1>4. Single(fifo) /\ LD(fifo) /\ IsNew(fifo.frame)
  BY <1>1 DEF SingleParts, FifoNew, Single, LD
<1>5. fifo' = Blank
  BY <1>4 DEF DmaStore
<1>6. RingNew'
  BY <1>1, <1>2, <1>3, <1>4 DEF SingleParts, RingNew, FifoNew
<1>7. ChainNew'
  BY <1>1, <1>2, <1>3 DEF SingleParts, ChainNew, FifoNew
<1> QED BY <1>1, <1>5, <1>6, <1>7 DEF SingleParts, FifoNew

LEMMA WireSingle ==
  ASSUME TypeInv, SingleParts, env.maxParts = 1, FrameArrives \/ FrameMissed
  PROVE  SingleParts'
<1>1. UNCHANGED <<ring, pRx, rxdataready, given>>
  BY DEF FrameArrives, FrameMissed, driver
<1>2. \A i : Waiting(i)' = Waiting(i)
  BY <1>1 DEF Waiting
<1>3. CASE FrameMissed
  <2>1. frames' = frames /\ fifo' = Blank
    BY <1>3 DEF FrameMissed
  <2>2. \A f : IsNew(f)' = IsNew(f)
    BY <1>1, <2>1 DEF IsNew
  <2> QED BY <1>1, <1>2, <2>1, <2>2 DEF SingleParts, RingNew, ChainNew, FifoNew
<1>4. CASE FrameArrives
  <2>1. PICK n \in 1 .. env.maxParts : fifo' = [frame |-> frames + 1, part |-> 1, parts |-> n]
    BY <1>4 DEF FrameArrives
  <2>2. n = 1 /\ frames' = frames + 1 /\ frames \in Nat
    BY <1>4, Bounds DEF FrameArrives, TypeInv, TypeOK
  <2>3. \A k \in DOMAIN given : given[k] <= frames /\ given[k] \in Nat
    <3>1. given \in Seq(0 .. MaxFrames)
      BY DEF TypeInv, TypeOK
    <3>2. \A k \in DOMAIN given : given[k] \in 0 .. MaxFrames
      BY <3>1, Element
    <3> QED BY <3>2, Bounds DEF SingleParts
  <2>4. \A f \in Nat : IsNew(f) => IsNew(f)' /\ f # frames + 1
    BY <1>1, <2>2 DEF IsNew
  <2>5. Single(fifo)' /\ IsNew(fifo.frame)'
    BY <1>1, <2>1, <2>2, <2>3 DEF Single, IsNew
  <2>6. \A i \in Descriptors : ring[i].data.frame \in Nat
    BY Bounds DEF TypeInv, TypeOK, Rings, Parts
  <2>7. pRx # <<>> => pRx[1].data.frame \in Nat
    <3>1. pRx \in Seq([buf : RxBuffers \cup {NoBuffer}, data : Parts])
      BY DEF TypeInv, TypeOK, Chains
    <3>2. pRx # <<>> => pRx[1] \in [buf : RxBuffers \cup {NoBuffer}, data : Parts]
      BY <3>1, Ends
    <3> QED BY <3>2, Bounds DEF Parts
  <2>8. RingNew'
    BY <1>1, <1>2, <2>4, <2>6 DEF SingleParts, RingNew
  <2>9. ChainNew'
    BY <1>1, <1>2, <2>4, <2>7 DEF SingleParts, ChainNew
  <2>10. FifoNew'
    <3>1. fifo'.frame = frames + 1
      BY <2>1
    <3>2. \A i \in Descriptors : Waiting(i) => ring[i].data.frame # frames + 1
      BY <2>4, <2>6 DEF SingleParts, RingNew
    <3>3. pRx # <<>> => pRx[1].data.frame # frames + 1
      BY <2>4, <2>7 DEF SingleParts, ChainNew
    <3> QED BY <1>1, <1>2, <2>5, <3>1, <3>2, <3>3 DEF FifoNew
  <2>11. \A k \in DOMAIN given' : given'[k] <= frames'
    BY <1>1, <2>2, <2>3
  <2> QED BY <2>8, <2>9, <2>10, <2>11 DEF SingleParts
<1> QED BY <1>3, <1>4

LEMMA DeliverSingle ==
  ASSUME TypeInv, SingleParts, Deliver
  PROVE  SingleParts'
<1>1. /\ UNCHANGED <<ring, fifo, frames>> /\ pRx' = <<>> /\ rxdataready /\ pRx # <<>>
      /\ given' = Append(given, pRx[Len(pRx)].data.frame)
  <2>1. Len(pRx) > 0
    BY DEF Deliver, TypeInv
  <2>3. pRx # <<>>
    BY <2>1, Ends
  <2> QED BY <2>3 DEF Deliver, TypeInv, wire
<1> DEFINE f == pRx[1].data.frame
<1>2. Len(pRx) = 1 /\ IsNew(f)
  BY <1>1 DEF SingleParts, ChainNew
<1>3. f \in 0 .. MaxFrames
  <2>1. pRx \in Seq([buf : RxBuffers \cup {NoBuffer}, data : Parts])
    BY DEF TypeInv, TypeOK, Chains
  <2>2. pRx[1] \in [buf : RxBuffers \cup {NoBuffer}, data : Parts]
    BY <1>1, <2>1, Ends
  <2> QED BY <2>2 DEF Parts
<1>4. \A k \in DOMAIN given' : given'[k] = f \/ (k \in DOMAIN given /\ given'[k] = given[k])
  <2>1. /\ DOMAIN given = 1 .. Len(given) /\ DOMAIN given' = 1 .. Len(given) + 1
        /\ given'[Len(given) + 1] = f /\ \A k \in 1 .. Len(given) : given'[k] = given[k]
        /\ Len(given) \in Nat
    BY <1>1, <1>2, <1>3, Appended, Element DEF TypeInv, TypeOK
  <2> QED BY <2>1
<1>5. \A g : IsNew(g) /\ g # f => IsNew(g)'
  BY <1>1, <1>4 DEF IsNew
<1>6. \A i : Waiting(i)' = Waiting(i)
  BY <1>1 DEF Waiting
<1>7. RingNew'
  BY <1>1, <1>5, <1>6 DEF SingleParts, RingNew, ChainNew
<1>8. FifoNew'
  BY <1>1, <1>5, <1>6 DEF SingleParts, FifoNew
<1>9. ChainNew'
  BY <1>1 DEF ChainNew
<1>10. \A k \in DOMAIN given' : given'[k] <= frames'
  <2>1. f <= frames /\ (\A k \in DOMAIN given : given[k] <= frames) /\ frames' = frames
    BY <1>1, <1>2 DEF SingleParts, IsNew
  <2> SUFFICES ASSUME NEW k \in DOMAIN given' PROVE given'[k] <= frames'
    OBVIOUS
  <2>2. given'[k] = f \/ (k \in DOMAIN given /\ given'[k] = given[k])
    BY <1>4
  <2> HIDE DEF f
  <2> QED BY <2>1, <2>2
<1> QED BY <1>7, <1>8, <1>9, <1>10 DEF SingleParts

LEMMA SingleInit == Init => SingleParts
<1> SUFFICES ASSUME Init PROVE SingleParts
  OBVIOUS
<1>1. DOMAIN given = {} /\ \A i \in Descriptors : ~Waiting(i)
  BY DEF Init, Waiting
<1> QED BY <1>1 DEF Init, SingleParts, RingNew, ChainNew, FifoNew

LEMMA SingleKept ==
  ASSUME TypeInv, env.maxParts = 1 /\ pc # "fault" => SingleParts, [Next]_vars
  PROVE  env'.maxParts = 1 /\ pc' # "fault" => SingleParts'
<1>1. env' = env /\ (pc = "fault" => pc' = "fault")
  BY DEF Next, MainLoop, HardFault_Handler, LinkCheck, FrameArrives, DmaStore,
         FrameMissed, low_level_input, HAL_ETH_ReadData, ReadDone,
         ETH_UpdateDescriptor, UpdateDone, Deliver, LwipFrees, sys_check_timeouts, vars
<1> SUFFICES ASSUME env.maxParts = 1, pc' # "fault", SingleParts PROVE SingleParts'
  BY <1>1
<1>2. CASE HAL_ETH_ReadData
  BY <1>2, ReadSingle
<1>3. CASE ETH_UpdateDescriptor
  BY <1>3, BuildSingle
<1>4. CASE Deliver
  BY <1>4, DeliverSingle
<1>5. CASE DmaStore
  BY <1>5, StoreSingle
<1>6. CASE FrameArrives \/ FrameMissed
  BY <1>6, WireSingle
<1>7. CASE \/ low_level_input \/ ReadDone \/ UpdateDone \/ LwipFrees \/ sys_check_timeouts
           \/ LinkCheck \/ UNCHANGED vars
  <2>1. UNCHANGED <<ring, rxdataready, pRx, fifo, frames, given>>
    BY <1>7 DEF low_level_input, ReadDone, UpdateDone, LwipFrees, sys_check_timeouts,
                LinkCheck, vars, driver, wire
  <2>2. (\A i : Waiting(i)' = Waiting(i)) /\ (\A f : IsNew(f)' = IsNew(f))
    BY <2>1 DEF Waiting, IsNew
  <2> QED BY <2>1, <2>2 DEF SingleParts, RingNew, ChainNew, FifoNew
<1> QED BY <1>2, <1>3, <1>4, <1>5, <1>6, <1>7 DEF Next, MainLoop, HardFault_Handler

LEMMA SingleWhole ==
  ASSUME TypeInv, SingleParts, stops # 0
  PROVE  WholeFrames
<1> SUFFICES ASSUME pc = "deliver" PROVE WholeFrames
  BY DEF WholeFrames
<1>1. pRx # <<>>
  <2>1. Len(pRx) > 0
    BY DEF TypeInv
  <2> QED BY <2>1, Ends
<1>2. Len(pRx) = 1 /\ Single(pRx[1].data) /\ IsNew(pRx[1].data.frame)
  BY <1>1 DEF SingleParts, ChainNew
<1>3. pRx \in Seq([buf : RxBuffers \cup {NoBuffer}, data : Parts])
  BY DEF TypeInv, TypeOK, Chains
<1>4. DOMAIN pRx = {1} /\ pRx[1].data \in Parts
  <2>1. DOMAIN pRx = 1 .. 1
    BY <1>2, <1>3, Element
  <2>2. pRx[1] \in [buf : RxBuffers \cup {NoBuffer}, data : Parts]
    BY <1>1, <1>3, Ends
  <2> QED BY <2>1, <2>2
<1>5. \A k \in DOMAIN pRx :
        pRx[k].data = [frame |-> pRx[1].data.frame, part |-> k, parts |-> Len(pRx)]
  BY <1>2, <1>4 DEF Single, Parts
<1>6. pRx[1].data.frame \notin {given[k] : k \in DOMAIN given}
  BY <1>2 DEF IsNew
<1> QED BY <1>2, <1>5, <1>6 DEF WholeFrames

\* What netif->input gets is one whole frame, its parts in order, and no frame
\* twice: until the MAC is first stopped, with frames of any length; and however
\* often it is restarted, when a frame fits into one descriptor.
THEOREM RxWholeFrames == Spec => [](stops = 0 \/ env.maxParts = 1 => WholeFrames)
<1>1. Init => Phase /\ InOrder
  BY PhaseInit DEF Init, InOrder, NothingYet
<1>2. Init => SingleParts
  BY SingleInit
<1>3. TypeInv /\ Phase /\ [Next]_vars => Phase'
  BY PhaseKept
<1>4. TypeInv /\ Phase /\ (stops = 0 => InOrder) /\ [Next]_vars => (stops = 0 => InOrder)'
  BY OrderKept
<1>5. /\ TypeInv /\ (env.maxParts = 1 /\ pc # "fault" => SingleParts) /\ [Next]_vars
      => (env.maxParts = 1 /\ pc # "fault" => SingleParts)'
  BY SingleKept
<1>6. /\ TypeInv /\ Phase /\ (stops = 0 => InOrder)
      /\ (env.maxParts = 1 /\ pc # "fault" => SingleParts)
      => (stops = 0 \/ env.maxParts = 1 => WholeFrames)
  <2>1. pc = "fault" => WholeFrames
    BY DEF WholeFrames
  <2> QED BY <2>1, OrderWhole, SingleWhole
<1>7. Spec => []TypeInv
  BY TypeInvInit, TypeInvKept, PTL DEF Spec
<1> QED BY <1>1, <1>2, <1>3, <1>4, <1>5, <1>6, <1>7, PTL DEF Spec
-----------------------------------------------------------------------------
(* Restarts with a buffer for every descriptor, whatever lwIP keeps. *)

\* A rebuild that falls short leaves a frame to deliver, which lwIP then has no
\* room to keep: so the ring is complete whenever the link is looked at.
Supplied ==
  /\ pc # "fault" /\ InStep
  /\ pc \in {"timers", "link"} => RxBuildDescCnt = 0
  /\ pRx # <<>> => pc \in {"read", "build", "deliver"} /\ gState # "BUSY"
  /\ pc # "deliver" => RxAllocStatus = "OK"
  /\ Cardinality(UNION held) <= env.maxHeld
  /\ RxAllocStatus = "ERROR" => Cardinality(UNION held) + Len(pRx) > env.maxHeld

LEMMA RingShort ==
  ASSUME TypeInv, NeedsBuffer
  PROVE  IsFiniteSet(RingBuffers) /\ Cardinality(RingBuffers) <= ETH_RX_DESC_CNT - 1
<1> DEFINE N == ETH_RX_DESC_CNT
           D == Descriptors \ {RxBuildDescIdx}
           I == {ring[i].buf : i \in D}
           g == [i \in D |-> ring[i].buf]
<1>1. IsFiniteSet(Descriptors) /\ Cardinality(Descriptors) = N
  <2>1. N \in Nat \ {0} /\ 0 \in Int /\ N - 1 \in Int
    BY Bounds
  <2>2. IsFiniteSet(0 .. N - 1) /\ Cardinality(0 .. N - 1) = IF 0 > N - 1 THEN 0 ELSE N - 1 - 0 + 1
    BY <2>1, FS_Interval
  <2> QED BY <2>1, <2>2 DEF Descriptors
<1>2. IsFiniteSet(D) /\ Cardinality(D) = N - 1
  BY <1>1, FS_RemoveElement DEF TypeInv, TypeOK
<1>3. g \in Surjection(D, I)
  BY DEF Surjection
<1>4. IsFiniteSet(I) /\ Cardinality(I) <= N - 1
  BY <1>2, <1>3, FS_Surjection
<1>5. RingBuffers \in SUBSET I
  BY DEF RingBuffers, NeedsBuffer
<1>6. IsFiniteSet(RingBuffers) /\ Cardinality(RingBuffers) <= Cardinality(I)
  BY <1>4, <1>5, FS_Subset
<1>7. Cardinality(I) \in Nat /\ Cardinality(RingBuffers) \in Nat /\ N \in Nat
  BY <1>4, <1>6, FS_CardinalityType, Bounds
<1> HIDE DEF I
<1> QED BY <1>4, <1>6, <1>7

LEMMA ChainShort ==
  ASSUME TypeInv, ChainNew
  PROVE  /\ IsFiniteSet(ChainBuffers) /\ Cardinality(ChainBuffers) <= Len(pRx)
         /\ Len(pRx) \in 0 .. 1 /\ (pRx = <<>> => Len(pRx) = 0)
<1>1. CASE pRx = <<>>
  <2>1. DOMAIN pRx = {} /\ Len(pRx) = 0
    BY <1>1
  <2>2. ChainBuffers = {}
    BY <2>1 DEF ChainBuffers
  <2> QED BY <1>1, <2>1, <2>2, FS_EmptySet
<1>2. CASE pRx # <<>>
  <2>1. Len(pRx) = 1 /\ DOMAIN pRx = 1 .. 1
    BY <1>2, Element DEF ChainNew, TypeInv, TypeOK, Chains
  <2>2. ChainBuffers = {pRx[1].buf}
    BY <2>1 DEF ChainBuffers
  <2>3. IsFiniteSet({pRx[1].buf}) /\ Cardinality({pRx[1].buf}) = 1
    BY FS_Singleton
  <2> QED BY <1>2, <2>1, <2>2, <2>3
<1> QED BY <1>1, <1>2

LEMMA HeldFinite ==
  ASSUME TypeInv
  PROVE  IsFiniteSet(UNION held) /\ Cardinality(UNION held) \in Nat
<1>1. UNION held \in SUBSET RxBuffers
  BY DEF TypeInv, TypeOK
<1>2. IsFiniteSet(RxBuffers)
  BY RxAssumption
<1> QED BY <1>1, <1>2, FS_Subset, FS_CardinalityType

LEMMA UnionBound ==
  ASSUME NEW S, IsFiniteSet(S), NEW T, IsFiniteSet(T)
  PROVE  /\ IsFiniteSet(S \cup T) /\ Cardinality(S \cup T) \in Nat
         /\ Cardinality(S) \in Nat /\ Cardinality(T) \in Nat
         /\ Cardinality(S \cup T) <= Cardinality(S) + Cardinality(T)
<1>1. S \cap T \in SUBSET S
  OBVIOUS
<1>2. IsFiniteSet(S \cap T)
  BY <1>1, FS_Subset
<1>3. Cardinality(S \cap T) \in Nat /\ Cardinality(S) \in Nat /\ Cardinality(T) \in Nat
  BY <1>2, FS_CardinalityType
<1>4. /\ IsFiniteSet(S \cup T)
      /\ Cardinality(S \cup T) = Cardinality(S) + Cardinality(T) - Cardinality(S \cap T)
  BY FS_Union
<1>5. Cardinality(S \cup T) \in Nat
  BY <1>4, FS_CardinalityType
<1> QED BY <1>3, <1>4, <1>5

\* The pool is dry and a descriptor is missing a buffer: lwIP holds its share.
LEMMA Dry ==
  ASSUME TypeInv, BuffersConserved, Enough, ChainNew, pc # "fault", pool = {}, NeedsBuffer
  PROVE  Cardinality(UNION held) + Len(pRx) > env.maxHeld
<1> DEFINE R == Cardinality(RingBuffers)
           C == Cardinality(ChainBuffers)
           H == Cardinality(UNION held)
           RC == RingBuffers \cup ChainBuffers
<1>1. RxBuffers = RC \cup UNION held
  BY BuffersParts DEF Partition
<1>2. /\ IsFiniteSet(RC) /\ Cardinality(RC) <= R + C
      /\ R \in Nat /\ C \in Nat /\ Cardinality(RC) \in Nat
  BY RingShort, ChainShort, UnionBound
<1>3. IsFiniteSet(UNION held) /\ H \in Nat
  BY HeldFinite
<1>4. /\ Cardinality(RC \cup UNION held) \in Nat
      /\ Cardinality(RC \cup UNION held) <= Cardinality(RC) + H
  BY <1>2, <1>3, UnionBound
<1>5. Cardinality(RxBuffers) \in Nat /\ Cardinality(RxBuffers) <= Cardinality(RC) + H
  BY <1>1, <1>4, Zenon
<1>6. R <= ETH_RX_DESC_CNT - 1 /\ C <= Len(pRx) /\ Len(pRx) \in Nat
  BY RingShort, ChainShort
<1>7. /\ ETH_RX_DESC_CNT + env.maxHeld <= Cardinality(RxBuffers)
      /\ ETH_RX_DESC_CNT \in Nat /\ env.maxHeld \in Nat
  BY RxAssumption DEF Enough, TypeInv, TypeOK
<1> HIDE DEF R, C, H, RC
<1>8. H + Len(pRx) > env.maxHeld
  BY ONLY <1>2, <1>3, <1>5, <1>6, <1>7
<1> QED BY <1>8 DEF H

LEMMA SuppliedKept ==
  ASSUME TypeInv, Modes, BuffersConserved, SingleParts, Enough, Supplied, [Next]_vars
  PROVE  Supplied'
<1>1. LinkCheck /\ HAL_ETH_Stop => RxBuildDescCnt = 0
  BY DEF Supplied, LinkCheck
<1>2. ChainNew /\ (pRx # <<>> => rxdataready) /\ env.maxHeld \in Nat
  BY RxAssumption DEF SingleParts, ChainNew, TypeInv, TypeOK
<1>3. IsFiniteSet(UNION held) /\ Cardinality(UNION held) \in Nat
  BY HeldFinite
<1>4. pc' # "fault" /\ InStep'
  BY InStepKept, <1>1 DEF Supplied
<1>5. CASE low_level_input
  <2>1. /\ pc = "input" /\ pRx' = <<>> /\ UNCHANGED <<RxBuildDescCnt, RxAllocStatus, held, env>>
        /\ pc' \in {"read", "timers"}
        /\ pc' = "timers" => gState = "READY"
    BY <1>5 DEF low_level_input, driver, Supplied, Modes, TypeInv, TypeOK
  <2> QED BY <1>4, <2>1 DEF Supplied, InStep
<1>6. CASE HAL_ETH_ReadData
  <2>1. /\ pc' = "read" /\ gState' = "STARTED"
        /\ UNCHANGED <<RxAllocStatus, held, env>> /\ RxAllocStatus = "OK"
    BY <1>4, <1>6 DEF HAL_ETH_ReadData, Supplied, Modes
  <2> QED BY <1>4, <2>1 DEF Supplied
<1>7. CASE ReadDone
  <2>1. pc = "read" /\ pc' = "build" /\ gState = "STARTED"
        /\ UNCHANGED <<gState, pRx, RxAllocStatus, held, env>>
    BY <1>7 DEF ReadDone, driver, Modes
  <2> QED BY <1>4, <2>1 DEF Supplied
<1>8. CASE ETH_UpdateDescriptor
  <2>1. pc = "build" /\ UNCHANGED <<pc, gState, pRx, RxAllocStatus, held, env>>
    BY <1>8 DEF ETH_UpdateDescriptor
  <2> QED BY <1>4, <2>1 DEF Supplied
<1>9. CASE UpdateDone
  <2>1. /\ pc = "build" /\ UNCHANGED <<pRx, held, env, RxBuildDescCnt, rxdataready>>
        /\ RxAllocStatus = "OK" /\ gState' = "STARTED"
        /\ \/ gState = "BUSY" /\ pc' = "input"
           \/ gState # "BUSY" /\ pc' = IF rxdataready THEN "deliver" ELSE "timers"
    BY <1>9 DEF UpdateDone, Supplied, Modes, TypeInv, TypeOK
  <2>2. pRx # <<>> => pc' = "deliver"
    BY <1>2, <2>1 DEF Supplied
  <2>3. CASE RxBuildDescCnt = 0 /\ UNCHANGED RxAllocStatus
    BY <1>4, <2>1, <2>2, <2>3 DEF Supplied
  <2>4. CASE NeedsBuffer /\ pool = {}
    <3>1. Cardinality(UNION held) + Len(pRx) > env.maxHeld
      BY <1>2, <2>4, Dry DEF Supplied
    <3>2. pRx # <<>>
      <4>1. pRx = <<>> => Len(pRx) = 0
        BY Ends
      <4> QED BY <1>2, <1>3, <3>1, <4>1 DEF Supplied
    <3> QED BY <1>4, <2>1, <2>2, <3>1, <3>2 DEF Supplied
  <2> QED BY <1>9, <2>3, <2>4 DEF UpdateDone
<1>10. CASE Deliver
  <2>1. pc' = "input" /\ pRx' = <<>> /\ env' = env
    BY <1>10 DEF Deliver
  <2>2. CASE Freed(ChainBuffers) /\ UNCHANGED held
    BY <1>4, <2>1, <2>2 DEF Freed, Supplied
  <2>3. CASE /\ Cardinality(UNION held) + Len(pRx) <= env.maxHeld
             /\ held' = held \cup {ChainBuffers} /\ UNCHANGED RxAllocStatus
    <3>1. UNION held' = (UNION held) \cup ChainBuffers
      <4>1. UNION (held \cup {ChainBuffers}) = (UNION held) \cup ChainBuffers
        BY UnionAdded, Zenon
      <4> QED BY <2>3, <4>1, Zenon
    <3>2. /\ Cardinality(ChainBuffers) \in Nat
          /\ Cardinality((UNION held) \cup ChainBuffers) \in Nat
          /\ Cardinality((UNION held) \cup ChainBuffers)
               <= Cardinality(UNION held) + Cardinality(ChainBuffers)
      BY <1>2, <1>3, ChainShort, UnionBound
    <3>3. Cardinality(ChainBuffers) <= Len(pRx) /\ Len(pRx) \in Nat
      BY <1>2, ChainShort
    <3>4. Cardinality((UNION held) \cup ChainBuffers) <= env.maxHeld
      <4> DEFINE A == Cardinality((UNION held) \cup ChainBuffers)
                 H == Cardinality(UNION held)
                 C == Cardinality(ChainBuffers)
      <4>1. A \in Nat /\ C \in Nat /\ H \in Nat /\ A <= H + C /\ C <= Len(pRx)
            /\ H + Len(pRx) <= env.maxHeld
        BY <1>3, <2>3, <3>2, <3>3
      <4> HIDE DEF A, H, C
      <4>2. A <= env.maxHeld
        BY ONLY <1>2, <3>3, <4>1
      <4> QED BY <4>2 DEF A
    <3>5. Cardinality(UNION held') <= env'.maxHeld
      BY <2>1, <3>1, <3>4, Zenon
    <3>6. RxAllocStatus = "OK"
      BY <1>2, <1>3, <2>3, <3>3 DEF Supplied, TypeInv, TypeOK
    <3> QED BY <1>4, <2>1, <2>3, <3>5, <3>6 DEF Supplied
  <2> QED BY <1>10, <2>2, <2>3 DEF Deliver
<1>11. CASE LwipFrees
  <2>1. UNCHANGED <<pc, gState, pRx, RxBuildDescCnt, env>> /\ RxAllocStatus' = "OK"
    BY <1>11 DEF LwipFrees, Freed
  <2>2. Cardinality(UNION held') <= Cardinality(UNION held) /\ Cardinality(UNION held') \in Nat
    <3>1. PICK packet \in held : held' = held \ {packet}
      BY <1>11 DEF LwipFrees
    <3>2. UNION held' \in SUBSET UNION held
      BY <3>1
    <3> QED BY <1>3, <3>2, FS_Subset, FS_CardinalityType
  <2>3. Cardinality(UNION held') <= env.maxHeld
    BY <1>2, <1>3, <2>2 DEF Supplied
  <2> QED BY <1>4, <2>1, <2>3 DEF Supplied
<1>12. CASE LinkCheck
  <2>1. pc = "link" /\ pc' \in {"input", "build"} /\ UNCHANGED <<pRx, RxAllocStatus, held, env>>
    BY <1>12 DEF LinkCheck, HAL_ETH_Stop, HAL_ETH_Start
  <2> QED BY <1>4, <2>1 DEF Supplied
<1>13. CASE sys_check_timeouts
  <2>1. pc = "timers" /\ pc' = "link" /\ UNCHANGED <<pRx, RxBuildDescCnt, RxAllocStatus, held, env>>
    BY <1>13 DEF sys_check_timeouts, driver
  <2> QED BY <1>4, <2>1 DEF Supplied
<1>14. CASE FrameArrives \/ DmaStore \/ FrameMissed \/ UNCHANGED vars
  <2>1. UNCHANGED <<pc, gState, pRx, RxBuildDescCnt, RxAllocStatus, held, env>>
    BY <1>14 DEF FrameArrives, DmaStore, FrameMissed, vars, driver
  <2> QED BY <1>4, <2>1 DEF Supplied
<1> QED BY <1>5, <1>6, <1>7, <1>8, <1>9, <1>10, <1>11, <1>12, <1>13, <1>14
        DEF Next, MainLoop, HardFault_Handler

\* The driver links no descriptor without a buffer: until the link first goes down,
\* however the pool runs dry, as the rebuild may fall behind as far as it likes; and
\* where there are buffers Enough however often the MAC is stopped and started, as it
\* is only ever stopped with its ring complete.
THEOREM RxNoFault == Spec => []NoFault
<1>1. Init => Supplied
  <2> SUFFICES ASSUME Init PROVE Supplied
    OBVIOUS
  <2>1. InStep
    BY PhaseInit DEF Init, Phase
  <2>2. held = {} /\ env.maxHeld \in Nat
    BY RxAssumption DEF Init
  <2>3. UNION held = {}
    BY <2>2
  <2>4. Cardinality(UNION held) = 0
    BY <2>3, FS_EmptySet, Zenon
  <2> QED BY <2>1, <2>2, <2>4 DEF Init, Supplied
<1>2. Init => SingleParts /\ Phase
  BY SingleInit, PhaseInit
<1>3. TypeInv /\ Phase /\ [Next]_vars => Phase'
  BY PhaseKept
<1>4. /\ TypeInv /\ (env.maxParts = 1 /\ pc # "fault" => SingleParts) /\ [Next]_vars
      => (env.maxParts = 1 /\ pc # "fault" => SingleParts)'
  BY SingleKept
<1>5. /\ TypeInv /\ Phase /\ BuffersConserved /\ (Enough => Supplied)
      /\ (env.maxParts = 1 /\ pc # "fault" => SingleParts) /\ [Next]_vars
      => (Enough => Supplied)'
  <2> SUFFICES ASSUME TypeInv, Phase, BuffersConserved, Enough => Supplied, [Next]_vars,
                      env.maxParts = 1 /\ pc # "fault" => SingleParts, Enough'
               PROVE  Supplied'
    OBVIOUS
  <2>1. env' = env
    BY DEF Next, MainLoop, HardFault_Handler, LinkCheck, FrameArrives, DmaStore,
           FrameMissed, low_level_input, HAL_ETH_ReadData, ReadDone,
           ETH_UpdateDescriptor, UpdateDone, Deliver, LwipFrees, sys_check_timeouts, vars
  <2>2. Enough
    BY <2>1 DEF Enough
  <2>3. Supplied /\ SingleParts
    BY <2>2 DEF Enough, Supplied
  <2> QED BY <2>2, <2>3, SuppliedKept DEF Phase
<1>6. Phase /\ (Enough => Supplied) => NoFault
  BY DEF Phase, Supplied, NoFault
<1>7. Spec => []TypeInv
  BY TypeInvInit, TypeInvKept, PTL DEF Spec
<1> QED BY <1>1, <1>2, <1>3, <1>4, <1>5, <1>6, <1>7, RxBuffersConserved, PTL DEF Spec
=============================================================================
