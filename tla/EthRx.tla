-------------------------------- MODULE EthRx --------------------------------
(***************************************************************************)
(* Receiving Ethernet frames: the ring of RX descriptors the HAL driver    *)
(* (stm32h7xx_hal_eth.c) shares with the DMA, the pool its buffers come    *)
(* from (ethernetif.c), lwIP, which keeps a packet for as long as it       *)
(* likes, and the link check, which stops and starts the MAC.  The main    *)
(* loop polls (no Ethernet interrupt is enabled): a step of it is one      *)
(* iteration of a loop over descriptors, and the DMA stores frames between *)
(* any two of them.                                                        *)
(***************************************************************************)
EXTENDS Integers, Sequences, FiniteSets

CONSTANTS
  ETH_RX_DESC_CNT, \* descriptors in the ring
  RxBuffers,       \* RX_POOL: ETH_RX_BUFFER_CNT buffers
  NoBuffer,        \* NULL
  MaxFrames,       \* bound: frames that arrive
  Scenarios        \* bounds of one execution: the descriptors a frame may take,
                   \* how often the link goes down, the buffers lwIP may keep

\* A pool smaller than the ring and a frame being put together would run dry
\* with nothing for lwIP to give back.
ASSUME RxAssumption ==
  /\ ETH_RX_DESC_CNT \in Nat \ {0} /\ MaxFrames \in Nat
  /\ NoBuffer \notin RxBuffers /\ IsFiniteSet(RxBuffers)
  /\ Scenarios \subseteq [maxParts : Nat \ {0}, maxStops : Nat, maxHeld : Nat]
  /\ \A s \in Scenarios : ETH_RX_DESC_CNT + s.maxParts <= Cardinality(RxBuffers)

VARIABLES
  gState,          \* heth.gState
  linkUp,          \* netif_is_link_up
  pc,              \* the statement of the main loop that is executed next
  ring,            \* the descriptors: OWN bit, BackupAddr0, what the DMA wrote
  RxDescIdx,       \* the descriptor to read next
  RxBuildDescIdx,  \* the descriptor to give back to the DMA next
  RxBuildDescCnt,  \* descriptors read and not given back
  rxdataready,     \* the last descriptor of a frame has been read
  pRx,             \* the chain from pRxStart to pRxEnd: buffers and their data
  RxAllocStatus,   \* RX_ALLOC_OK, RX_ALLOC_ERROR
  pool,            \* the free buffers of RX_POOL
  held,            \* the packets lwIP keeps, each the set of its buffers
  dmaPos,          \* the DMA's current descriptor
  fifo,            \* the part of a frame the MAC has ready for the DMA
  frames,          \* frames that have arrived, numbered from 1
  given,           \* history: the frames handed to netif->input
  stops,           \* history: calls of HAL_ETH_Stop
  env              \* the bounds of this execution

driver == <<gState, linkUp, RxDescIdx, RxBuildDescIdx, RxBuildDescCnt,
            rxdataready, pRx, RxAllocStatus>>
wire == <<dmaPos, fifo, frames>>
vars == <<driver, pc, ring, pool, held, wire, given, stops, env>>

Descriptors == 0 .. ETH_RX_DESC_CNT - 1
\* The slip of wrapping an index one too late.
INCR_late(i) == IF i + 1 > ETH_RX_DESC_CNT THEN 0 ELSE i + 1

INCR(i) == IF i + 1 >= ETH_RX_DESC_CNT THEN 0 ELSE i + 1

\* Part p of n of frame f is what one descriptor receives.
Blank == [frame |-> 0, part |-> 0, parts |-> 0]
FD(d) == d.part = 1
LD(d) == d.part = d.parts /\ d # Blank
Stored(f) == \E i \in Descriptors :
               ~ring[i].own /\ ring[i].buf # NoBuffer /\ ring[i].data.frame = f
RingBuffers == {ring[i].buf : i \in Descriptors} \ {NoBuffer}
ChainBuffers == {pRx[k].buf : k \in DOMAIN pRx}
-----------------------------------------------------------------------------
\* HAL_ETH_Init cleared the descriptors; low_level_init has come to its call of
\* ethernet_link_check_state.
Init ==
  /\ gState = "READY" /\ linkUp = FALSE /\ pc = "link"
  /\ ring = [i \in Descriptors |-> [own |-> FALSE, buf |-> NoBuffer, data |-> Blank]]
  /\ RxDescIdx = 0 /\ RxBuildDescIdx = 0 /\ RxBuildDescCnt = 0
  /\ rxdataready = FALSE /\ pRx = <<>>
  /\ RxAllocStatus = "OK" /\ pool = RxBuffers /\ held = {}
  /\ dmaPos = 0 /\ fifo = Blank /\ frames = 0
  /\ given = <<>> /\ stops = 0 /\ env \in Scenarios
-----------------------------------------------------------------------------
(* The MAC and its DMA. *)

\* A frame arrives that takes n descriptors.
FrameArrives ==
  /\ gState = "STARTED" /\ fifo = Blank /\ frames < MaxFrames
  /\ \E n \in 1 .. env.maxParts : fifo' = [frame |-> frames + 1, part |-> 1, parts |-> n]
  /\ frames' = frames + 1
  /\ UNCHANGED <<driver, pc, ring, pool, held, dmaPos, given, stops, env>>

\* The DMA stores it, a descriptor it owns at a time.  Once stopped it still
\* completes the frame it has begun, and it keeps its place in the ring.
DmaStore ==
  /\ fifo # Blank /\ ring[dmaPos].own
  /\ gState = "STARTED" \/ fifo.part > 1
  /\ ring' = [ring EXCEPT ![dmaPos].own = FALSE, ![dmaPos].data = fifo]
  /\ dmaPos' = INCR(dmaPos)
  /\ fifo' = IF LD(fifo) THEN Blank ELSE [fifo EXCEPT !.part = @ + 1]
  /\ UNCHANGED <<driver, pc, pool, held, frames, given, stops, env>>

\* With no descriptor to store it in, a frame is lost.
FrameMissed ==
  /\ FD(fifo) /\ ~ring[dmaPos].own
  /\ fifo' = Blank
  /\ UNCHANGED <<driver, pc, ring, pool, held, dmaPos, frames, given, stops, env>>
-----------------------------------------------------------------------------
(* ethernetif_input reads frames until low_level_input returns none. *)

\* The slip of reading only while the ring is complete.
low_level_input_complete ==
  /\ pc = "input"
  /\ pc' = IF RxBuildDescCnt = 0 /\ gState = "STARTED" THEN "read" ELSE "timers"
  /\ UNCHANGED <<driver, ring, pool, held, wire, given, stops, env>>

low_level_input ==
  /\ pc = "input"
  /\ pc' = IF RxAllocStatus = "OK" /\ gState = "STARTED" THEN "read" ELSE "timers"
  /\ UNCHANGED <<driver, ring, pool, held, wire, given, stops, env>>

\* The slips of reading on past the last descriptor of a frame, and into the
\* descriptors that have not been given back.
More_frames == ~ring[RxDescIdx].own /\ RxBuildDescCnt < ETH_RX_DESC_CNT
More_unbuilt == ~ring[RxDescIdx].own /\ ~rxdataready

\* The loop of HAL_ETH_ReadData: RxBuildDescCnt counts along with desccnt.
More == ~ring[RxDescIdx].own /\ RxBuildDescCnt < ETH_RX_DESC_CNT /\ ~rxdataready

\* The buffer is linked to the frame and taken from the descriptor; a part that
\* belongs to no frame is passed over.  HAL_ETH_RxLinkCallback writes through
\* the buffer's address: on NULL that is a hard fault.
HAL_ETH_ReadData ==
  /\ pc = "read" /\ More
  /\ LET d == ring[RxDescIdx] IN
     IF FD(d.data) \/ pRx # <<>>
     THEN /\ pRx' = Append(pRx, [buf |-> d.buf, data |-> d.data])
          /\ rxdataready' = LD(d.data)
          /\ ring' = [ring EXCEPT ![RxDescIdx].buf = NoBuffer]
          /\ pc' = IF d.buf = NoBuffer THEN "fault" ELSE pc
     ELSE UNCHANGED <<pRx, rxdataready, ring, pc>>
  /\ RxDescIdx' = INCR(RxDescIdx) /\ RxBuildDescCnt' = RxBuildDescCnt + 1
  /\ UNCHANGED <<gState, linkUp, RxBuildDescIdx, RxAllocStatus, pool, held, wire, given, stops, env>>

ReadDone ==
  /\ pc = "read" /\ ~More
  /\ pc' = "build"
  /\ UNCHANGED <<driver, ring, pool, held, wire, given, stops, env>>

\* The slip of taking a new buffer for a descriptor that still has one.
NeedsBuffer_always == TRUE

\* The loop of ETH_UpdateDescriptor: a descriptor gets a buffer if it has none,
\* and goes back to the DMA.
NeedsBuffer == ring[RxBuildDescIdx].buf = NoBuffer
ETH_UpdateDescriptor ==
  /\ pc = "build" /\ RxBuildDescCnt > 0
  /\ NeedsBuffer => pool # {}
  /\ LET b == IF NeedsBuffer THEN CHOOSE p \in pool : TRUE ELSE ring[RxBuildDescIdx].buf
     IN /\ pool' = pool \ {b}
        /\ ring' = [ring EXCEPT ![RxBuildDescIdx] = [own |-> TRUE, buf |-> b, data |-> Blank]]
  /\ RxBuildDescIdx' = INCR(RxBuildDescIdx) /\ RxBuildDescCnt' = RxBuildDescCnt - 1
  /\ UNCHANGED <<gState, linkUp, pc, RxDescIdx, rxdataready, pRx, RxAllocStatus, held, wire,
                 given, stops, env>>

\* It ends with every descriptor built, or with HAL_ETH_RxAllocateCallback
\* finding the pool empty.  Called by HAL_ETH_Start it leaves the MAC started.
UpdateDone ==
  /\ pc = "build"
  /\ \/ RxBuildDescCnt = 0 /\ UNCHANGED RxAllocStatus
     \/ RxBuildDescCnt > 0 /\ NeedsBuffer /\ pool = {} /\ RxAllocStatus' = "ERROR"
  /\ \/ /\ gState = "BUSY"
        /\ gState' = "STARTED" /\ linkUp' = TRUE /\ pc' = "input"
     \/ /\ gState # "BUSY"
        /\ pc' = IF rxdataready THEN "deliver" ELSE "timers"
        /\ UNCHANGED <<gState, linkUp>>
  /\ UNCHANGED <<RxDescIdx, RxBuildDescIdx, RxBuildDescCnt, rxdataready, pRx, ring, pool,
                 held, wire, given, stops, env>>
-----------------------------------------------------------------------------
(* lwIP. *)

\* The slip of leaving the error latched.
Freed_latched(packet) == pool' = pool \cup packet /\ UNCHANGED RxAllocStatus

\* pbuf_free_custom.
Freed(packet) == pool' = pool \cup packet /\ RxAllocStatus' = "OK"

\* netif->input keeps the packet, if the scenario leaves it room, or frees it.
Deliver ==
  /\ pc = "deliver" /\ pc' = "input"
  /\ \/ /\ Cardinality(UNION held) + Len(pRx) <= env.maxHeld
        /\ held' = held \cup {ChainBuffers}
        /\ UNCHANGED <<pool, RxAllocStatus>>
     \/ Freed(ChainBuffers) /\ UNCHANGED held
  /\ given' = Append(given, pRx[Len(pRx)].data.frame)
  /\ pRx' = <<>> /\ rxdataready' = FALSE
  /\ UNCHANGED <<gState, linkUp, RxDescIdx, RxBuildDescIdx, RxBuildDescCnt, ring, wire, stops, env>>

\* A kept packet is freed while lwIP handles another one, or in its timers.
LwipFrees ==
  /\ pc \in {"deliver", "timers"}
  /\ \E packet \in held : Freed(packet) /\ held' = held \ {packet}
  /\ UNCHANGED <<gState, linkUp, RxDescIdx, RxBuildDescIdx, RxBuildDescCnt, rxdataready, pRx,
                 pc, ring, wire, given, stops, env>>

sys_check_timeouts ==
  /\ pc = "timers" /\ pc' = "link"
  /\ UNCHANGED <<driver, ring, pool, held, wire, given, stops, env>>
-----------------------------------------------------------------------------
(* Ethernet_Link_Periodic_Handle and ethernet_link_check_state. *)

HAL_ETH_Stop ==
  /\ linkUp /\ gState = "STARTED" /\ stops < env.maxStops
  /\ gState' = "READY" /\ linkUp' = FALSE /\ stops' = stops + 1 /\ pc' = "input"
  /\ UNCHANGED RxBuildDescCnt

\* HAL_ETH_Start has all descriptors built again, from RxBuildDescIdx on.
HAL_ETH_Start ==
  /\ ~linkUp /\ gState = "READY"
  /\ gState' = "BUSY" /\ RxBuildDescCnt' = ETH_RX_DESC_CNT /\ pc' = "build"
  /\ UNCHANGED <<linkUp, stops>>

\* The PHY may report any state of the link, and the 100 ms may not be over.
LinkCheck ==
  /\ pc = "link"
  /\ \/ HAL_ETH_Stop
     \/ HAL_ETH_Start
     \/ pc' = "input" /\ UNCHANGED <<gState, linkUp, RxBuildDescCnt, stops>>
  /\ UNCHANGED <<RxDescIdx, RxBuildDescIdx, rxdataready, pRx, RxAllocStatus, ring, pool, held,
                 wire, given, env>>
-----------------------------------------------------------------------------
MainLoop ==
  \/ low_level_input \/ HAL_ETH_ReadData \/ ReadDone \/ ETH_UpdateDescriptor \/ UpdateDone
  \/ Deliver \/ sys_check_timeouts \/ LinkCheck

\* The handler loops for ever.
HardFault_Handler == pc = "fault" /\ UNCHANGED vars

Next == FrameArrives \/ DmaStore \/ FrameMissed \/ MainLoop \/ LwipFrees \/ HardFault_Handler

Spec == Init /\ [][Next]_vars

\* The main loop goes round, the DMA stores what it can, and lwIP does not keep
\* a packet for ever: it gives up an incomplete datagram or segment in time.
Fairness == WF_vars(MainLoop) /\ WF_vars(DmaStore) /\ SF_vars(LwipFrees)
FairSpec == Spec /\ Fairness
-----------------------------------------------------------------------------
Parts == [frame : 0 .. MaxFrames, part : Nat, parts : Nat]
Rings == [Descriptors -> [own : BOOLEAN, buf : RxBuffers \cup {NoBuffer}, data : Parts]]
Chains == Seq([buf : RxBuffers \cup {NoBuffer}, data : Parts])

TypeOK ==
  /\ gState \in {"READY", "BUSY", "STARTED"} /\ linkUp \in BOOLEAN
  /\ pc \in {"input", "read", "build", "deliver", "timers", "link", "fault"}
  /\ ring \in Rings /\ pRx \in Chains
  /\ RxDescIdx \in Descriptors /\ RxBuildDescIdx \in Descriptors
  /\ RxBuildDescCnt \in 0 .. ETH_RX_DESC_CNT /\ rxdataready \in BOOLEAN
  /\ RxAllocStatus \in {"OK", "ERROR"}
  /\ pool \subseteq RxBuffers /\ held \subseteq SUBSET RxBuffers
  /\ dmaPos \in Descriptors /\ fifo \in Parts /\ frames \in 0 .. MaxFrames
  /\ given \in Seq(0 .. MaxFrames) /\ stops \in Nat /\ env \in Scenarios

\* A buffer is in one place: free, in one descriptor, in the frame being put
\* together, or in one packet lwIP keeps.  None leaks when the pool runs dry
\* halfway through a rebuild, when a part is passed over, or over a restart.
BuffersConserved == pc # "fault" =>
  /\ RxBuffers = pool \cup RingBuffers \cup ChainBuffers \cup UNION held
  /\ pool \cap (RingBuffers \cup ChainBuffers \cup UNION held) = {}
  /\ RingBuffers \cap (ChainBuffers \cup UNION held) = {}
  /\ ChainBuffers \cap UNION held = {}
  /\ \A i, j \in Descriptors : ring[i].buf = ring[j].buf /\ ring[i].buf # NoBuffer => i = j
  /\ \A j, k \in DOMAIN pRx : pRx[j].buf = pRx[k].buf => j = k
  /\ \A p, q \in held : p # q => p \cap q = {}

\* A frame fits into a buffer, and lwIP leaves the pool a buffer for every descriptor.
Enough ==
  /\ env.maxParts = 1
  /\ ETH_RX_DESC_CNT + env.maxHeld <= Cardinality(RxBuffers)

\* The driver never links a descriptor that has no buffer: until the link first goes
\* down, however the pool runs dry, as desccntmax keeps it from the descriptors it has
\* not given back; and over restarts where there are buffers Enough.  It does where
\* there are not: HAL_ETH_Start counts the whole ring as to be built wherever
\* RxDescIdx is, and a pool that runs dry after that leaves it ahead of what is built.
NoFault == stops = 0 \/ Enough => pc # "fault"

\* What netif->input gets is one whole frame, its parts in order, which it has
\* not been given before; until the first restart frames come in wire order.
WholeFrames == pc = "deliver" =>
  LET f == pRx[Len(pRx)].data.frame IN
  /\ \A k \in DOMAIN pRx : pRx[k].data = [frame |-> f, part |-> k, parts |-> Len(pRx)]
  /\ f \notin {given[k] : k \in DOMAIN given}
  /\ stops = 0 => \A k \in DOMAIN given : given[k] < f

\* When the pool has run dry the ring does get its buffers back: the latched
\* RX_ALLOC_ERROR is cleared and the rebuild resumed, with no frame to prompt it,
\* unless the link goes down or the driver faults first.
RingRefilled ==
  gState = "STARTED" /\ RxBuildDescCnt > 0
    ~> RxBuildDescCnt = 0 \/ gState # "STARTED" \/ pc = "fault"

\* Until the link goes down, a frame the DMA has stored is read.
ReadUntilRestart == \A f \in 1 .. MaxFrames :
  Stored(f) /\ stops = 0 ~> f \in {given[k] : k \in DOMAIN given} \/ stops > 0

\* "Read a received packet from the Ethernet buffers" (lwip.c:123): a frame
\* stored while the MAC runs is read, unless the link goes down first.
ReceivedIsRead == \A f \in 1 .. MaxFrames :
  Stored(f) /\ gState = "STARTED" ~> f \in {given[k] : k \in DOMAIN given} \/ gState # "STARTED"
=============================================================================
