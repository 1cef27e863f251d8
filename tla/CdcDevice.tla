------------------------------ MODULE CdcDevice ------------------------------
(***************************************************************************)
(* Sending a reply over USB: CDC_Transmit_FS in the main loop (on          *)
(* USBD_CDC_SetTxBuffer and USBD_CDC_TransmitPacket), the device core and  *)
(* the CDC class in the USB interrupt, and a host that reads, suspends,    *)
(* resets and configures the device at any point.  The interrupt is        *)
(* atomic; the main loop is cut before each access to what it shares with  *)
(* the interrupt.  Replies are numbered by their calls.                    *)
(***************************************************************************)
EXTENDS Integers, Sequences

CONSTANTS
  Lens,      \* lengths of a reply
  MAXPACKET, \* maxpacket of the IN endpoint
  MaxCalls   \* bound: calls of CDC_Transmit_FS

ASSUME CdcAssumption ==
  MaxCalls \in Nat /\ Lens \subseteq Nat \ {0} /\ MAXPACKET \in Nat \ {0}

VARIABLES
  dev_state, dev_old_state,
  pClassData,    \* hUsbDeviceFS.pClassData # NULL
  TxBuffer, TxLength, TxState, \* the class handle, which is static memory
  total_length,  \* of ep_in[CDCInEpAdd]
  active,        \* the IN endpoint is activated (USBAEP)
  xfer,          \* its transfer (EPENA): Idle, or the reply and its length
  pc,            \* the next access of CDC_Transmit_FS, "idle" outside it
  call,          \* the number of the call, and of its reply
  len,           \* its length
  hcdc,          \* the handle CDC_Transmit_FS holds is not NULL
  args,          \* the arguments of USBD_LL_Transmit
  accepted,      \* history: the last call that set TxState
  read,          \* history: the replies the host has read
  torn           \* history: a call was cut by a reset or a configuration, and the
                 \* device has not been reset between two calls since

handle == <<TxBuffer, TxLength, TxState>>
core == <<dev_state, dev_old_state, pClassData>>
endpoint == <<active, xfer>>
mainLoop == <<pc, call, len, hcdc, args, accepted>>
vars == <<core, handle, total_length, endpoint, mainLoop, read, torn>>

Idle == [reply |-> -1, len |-> 0]
\* The bytes of UserTxBufferFS, and those of an empty packet, are no reply.
NoReply == 0
Buffer(b, n) == [reply |-> b, len |-> n]

Init ==
  /\ dev_state = "DEFAULT" /\ dev_old_state = "DEFAULT" /\ pClassData = FALSE
  /\ TxBuffer = NoReply /\ TxLength = 0 /\ TxState = 0 /\ total_length = 0
  /\ active = FALSE /\ xfer = Idle
  /\ pc = "idle" /\ call = 0 /\ len = 0 /\ hcdc = FALSE /\ args = Idle
  /\ accepted = 0 /\ read = <<>> /\ torn = FALSE
-----------------------------------------------------------------------------
(* CDC_Transmit_FS. *)

Step(from, to) == pc = from /\ pc' = to /\ UNCHANGED <<call, len>>

Call ==
  /\ pc = "idle" /\ pc' = "state" /\ call < MaxCalls
  /\ call' = call + 1 /\ len' \in Lens /\ hcdc' = pClassData
  /\ UNCHANGED <<core, handle, total_length, endpoint, args, accepted, read, torn>>

\* The slip of taking no notice of a transfer in progress.
Busy_never == FALSE

Busy == TxState # 0

\* Through a NULL handle TxState is whatever the memory at its offset holds.
CheckState ==
  /\ \/ (hcdc => Busy) /\ Step("state", "idle")
     \/ (hcdc => ~Busy) /\ Step("state", "buffer")
  /\ UNCHANGED <<core, handle, total_length, endpoint, hcdc, args, accepted, read, torn>>

\* USBD_CDC_SetTxBuffer: its USBD_FAIL is ignored.
SetTxBuffer ==
  /\ \/ pClassData /\ Step("buffer", "length") /\ TxBuffer' = call
     \/ ~pClassData /\ Step("buffer", "packet") /\ UNCHANGED TxBuffer
  /\ UNCHANGED <<core, TxLength, TxState, total_length, endpoint, hcdc, args, accepted, read, torn>>

SetTxLength ==
  /\ Step("length", "packet")
  /\ TxLength' = len
  /\ UNCHANGED <<core, TxBuffer, TxState, total_length, endpoint, hcdc, args, accepted, read, torn>>

\* USBD_CDC_TransmitPacket.
TransmitPacket ==
  /\ \/ (~pClassData \/ Busy) /\ Step("packet", "idle")
     \/ pClassData /\ ~Busy /\ Step("packet", "claim")
  /\ UNCHANGED <<core, handle, total_length, endpoint, hcdc, args, accepted, read, torn>>

SetTxState ==
  /\ Step("claim", "total")
  /\ TxState' = 1 /\ accepted' = call
  /\ UNCHANGED <<core, TxBuffer, TxLength, total_length, endpoint, hcdc, args, read, torn>>

SetTotal ==
  /\ Step("total", "args")
  /\ total_length' = TxLength
  /\ UNCHANGED <<core, handle, endpoint, hcdc, args, accepted, read, torn>>

GetArgs ==
  /\ Step("args", "start")
  /\ args' = Buffer(TxBuffer, TxLength)
  /\ UNCHANGED <<core, handle, total_length, endpoint, hcdc, accepted, read, torn>>

\* USBD_LL_Transmit asks neither whether the endpoint is active nor whether it
\* still has a transfer, which may then complete in place of the new one.
LL_Transmit ==
  /\ Step("start", "idle")
  /\ xfer' \in {args} \cup ({xfer} \ {Idle})
  /\ UNCHANGED <<core, handle, total_length, active, hcdc, args, accepted, read, torn>>

CDC_Transmit_FS ==
  \/ CheckState \/ SetTxBuffer \/ SetTxLength \/ TransmitPacket \/ SetTxState
  \/ SetTotal \/ GetArgs \/ LL_Transmit
-----------------------------------------------------------------------------
(* The device core and the class, in the USB interrupt. *)

\* The slip of sending the last buffer again instead of an empty packet.
ZLP_again == Buffer(TxBuffer, 0)

ZLP == Buffer(NoReply, 0)

\* The slip of deciding on the length of the handle, which nothing clears.
PacketsFull_handle == TxLength > 0 /\ TxLength % MAXPACKET = 0

PacketsFull == total_length > 0 /\ total_length % MAXPACKET = 0

\* The host has read a transfer: USBD_LL_DataInStage, USBD_CDC_DataIn.
DataIn ==
  /\ active /\ xfer # Idle /\ dev_state = "CONFIGURED"
  /\ read' = IF xfer.reply = NoReply THEN read ELSE Append(read, xfer.reply)
  /\ IF PacketsFull
     THEN total_length' = 0 /\ xfer' = ZLP /\ UNCHANGED TxState
     ELSE TxState' = 0 /\ xfer' = Idle /\ UNCHANGED total_length
  /\ UNCHANGED <<core, TxBuffer, TxLength, active, mainLoop, torn>>

\* A reset or a configuration between two calls ends what an earlier cut began
\* only if it closes the endpoint.
Cut(closes) == torn' = (pc # "idle" \/ (torn /\ ~closes))

\* USBD_CDC_DeInit; closing the endpoint aborts its transfer.
DeInit ==
  /\ active' = FALSE /\ xfer' = Idle /\ pClassData' = FALSE
  /\ UNCHANGED <<handle, total_length>>
  /\ Cut(TRUE)

\* The slip of leaving TxState to the memset of the first allocation.
CDC_Init_stale ==
  /\ TxBuffer' = NoReply /\ TxLength' = 0 /\ UNCHANGED TxState
  /\ pClassData' = TRUE /\ active' = TRUE
  /\ UNCHANGED <<xfer, total_length>>
  /\ Cut(FALSE)

\* USBD_CDC_Init, with CDC_Init_FS; a transfer started while the endpoint was
\* closed is still there when it is activated.
CDC_Init ==
  /\ TxBuffer' = NoReply /\ TxLength' = 0 /\ TxState' = 0
  /\ pClassData' = TRUE /\ active' = TRUE
  /\ UNCHANGED <<xfer, total_length>>
  /\ Cut(FALSE)

\* USBD_LL_Reset, and USBD_LL_DevDisconnected.
LL_Reset ==
  /\ dev_state' = "DEFAULT" /\ DeInit
  /\ UNCHANGED <<dev_old_state, mainLoop, read>>

SetAddress ==
  /\ dev_state \in {"DEFAULT", "ADDRESSED"}
  /\ dev_state' \in {"DEFAULT", "ADDRESSED"}
  /\ UNCHANGED <<dev_old_state, pClassData, handle, total_length, endpoint, mainLoop, read, torn>>

\* USBD_SetConfig with the configuration the device has, or with none.
SetConfig ==
  /\ \/ dev_state = "ADDRESSED" /\ dev_state' = "CONFIGURED" /\ CDC_Init
     \/ dev_state = "CONFIGURED" /\ dev_state' = "ADDRESSED" /\ DeInit
     \/ dev_state = "DEFAULT" /\ dev_state' = "DEFAULT" /\ DeInit
  /\ UNCHANGED <<dev_old_state, mainLoop, read>>

\* The slip of saving the state unconditionally.
LL_Suspend_again ==
  /\ dev_old_state' = dev_state
  /\ dev_state' = "SUSPENDED"
  /\ UNCHANGED <<pClassData, handle, total_length, endpoint, mainLoop, read, torn>>

LL_Suspend ==
  /\ dev_old_state' = IF dev_state # "SUSPENDED" THEN dev_state ELSE dev_old_state
  /\ dev_state' = "SUSPENDED"
  /\ UNCHANGED <<pClassData, handle, total_length, endpoint, mainLoop, read, torn>>

LL_Resume ==
  /\ dev_state = "SUSPENDED" /\ dev_state' = dev_old_state
  /\ UNCHANGED <<dev_old_state, pClassData, handle, total_length, endpoint, mainLoop, read, torn>>
-----------------------------------------------------------------------------
Next ==
  \/ Call \/ CDC_Transmit_FS
  \/ DataIn \/ LL_Reset \/ SetAddress \/ SetConfig \/ LL_Suspend \/ LL_Resume

Spec == Init /\ [][Next]_vars

\* The main loop runs, and a host that has configured the device polls it.
FairSpec == Spec /\ WF_vars(CDC_Transmit_FS) /\ WF_vars(DataIn)
-----------------------------------------------------------------------------
Transfers == [reply : Nat, len : Nat] \cup {Idle}

TypeOK ==
  /\ dev_state \in {"DEFAULT", "ADDRESSED", "CONFIGURED", "SUSPENDED"}
  /\ dev_old_state \in {"DEFAULT", "ADDRESSED", "CONFIGURED"}
  /\ pClassData \in BOOLEAN /\ active \in BOOLEAN
  /\ hcdc \in BOOLEAN /\ torn \in BOOLEAN
  /\ TxBuffer \in Nat /\ TxLength \in Nat /\ TxState \in {0, 1}
  /\ total_length \in Nat /\ xfer \in Transfers /\ args \in Transfers
  /\ pc \in {"idle", "state", "buffer", "length", "packet", "claim", "total", "args", "start"}
  /\ call \in 0 .. MaxCalls /\ len \in Nat /\ accepted \in 0 .. MaxCalls
  /\ read \in Seq(Nat)

\* A busy device has a transfer the host can read, so its answers do not stop
\* for ever: whatever is reset or configured in the middle of CDC_Transmit_FS,
\* TxState of an active class is set only with a transfer to clear it.
TxBacked ==
  pClassData /\ TxState = 1 /\ pc \notin {"total", "args", "start"} => active /\ xfer # Idle

\* The host reads a reply at most once, and replies in the order of their calls,
\* also across resets in the middle of a call.
ReadOnce == \A j, k \in DOMAIN read : j < k => read[j] < read[k]

\* USBD_BUSY ends: while the host polls the device, the class gets out of it.
TxReleased ==
  dev_state = "CONFIGURED" /\ TxState = 1 ~> dev_state # "CONFIGURED" \/ TxState = 0

\* CDC_Transmit_FS is the slot IAPServer takes it for.
Slot == INSTANCE ReplySlot WITH
  open <- pClassData, slot <- IF pClassData /\ TxState = 1 THEN accepted ELSE 0
Implements == Slot!Spec
=============================================================================
