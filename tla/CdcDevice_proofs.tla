-------------------------- MODULE CdcDevice_proofs --------------------------
(***************************************************************************)
(* Proofs about CdcDevice, for any reply lengths, any number of calls and  *)
(* any host.                                                               *)
(***************************************************************************)
EXTENDS CdcDevice, TLAPS

\* The state the device has, or had when the bus was suspended.
State == IF dev_state = "SUSPENDED" THEN dev_old_state ELSE dev_state

\* The class is there, and its endpoint active, in the configured state only.
ClassInv ==
  /\ active = pClassData
  /\ pClassData <=> State = "CONFIGURED"

ReadBelow(n) == \A k \in DOMAIN read : read[k] < n

\* What has been read is older than what is under way, and that is older than
\* the call that runs or belongs to it.
OrderInv ==
  /\ ReadBelow(call + 1) /\ xfer.reply <= call
  /\ pc # "idle" => call > 0 /\ ReadBelow(call) /\ xfer.reply < call
  /\ xfer.reply > 0 => ReadBelow(xfer.reply)
  /\ pc \in {"length", "claim", "total", "args"} => TxBuffer \in {NoReply, call}
  /\ pc = "packet" /\ pClassData => TxBuffer \in {NoReply, call}
  /\ pc = "start" => args.reply \in {NoReply, call}

\* While no call is cut, a transfer belongs to the reply that was accepted last.
SlotInv == ~torn =>
  /\ pClassData /\ TxState = 1 => accepted > 0
  /\ pc \in {"length", "claim", "total", "args", "start"} => pClassData
  /\ pc \in {"length", "claim", "total", "args"} => TxBuffer = call
  /\ pc = "packet" /\ pClassData => TxBuffer = call
  /\ pc = "claim" => TxState = 0
  /\ pc \in {"total", "args", "start"} => TxState = 1 /\ accepted = call /\ xfer = Idle
  /\ pc = "start" => args.reply = call
  /\ xfer # Idle =>
       /\ pClassData /\ TxState = 1
       /\ xfer.reply = accepted \/ (xfer.reply = NoReply /\ Slot!Was(accepted))
-----------------------------------------------------------------------------
(* Types. *)

\* The initial state is well typed.
LEMMA TypeInit == Init => TypeOK
<1> SUFFICES ASSUME Init PROVE TypeOK
  OBVIOUS
<1>1. xfer \in Transfers /\ args \in Transfers /\ read \in Seq(Nat)
  BY DEF Init, Transfers
<1>2. call \in 0 .. MaxCalls /\ accepted \in 0 .. MaxCalls
  BY CdcAssumption DEF CdcAssumption, Init
<1> QED
  BY <1>1, <1>2 DEF Init, TypeOK, NoReply

\* Every step keeps the types.
LEMMA TypeStep == TypeOK /\ [Next]_vars => TypeOK'
<1> SUFFICES ASSUME TypeOK, [Next]_vars PROVE TypeOK'
  OBVIOUS
<1> USE CdcAssumption DEF CdcAssumption, TypeOK
<1>1. CASE Call
  BY <1>1 DEF Call, core, handle, endpoint
<1>2. CASE CheckState
  BY <1>2 DEF CheckState, Step, core, handle, endpoint
<1>3. CASE SetTxBuffer
  BY <1>3 DEF SetTxBuffer, Step, core, endpoint
<1>4. CASE SetTxLength
  BY <1>4 DEF SetTxLength, Step, core, endpoint
<1>5. CASE TransmitPacket
  BY <1>5 DEF TransmitPacket, Step, core, handle, endpoint
<1>6. CASE SetTxState
  BY <1>6 DEF SetTxState, Step, core, endpoint
<1>7. CASE SetTotal
  BY <1>7 DEF SetTotal, Step, core, handle, endpoint
<1>8. CASE GetArgs
  BY <1>8 DEF GetArgs, Buffer, Transfers, Step, core, handle, endpoint
<1>9. CASE LL_Transmit
  BY <1>9 DEF LL_Transmit, Step, core, handle
<1>10. CASE DataIn
  <2>1. read' \in Seq(Nat)
    <3>1. CASE xfer.reply = NoReply
      BY <1>10, <3>1 DEF DataIn
    <3>2. CASE xfer.reply # NoReply
      BY <1>10, <3>2 DEF DataIn, Transfers
    <3> QED
      BY <3>1, <3>2
  <2>2. xfer' \in Transfers
    BY <1>10 DEF DataIn, ZLP, Buffer, Idle, NoReply, Transfers
  <2> QED
    BY <1>10, <2>1, <2>2 DEF DataIn, core, mainLoop
<1>11. CASE LL_Reset
  BY <1>11 DEF LL_Reset, DeInit, Cut, handle, mainLoop, Transfers
<1>12. CASE SetAddress
  BY <1>12 DEF SetAddress, handle, endpoint, mainLoop
<1>13. CASE SetConfig
  <2>1. CASE CDC_Init
    BY <1>13, <2>1 DEF SetConfig, CDC_Init, Cut, mainLoop, NoReply
  <2>2. CASE DeInit
    BY <1>13, <2>2 DEF SetConfig, DeInit, Cut, handle, mainLoop, Transfers
  <2> QED
    BY <1>13, <2>1, <2>2 DEF SetConfig
<1>14. CASE LL_Suspend
  BY <1>14 DEF LL_Suspend, handle, endpoint, mainLoop
<1>15. CASE LL_Resume
  BY <1>15 DEF LL_Resume, handle, endpoint, mainLoop
<1>16. CASE UNCHANGED vars
  BY <1>16 DEF vars, core, handle, endpoint, mainLoop
<1> QED
  BY <1>1, <1>2, <1>3, <1>4, <1>5, <1>6, <1>7, <1>8, <1>9, <1>10, <1>11, <1>12, <1>13, <1>14,
     <1>15, <1>16 DEF Next, CDC_Transmit_FS
-----------------------------------------------------------------------------
(* What an interrupt does to the class. *)

\* The class and its endpoint follow the state of the device.
LEMMA ClassInit == Init => ClassInv
BY DEF Init, ClassInv, State

\* Resets and configurations open and close both together.
LEMMA ClassStep == TypeOK /\ ClassInv /\ [Next]_vars => ClassInv'
<1> SUFFICES ASSUME TypeOK, ClassInv, [Next]_vars PROVE ClassInv'
  OBVIOUS
<1> USE DEF TypeOK, ClassInv, State
<1>1. CASE Call \/ CDC_Transmit_FS
  BY <1>1 DEF Call, CDC_Transmit_FS, CheckState, SetTxBuffer, SetTxLength, TransmitPacket,
     SetTxState, SetTotal, GetArgs, LL_Transmit, core, endpoint
<1>2. CASE DataIn
  BY <1>2 DEF DataIn, core
<1>3. CASE LL_Reset
  BY <1>3 DEF LL_Reset, DeInit
<1>4. CASE SetAddress
  BY <1>4 DEF SetAddress, endpoint
<1>5. CASE SetConfig
  BY <1>5 DEF SetConfig, CDC_Init, DeInit
<1>6. CASE LL_Suspend \/ LL_Resume
  BY <1>6 DEF LL_Suspend, LL_Resume, endpoint
<1>7. CASE UNCHANGED vars
  BY <1>7 DEF vars, core, endpoint
<1> QED
  BY <1>1, <1>2, <1>3, <1>4, <1>5, <1>6, <1>7 DEF Next
-----------------------------------------------------------------------------
(* A busy class has a transfer. *)

\* Nothing is sent at first.
LEMMA BackedInit == Init => TxBacked
BY DEF Init, TxBacked

\* Only LL_Transmit leaves total, args, start, and it leaves a transfer behind; the
\* steps that end a transfer clear TxState or the class.
LEMMA BackedStep == TypeOK /\ ClassInv /\ OrderInv /\ TxBacked /\ [Next]_vars => TxBacked'
<1> SUFFICES ASSUME TypeOK, ClassInv, OrderInv, TxBacked, [Next]_vars PROVE TxBacked'
  OBVIOUS
<1> USE DEF TxBacked
<1>1. CASE Call \/ CheckState \/ SetTxBuffer \/ SetTxLength \/ TransmitPacket
  BY <1>1 DEF Call, CheckState, SetTxBuffer, SetTxLength, TransmitPacket, Step, core, handle, endpoint
<1>2. CASE SetTxState \/ SetTotal \/ GetArgs
  BY <1>2 DEF SetTxState, SetTotal, GetArgs, Step
<1>3. CASE LL_Transmit
  <2>1. args # Idle
    BY <1>3 DEF LL_Transmit, Step, OrderInv, TypeOK, Idle, NoReply
  <2> QED
    BY <1>3, <2>1 DEF LL_Transmit, Step, ClassInv, core, handle
<1>4. CASE DataIn
  BY <1>4 DEF DataIn, ZLP, Buffer, Idle, NoReply, core, mainLoop
<1>5. CASE LL_Reset \/ SetConfig
  BY <1>5 DEF LL_Reset, SetConfig, CDC_Init, DeInit
<1>6. CASE SetAddress \/ LL_Suspend \/ LL_Resume
  BY <1>6 DEF SetAddress, LL_Suspend, LL_Resume, handle, endpoint, mainLoop
<1>7. CASE UNCHANGED vars
  BY <1>7 DEF vars, core, handle, endpoint, mainLoop
<1> QED
  BY <1>1, <1>2, <1>3, <1>4, <1>5, <1>6, <1>7 DEF Next, CDC_Transmit_FS
-----------------------------------------------------------------------------
(* The order of replies. *)

\* Reading something below a bound keeps what is read below it.
LEMMA BelowRead ==
  ASSUME NEW n \in Int, NEW r \in Nat, read \in Seq(Nat), ReadBelow(n), r < n,
         read' = Append(read, r)
  PROVE  \A k \in DOMAIN read' : read'[k] < n
<1> SUFFICES ASSUME NEW k \in DOMAIN read' PROVE read'[k] < n
  OBVIOUS
<1>1. k \in 1 .. Len(read) + 1
  OBVIOUS
<1>2. CASE k = Len(read) + 1
  BY <1>2
<1>3. CASE k # Len(read) + 1
  BY <1>1, <1>3 DEF ReadBelow
<1> QED
  BY <1>2, <1>3

\* Nothing has been called or read.
LEMMA OrderInit == Init => OrderInv
BY DEF Init, OrderInv, ReadBelow, Idle

\* Every step keeps the order: a stale TxBuffer can only be sent by way of
\* CDC_Init, which clears it.
LEMMA OrderStep == TypeOK /\ OrderInv /\ [Next]_vars => OrderInv'
<1> SUFFICES ASSUME TypeOK, OrderInv, [Next]_vars PROVE OrderInv'
  OBVIOUS
<1> USE DEF OrderInv
<1>1. CASE Call
  <2>1. xfer.reply \in Int /\ call \in Int /\ \A k \in DOMAIN read : read[k] \in Int
    BY DEF TypeOK, Transfers, Idle
  <2>2. UNCHANGED <<xfer, read>> /\ call' = call + 1 /\ pc' = "state"
    BY <1>1 DEF Call, endpoint
  <2>3. ReadBelow(call + 1)' /\ ReadBelow(call)'
    BY <2>1, <2>2 DEF ReadBelow
  <2>4. xfer.reply > 0 => ReadBelow(xfer.reply)'
    BY <2>2 DEF ReadBelow
  <2> QED
    BY <2>1, <2>2, <2>3, <2>4, SMT DEF TypeOK
<1>2. CASE CheckState \/ SetTxBuffer \/ SetTxLength \/ TransmitPacket
  BY <1>2 DEF CheckState, SetTxBuffer, SetTxLength, TransmitPacket, Step, ReadBelow, TypeOK,
     core, handle, endpoint
<1>3. CASE SetTxState \/ SetTotal \/ GetArgs
  BY <1>3 DEF SetTxState, SetTotal, GetArgs, Buffer, Step, ReadBelow, TypeOK, core, handle, endpoint
<1>4. CASE LL_Transmit
  <2>1. xfer' = args \/ xfer' = xfer
    BY <1>4 DEF LL_Transmit
  <2>2. CASE xfer' = args
    BY <1>4, <2>2 DEF LL_Transmit, Step, ReadBelow, TypeOK, NoReply, core, handle
  <2>3. CASE xfer' = xfer
    BY <1>4, <2>3 DEF LL_Transmit, Step, ReadBelow, TypeOK, core, handle
  <2> QED
    BY <2>1, <2>2, <2>3
<1>5. CASE DataIn
  <2>1. xfer' \in {Idle, ZLP} /\ UNCHANGED <<mainLoop, core, TxBuffer>>
    BY <1>5 DEF DataIn
  <2>2. xfer'.reply \in {-1, 0}
    BY <2>1 DEF Idle, ZLP, Buffer, NoReply
  <2>3. CASE xfer.reply = NoReply
    <3>1. read' = read
      BY <1>5, <2>3 DEF DataIn
    <3> QED
      BY <2>1, <2>2, <3>1 DEF ReadBelow, TypeOK, mainLoop, core
  <2>4. CASE xfer.reply # NoReply
    <3>1. xfer.reply \in Nat /\ read' = Append(read, xfer.reply)
      BY <1>5, <2>4 DEF DataIn, TypeOK, Transfers
    <3>2. ReadBelow(call + 1)'
      BY <2>1, <3>1, BelowRead DEF TypeOK, mainLoop, ReadBelow
    <3>3. pc # "idle" => ReadBelow(call)'
      BY <2>1, <3>1, BelowRead DEF TypeOK, mainLoop, ReadBelow
    <3> QED
      BY <2>1, <2>2, <3>2, <3>3 DEF mainLoop, core, TypeOK
  <2> QED
    BY <2>3, <2>4
<1>6. CASE LL_Reset \/ SetConfig
  <2>1. UNCHANGED <<mainLoop, read>> /\ (DeInit \/ CDC_Init)
    BY <1>6 DEF LL_Reset, SetConfig
  <2>2. CASE DeInit
    BY <2>1, <2>2 DEF DeInit, ReadBelow, TypeOK, mainLoop, handle, Idle
  <2>3. CASE CDC_Init
    BY <2>1, <2>3 DEF CDC_Init, ReadBelow, mainLoop
  <2> QED
    BY <2>1, <2>2, <2>3
<1>7. CASE SetAddress \/ LL_Suspend \/ LL_Resume
  BY <1>7 DEF SetAddress, LL_Suspend, LL_Resume, ReadBelow, handle, endpoint, mainLoop
<1>8. CASE UNCHANGED vars
  BY <1>8 DEF vars, ReadBelow, core, handle, endpoint, mainLoop
<1> QED
  BY <1>1, <1>2, <1>3, <1>4, <1>5, <1>6, <1>7, <1>8 DEF Next, CDC_Transmit_FS

\* A reply that is read is younger than all that were read before.
LEMMA ReadOnceStep == TypeOK /\ OrderInv /\ ReadOnce /\ [Next]_vars => ReadOnce'
<1> SUFFICES ASSUME TypeOK, OrderInv, ReadOnce, [Next]_vars PROVE ReadOnce'
  OBVIOUS
<1>1. CASE DataIn /\ xfer.reply # NoReply
  <2>1. xfer.reply \in Nat /\ xfer.reply > 0 /\ read' = Append(read, xfer.reply) /\ read \in Seq(Nat)
    BY <1>1 DEF DataIn, TypeOK, Transfers, NoReply
  <2>2. ReadBelow(xfer.reply)
    BY <2>1 DEF OrderInv
  <2> SUFFICES ASSUME NEW j \in DOMAIN read', NEW k \in DOMAIN read', j < k PROVE read'[j] < read'[k]
    BY DEF ReadOnce
  <2>3. j \in 1 .. Len(read) /\ k \in 1 .. Len(read) + 1
    BY <2>1
  <2>4. CASE k = Len(read) + 1
    BY <2>1, <2>2, <2>3, <2>4 DEF ReadBelow
  <2>5. CASE k # Len(read) + 1
    BY <2>1, <2>3, <2>5 DEF ReadOnce
  <2> QED
    BY <2>4, <2>5
<1>2. CASE UNCHANGED read
  BY <1>2 DEF ReadOnce
<1>3. (DataIn /\ xfer.reply # NoReply) \/ UNCHANGED read
  BY DEF Next, CDC_Transmit_FS, Call, CheckState, SetTxBuffer, SetTxLength, TransmitPacket,
     SetTxState, SetTotal, GetArgs, LL_Transmit, DataIn, LL_Reset, SetAddress, SetConfig,
     LL_Suspend, LL_Resume, vars
<1> QED
  BY <1>1, <1>2, <1>3
-----------------------------------------------------------------------------
(* The slot. *)

\* Nothing is accepted at first.
LEMMA SlotInit == Init => SlotInv
BY DEF Init, SlotInv

\* While no call is cut a transfer belongs to the accepted reply.
LEMMA SlotStep ==
  TypeOK /\ ClassInv /\ OrderInv /\ SlotInv /\ [Next]_vars => SlotInv'
<1> SUFFICES ASSUME TypeOK, ClassInv, OrderInv, SlotInv, [Next]_vars, ~torn' PROVE SlotInv'
  BY DEF SlotInv
<1> USE DEF SlotInv
<1>1. CASE Call \/ CDC_Transmit_FS
  <2>0. ~torn
    BY <1>1 DEF Call, CDC_Transmit_FS, CheckState, SetTxBuffer, SetTxLength, TransmitPacket,
       SetTxState, SetTotal, GetArgs, LL_Transmit
  <2>1. CASE Call \/ CheckState \/ SetTxBuffer \/ SetTxLength \/ TransmitPacket
    BY <2>0, <2>1 DEF Call, CheckState, SetTxBuffer, SetTxLength, TransmitPacket, Busy, Step,
       Slot!Was, TypeOK, core, handle, endpoint
  <2>2. CASE SetTxState
    BY <2>0, <2>2 DEF SetTxState, Step, OrderInv, TypeOK, core, endpoint
  <2>3. CASE SetTotal \/ GetArgs
    BY <2>0, <2>3 DEF SetTotal, GetArgs, Buffer, Step, core, handle, endpoint
  <2>4. CASE LL_Transmit
    BY <2>0, <2>4 DEF LL_Transmit, Step, core, handle
  <2> QED
    BY <1>1, <2>1, <2>2, <2>3, <2>4 DEF CDC_Transmit_FS
<1>2. CASE DataIn
  <2>0. ~torn /\ UNCHANGED <<core, TxBuffer, mainLoop>> /\ xfer # Idle
    BY <1>2 DEF DataIn
  <2>1. pClassData /\ TxState = 1 /\ pc \notin {"claim", "total", "args", "start"}
    BY <2>0
  <2>2. CASE xfer' = Idle
    BY <2>0, <2>1, <2>2 DEF core, mainLoop
  <2>3. CASE xfer' = ZLP /\ TxState' = TxState
    <3>1. xfer'.reply = NoReply
      BY <2>3 DEF ZLP, Buffer
    <3>2. Slot!Was(accepted)'
      <4>1. CASE xfer.reply = NoReply
        <5>1. read' = read /\ accepted' = accepted
          BY <1>2, <2>0, <4>1 DEF DataIn, mainLoop
        <5>2. Slot!Was(accepted)
          BY <2>0, <2>1, <4>1 DEF NoReply
        <5> QED
          BY <5>1, <5>2 DEF Slot!Was
      <4>2. CASE xfer.reply # NoReply
        <5>1. accepted' = xfer.reply /\ read' = Append(read, xfer.reply) /\ read \in Seq(Nat)
          BY <1>2, <2>0, <4>2 DEF DataIn, mainLoop, TypeOK
        <5>2. Len(read) + 1 \in DOMAIN read' /\ read'[Len(read) + 1] = accepted'
          BY <5>1
        <5> QED
          BY <5>2 DEF Slot!Was
      <4> QED
        BY <4>1, <4>2
    <3> QED
      BY <2>0, <2>1, <2>3, <3>1, <3>2 DEF core, mainLoop
  <2> QED
    BY <1>2, <2>2, <2>3 DEF DataIn
<1>3. CASE (LL_Reset \/ SetConfig) /\ DeInit
  <2>1. pc' = "idle" /\ xfer' = Idle /\ ~pClassData'
    BY <1>3 DEF LL_Reset, SetConfig, DeInit, Cut, mainLoop
  <2> QED
    BY <2>1
<1>4. CASE SetConfig /\ CDC_Init
  <2>1. pc' = "idle" /\ TxState' = 0 /\ ~torn /\ xfer' = xfer
    BY <1>4 DEF SetConfig, CDC_Init, Cut, mainLoop
  <2>2. ~pClassData
    BY <1>4 DEF SetConfig, CDC_Init, DeInit, ClassInv, State, TypeOK
  <2> QED
    BY <2>1, <2>2
<1>5. CASE SetAddress \/ LL_Suspend \/ LL_Resume
  BY <1>5 DEF SetAddress, LL_Suspend, LL_Resume, Slot!Was, handle, endpoint, mainLoop
<1>6. CASE UNCHANGED vars
  BY <1>6 DEF vars, Slot!Was, core, handle, endpoint, mainLoop
<1> QED
  BY <1>1, <1>2, <1>3, <1>4, <1>5, <1>6 DEF Next, LL_Reset, SetConfig
-----------------------------------------------------------------------------
(* Theorems. *)

IInv == TypeOK /\ ClassInv /\ OrderInv /\ TxBacked /\ SlotInv

\* The inductive invariant.
LEMMA Invariance == Spec => []IInv
<1>1. Init => IInv
  BY TypeInit, ClassInit, OrderInit, BackedInit, SlotInit DEF IInv
<1>2. IInv /\ [Next]_vars => IInv'
  BY TypeStep, ClassStep, OrderStep, BackedStep, SlotStep DEF IInv
<1> QED
  BY <1>1, <1>2, PTL DEF Spec

\* Every variable keeps its type.
THEOREM CdcTypeCorrect == Spec => []TypeOK
BY Invariance, PTL DEF IInv

\* Whatever the host resets or configures in the middle of CDC_Transmit_FS, a
\* class that says it is busy has a transfer whose end will say it is not.
THEOREM CdcBacked == Spec => []TxBacked
BY Invariance, PTL DEF IInv

\* No reply is read twice or after a later one, cut calls and transfers left
\* over on a closed endpoint included.
THEOREM CdcReadOnce == Spec => []ReadOnce
<1>1. Init => ReadOnce
  BY DEF Init, ReadOnce
<1>2. IInv /\ ReadOnce /\ [Next]_vars => ReadOnce'
  BY ReadOnceStep DEF IInv
<1> QED
  BY <1>1, <1>2, Invariance, PTL DEF Spec

\* CDC_Transmit_FS with the class and the device core implements the slot.
THEOREM CdcImplements == Spec => Implements
<1>1. Init => Slot!Init
  BY DEF Init, Slot!Init
<1>2. IInv /\ [Next]_vars =>
        [Slot!Next]_<<pClassData, IF pClassData /\ TxState = 1 THEN accepted ELSE 0, read, torn>>
  <2> SUFFICES ASSUME IInv, [Next]_vars, ~torn, ~torn'
        PROVE [Slot!Next]_<<pClassData, IF pClassData /\ TxState = 1 THEN accepted ELSE 0, read, torn>>
    BY DEF IInv, TypeOK, Slot!Next
  <2> USE DEF IInv, TypeOK
  <2> DEFINE slot == IF pClassData /\ TxState = 1 THEN accepted ELSE 0
  <2>1. CASE SetTxState
    <3>1. pClassData /\ slot = 0 /\ slot' = call /\ slot' > 0 /\ UNCHANGED <<pClassData, read, torn>>
      BY <2>1 DEF SetTxState, Step, SlotInv, OrderInv, core
    <3>2. ~Slot!Was(slot')
      BY <2>1, <3>1 DEF SetTxState, Step, Slot!Was, OrderInv, ReadBelow
    <3> QED
      BY <3>1, <3>2 DEF Slot!Next, Slot!Put
  <2>2. CASE DataIn
    <3>1. /\ UNCHANGED <<pClassData, accepted, torn>> /\ xfer # Idle
          /\ pClassData /\ TxState = 1 /\ accepted > 0
          /\ xfer.reply = accepted \/ (xfer.reply = NoReply /\ Slot!Was(accepted))
      BY <2>2 DEF DataIn, SlotInv, core, mainLoop
    <3>2. slot = accepted /\ slot' \in {0, accepted}
      BY <3>1
    <3>3. CASE xfer.reply = accepted
      <4>1. read' = Append(read, slot)
        BY <2>2, <3>1, <3>2, <3>3 DEF DataIn, NoReply
      <4>2. ~Slot!Was(slot)
        BY <3>1, <3>2, <3>3 DEF Slot!Was, OrderInv, ReadBelow
      <4> QED
        BY <3>1, <3>2, <4>1, <4>2 DEF Slot!Next, Slot!Take
    <3>4. CASE xfer.reply = NoReply /\ Slot!Was(accepted)
      <4>1. read' = read
        BY <2>2, <3>4 DEF DataIn
      <4> QED
        BY <3>1, <3>2, <3>4, <4>1 DEF Slot!Next, Slot!Free
    <3> QED
      BY <3>1, <3>3, <3>4
  <2>3. CASE (LL_Reset \/ SetConfig) /\ DeInit
    <3>1. ~pClassData' /\ slot' = 0 /\ UNCHANGED <<read, torn>>
      BY <2>3 DEF LL_Reset, SetConfig, DeInit, Cut
    <3> QED
      BY <3>1 DEF Slot!Next, Slot!Close
  <2>4. CASE SetConfig /\ CDC_Init
    <3>1. ~pClassData
      BY <2>4 DEF SetConfig, CDC_Init, DeInit, ClassInv, State
    <3>2. pClassData' = TRUE /\ TxState' = 0 /\ UNCHANGED <<read, torn>>
      BY <2>4 DEF SetConfig, CDC_Init, Cut
    <3>3. slot = 0 /\ slot' = 0
      BY <3>1, <3>2
    <3> QED
      BY <3>1, <3>2, <3>3 DEF Slot!Next, Slot!Open
  <2>5. CASE UNCHANGED <<pClassData, TxState, accepted, read, torn>>
    BY <2>5
  <2> QED
    BY <2>1, <2>2, <2>3, <2>4, <2>5 DEF Next, CDC_Transmit_FS, Call, CheckState, SetTxBuffer,
       SetTxLength, TransmitPacket, SetTotal, GetArgs, LL_Transmit, LL_Reset, SetAddress,
       SetConfig, LL_Suspend, LL_Resume, vars, core, handle, mainLoop
<1> QED
  BY <1>1, <1>2, Invariance, PTL DEF Spec, Implements, Slot!Spec
=============================================================================
