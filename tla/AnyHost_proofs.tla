---------------------------- MODULE AnyHost_proofs ----------------------------
(***************************************************************************)
(* Proofs about AnyHost: what the bootloader guarantees whoever sends      *)
(* whatever, for every flash geometry, buffer size and set of images.      *)
(***************************************************************************)
EXTENDS AnyHost, FlashLayout_proofs

\* What the USB interrupt, the TCP callbacks other than _recv and the replies do to the
\* main loop's state.
LEMMA Outside ==
  ASSUME \/ UsbPacket \/ TCP_accept \/ ReplyRead \/ TCP_closed
  PROVE  /\ UNCHANGED <<recvVars, expVars, keptVars>>
         /\ \/ UNCHANGED mainVars
            \/ pc = "lwip" /\ rb = 0 /\ pc' = pc /\ rb' = 1
<1>1. CASE UsbPacket
  <2>1. PICK Buf, n : IAP_data_recv("IAP_CDC", Buf, n)
    BY <1>1 DEF UsbPacket, CDC_Receive_FS
  <2> QED BY <2>1 DEF IAP_data_recv
<1>2. CASE ReplyRead
  BY <1>2 DEF ReplyRead, CdcTaken, TcpTaken
<1>3. CASE TCP_accept
  BY <1>3 DEF TCP_accept
<1>4. CASE TCP_closed
  BY <1>4 DEF TCP_closed, At
<1> QED BY <1>1, <1>2, <1>3, <1>4

\* The places of the main loop inside lwIP's IAP_data_recv.
RecvLabels == {"recv_copy", "recv_store", "recv_test", "recv_flag"}

\* Of the state that outlives it, that call touches what is in RXBuffer only.
LEMMA Received ==
  ASSUME Receiving
  PROVE  /\ UNCHANGED <<recvVars, expVars, keptVars, linkVars>>
         /\ rb = 0 /\ rb' = 0
         /\ pc \in RecvLabels \union {"lwip"} /\ pc' \in RecvLabels \union {"lwip"}
  BY DEF Receiving, TcpSegment, recv_copy, recv_store, recv_test, recv_flag, At, Goto, RecvLabels

LEMMA Restarts ==
  ASSUME SystemReset \/ FromApp \/ PowerFails
  PROVE  pc' = "startup" /\ rb' = 0 /\ received_bytes' = 0 /\ current_status' = "IDLE"
  BY DEF SystemReset, FromApp, AppTrigger, PowerFails, PowerCycle, Reboot
-----------------------------------------------------------------------------
(* Where an upload begins.                                                 *)

\* received_bytes is 0 between uploads.  reset_buf clears it before it says IDLE,
\* and runs only where nothing is being received.
IdleAtBase ==
  /\ rb \in 0 .. 6
  /\ rb # 0 => pc \in {"lwip", "reply_fail", "reset"}
  /\ rb > 3 => received_bytes = 0
  /\ current_status = "IDLE" => received_bytes = 0 /\ pc \notin {"write", "count"}

LEMMA IdleAtBaseKept ==
  ASSUME IdleAtBase, [Next]_vars
  PROVE  IdleAtBase'
<1> USE DEF IdleAtBase, mainVars, rxVars, recvVars, expVars, keptVars, linkVars, At, Goto
<1>1. CASE reset_buf
  BY <1>1 DEF reset_buf
<1>2. CASE \/ UsbPacket \/ TCP_accept \/ ReplyRead \/ TCP_closed
  BY <1>2, Outside
<1>3. CASE SystemReset \/ FromApp \/ PowerFails
  BY <1>3, Restarts
<1>4. CASE server_init \/ task_test \/ task_clear \/ dispatch \/ lwip_done
  BY <1>4 DEF server_init, task_test, task_clear, dispatch, lwip_done
<1>5. CASE erase \/ write \/ count \/ consume \/ verify \/ idle_done
  BY <1>5 DEF erase, write, count, consume, verify, idle_done
<1>6. CASE reply_idle \/ reply_fail \/ reply_block \/ reply_bad
  BY <1>6 DEF reply_idle, reply_fail, reply_block, reply_bad
<1>7. CASE Receiving
  BY <1>7, Received DEF RecvLabels
<1>8. CASE UNCHANGED vars
  BY <1>8 DEF vars, serverVars
<1> QED BY <1>1, <1>2, <1>3, <1>4, <1>5, <1>6, <1>7, <1>8 DEF Next, Server

\* However the last upload was broken off, by whom and when, the next one begins at
\* the start of the application area.
THEOREM StartsAtBase == Spec => UploadStartsAtBase
<1>1. Init => IdleAtBase
  BY DEF Init, ServerInit, IdleAtBase
<1>2. IdleAtBase /\ [Next]_vars => IdleAtBase'
  BY IdleAtBaseKept
<1>3. IdleAtBase /\ [Next]_vars =>
        [current_status = "IDLE" /\ current_status' = "FLASH_RECEIVE" => received_bytes = 0]_vars
  BY DEF IdleAtBase
<1> QED BY <1>1, <1>2, <1>3, PTL DEF Spec, UploadStartsAtBase
-----------------------------------------------------------------------------
(* The interrupt's flag.                                                   *)

\* Every packet has a length.
LEMMA PacketWidth ==
  ASSUME NEW Buf \in Packets
  PROVE  Width(Buf) \in Nat /\ DOMAIN Buf = 0 .. Width(Buf) - 1
<1>1. \E n \in 1 .. MaxPacket : DOMAIN Buf = 0 .. n - 1
  <2>1. CASE \E c \in Commands : Buf = [i \in {0} |-> c]
    <3>1. DOMAIN Buf = 0 .. 1 - 1
      BY <2>1
    <3>2. 1 \in 1 .. MaxPacket
      BY PacketAssumption DEF PacketAssumption
    <3> QED BY <3>1, <3>2
  <2>2. CASE \E m \in Images : Buf \in Pieces(m)
    <3>1. PICK m \in Images : Buf \in Pieces(m)
      BY <2>2
    <3>2. PICK n \in 1 .. Min2(MaxPacket, Size[m]) : DOMAIN Buf = 0 .. n - 1
      BY <3>1 DEF Pieces
    <3>3. n \in 1 .. MaxPacket
      BY <3>1, <3>2, PacketAssumption, ServerAssumption DEF PacketAssumption, ServerAssumption, Min2
    <3> QED BY <3>2, <3>3
  <2> QED BY <2>1, <2>2 DEF Packets
<1> QED BY <1>1 DEF Width

\* Is the buffer full or the image complete with l cells in it?
EnoughAt(l) == l >= IAP_RX_BUFFER_SIZE \/ received_bytes + l >= expected_size

\* The length lwIP's IAP_data_recv goes by is a number, and before its test it is the
\* length itself, unless the interrupt has raised that since: then it has set the flag
\* where there was enough.
CallInv ==
  /\ DOMAIN call = {"Buf", "n", "len", "over"} /\ call.n \in Nat /\ call.len \in Nat
  /\ pc = "recv_test" =>
       data_is_ready \/ len_in_RX_buffer = call.len + call.n \/ ~ EnoughAt(len_in_RX_buffer)

\* Counters are numbers, and an upload is neither dispatched nor being reset when
\* the main loop goes on.
CountersOK ==
  /\ len_in_RX_buffer \in Nat /\ received_bytes \in Nat
  /\ rb \in 0 .. 6
  /\ pc \in {"dispatch", "erase"} \/ rb = 6 => current_status = "IDLE"
  /\ pc = "reply_fail" /\ rb = 0 => current_status = "IDLE"

WakeInv == CallInv /\ CountersOK

\* What the interrupt leaves behind: the flag is set when it fills the buffer or
\* completes the image.
LEMMA RecvWakes ==
  ASSUME WakeInv, NoLostWakeup, UsbPacket
  PROVE  WakeInv' /\ NoLostWakeup'
<1> USE DEF mainVars, rxVars, recvVars, expVars, keptVars, linkVars
<1>1. PICK Buf \in Packets : IAP_data_recv("IAP_CDC", Buf, Width(Buf))
  BY DEF UsbPacket, CDC_Receive_FS
<1>2. PICK n : n \in Nat /\ IAP_data_recv("IAP_CDC", Buf, n)
  BY <1>1, PacketWidth
<1>3. UNCHANGED <<pc, rb, received_bytes, current_status, expected_size>>
  BY <1>2 DEF IAP_data_recv
<1>4. DOMAIN call' = DOMAIN call /\ UNCHANGED <<call.n, call.len>>
  <2>1. \/ call' = call
        \/ \E v : call' = [call EXCEPT !.over = v]
    BY DEF UsbPacket
  <2> QED BY <2>1 DEF WakeInv, CallInv
<1>5. len_in_RX_buffer' \in Nat /\ (data_is_ready' \/ ~ EnoughAt(len_in_RX_buffer)')
  <2>1. CASE current_status = "IDLE"
    <3>1. len_in_RX_buffer' = Min2(n, IAP_RX_BUFFER_SIZE) /\ data_is_ready' = TRUE
      BY <1>2, <2>1 DEF IAP_data_recv
    <3> QED BY <1>2, <3>1, ServerAssumption DEF ServerAssumption, Min2
  <2>2. CASE current_status # "IDLE"
    <3>1. /\ len_in_RX_buffer' = len_in_RX_buffer + n
          /\ data_is_ready' = (\/ data_is_ready
                               \/ len_in_RX_buffer + n >= IAP_RX_BUFFER_SIZE
                               \/ received_bytes + len_in_RX_buffer + n >= expected_size)
      BY <1>2, <2>2 DEF IAP_data_recv
    <3>2. received_bytes + len_in_RX_buffer' = received_bytes + len_in_RX_buffer + n
      BY <1>2, <3>1 DEF WakeInv, CountersOK
    <3> QED BY <1>2, <1>3, <3>1, <3>2 DEF WakeInv, CountersOK, EnoughAt
  <2> QED BY <2>1, <2>2
<1>6. CallInv'
  BY <1>3, <1>4, <1>5 DEF WakeInv, CallInv
<1>7. NoLostWakeup'
  BY <1>3, <1>5 DEF NoLostWakeup, EnoughAt
<1> QED BY <1>3, <1>5, <1>6, <1>7 DEF WakeInv, CountersOK

\* lwIP's IAP_data_recv sets it as well, though it may go by an older length: it sets the
\* length to that one first.
LEMMA SegmentWakes ==
  ASSUME WakeInv, NoLostWakeup, Receiving
  PROVE  WakeInv' /\ NoLostWakeup'
<1> USE DEF At, Goto, mainVars, rxVars, recvVars, expVars, keptVars, linkVars
<1>1. /\ UNCHANGED <<received_bytes, current_status, expected_size>> /\ rb = 0 /\ rb' = 0
      /\ len_in_RX_buffer \in Nat /\ received_bytes \in Nat /\ call.n \in Nat /\ call.len \in Nat
      /\ DOMAIN call = {"Buf", "n", "len", "over"}
  BY Received DEF WakeInv, CallInv, CountersOK
<1>2. ASSUME len_in_RX_buffer' \in Nat, CallInv', NoLostWakeup'
      PROVE  WakeInv' /\ NoLostWakeup'
  <2>1. pc' \in RecvLabels \union {"lwip"}
    BY Received
  <2> QED BY <1>1, <1>2, <2>1 DEF WakeInv, CountersOK, RecvLabels
<1>3. CASE TcpSegment
  <2>1. /\ UNCHANGED <<data_is_ready, len_in_RX_buffer>> /\ pc = "lwip" /\ pc' = "recv_copy"
    BY <1>3 DEF TcpSegment
  <2>2. PICK Buf \in Packets :
          call' = [Buf  |-> Buf,
                   n    |-> IF current_status = "IDLE" THEN Min2(Width(Buf), IAP_RX_BUFFER_SIZE)
                                                       ELSE Width(Buf),
                   len  |-> IF current_status = "IDLE" THEN 0 ELSE len_in_RX_buffer,
                   over |-> 0]
    BY <1>3 DEF TcpSegment
  <2>3. Width(Buf) \in Nat /\ Min2(Width(Buf), IAP_RX_BUFFER_SIZE) \in Nat
    BY PacketWidth, ServerAssumption DEF ServerAssumption, Min2
  <2>4. CallInv'
    BY <1>1, <2>1, <2>2, <2>3 DEF CallInv
  <2>5. NoLostWakeup'
    BY <1>1, <2>1 DEF NoLostWakeup
  <2> QED BY <1>1, <1>2, <2>1, <2>4, <2>5
<1>4. CASE recv_copy
  <2>1. /\ UNCHANGED <<data_is_ready, len_in_RX_buffer>> /\ pc = "recv_copy" /\ pc' = "recv_store"
        /\ \E l \in {call.len, len_in_RX_buffer} : call' = [call EXCEPT !.len = l]
    BY <1>4 DEF recv_copy
  <2>2. CallInv'
    BY <1>1, <2>1 DEF CallInv
  <2>3. NoLostWakeup'
    BY <1>1, <2>1 DEF NoLostWakeup
  <2> QED BY <1>1, <1>2, <2>1, <2>2, <2>3
<1>5. CASE recv_store
  <2>1. /\ UNCHANGED <<data_is_ready, call>> /\ len_in_RX_buffer' = call.len + call.n
        /\ pc' = IF current_status = "IDLE" THEN "recv_flag" ELSE "recv_test"
    BY <1>5 DEF recv_store
  <2>2. CallInv'
    BY <1>1, <2>1 DEF CallInv
  <2>3. NoLostWakeup'
    BY <2>1 DEF NoLostWakeup
  <2> QED BY <1>1, <1>2, <2>1, <2>2, <2>3
<1>6. CASE recv_test
  <2>1. /\ UNCHANGED <<data_is_ready, len_in_RX_buffer, call>> /\ pc = "recv_test"
        /\ \/ pc' = "recv_flag"
           \/ /\ pc' = "lwip"
              /\ ~ EnoughAt(call.len + call.n) \/ ~ EnoughAt(len_in_RX_buffer)
    BY <1>6 DEF recv_test, EnoughAt
  <2>2. pc' = "lwip" => data_is_ready \/ ~ EnoughAt(len_in_RX_buffer)
    BY <2>1 DEF WakeInv, CallInv
  <2>3. CallInv'
    BY <1>1, <2>1 DEF CallInv
  <2>4. NoLostWakeup'
    BY <1>1, <2>1, <2>2 DEF NoLostWakeup, EnoughAt
  <2> QED BY <1>1, <1>2, <2>1, <2>3, <2>4
<1>7. CASE recv_flag
  <2>1. UNCHANGED <<len_in_RX_buffer, call>> /\ data_is_ready' = TRUE /\ pc' = "lwip"
    BY <1>7 DEF recv_flag
  <2> QED BY <1>1, <1>2, <2>1 DEF NoLostWakeup, CallInv
<1> QED BY <1>3, <1>4, <1>5, <1>6, <1>7 DEF Receiving

\* The main loop comes to lwIP's test through SegmentWakes' steps only.
LEMMA CallKept ==
  ASSUME IdleAtBase, WakeInv, (Server /\ UNCHANGED call) \/ UNCHANGED vars
  PROVE  CallInv'
<1> USE DEF mainVars, rxVars, recvVars, expVars, keptVars, linkVars, At, Goto
<1>1. call' = call
  BY DEF vars
<1>2. \/ pc' # "recv_test"
      \/ UNCHANGED <<pc, data_is_ready, len_in_RX_buffer, received_bytes, expected_size>>
  <2>1. CASE \/ server_init \/ task_test \/ task_clear \/ dispatch \/ erase \/ reply_idle
             \/ idle_done \/ write \/ reply_fail \/ count \/ consume \/ reply_block \/ verify
             \/ reply_bad \/ lwip_done
    BY <2>1 DEF server_init, task_test, task_clear, dispatch, erase, reply_idle, idle_done, write,
                reply_fail, count, consume, reply_block, verify, reply_bad, lwip_done
  <2>2. CASE SystemReset \/ FromApp \/ PowerFails
    BY <2>2, Restarts
  <2>3. CASE TCP_accept \/ ReplyRead \/ TCP_closed
    BY <2>3 DEF TCP_accept, TCP_closed, ReplyRead, CdcTaken, TcpTaken
  <2>4. CASE reset_buf
    <3>1. pc' = pc /\ rb \in 1 .. 6
      BY <2>4 DEF reset_buf
    <3>2. pc \in {"lwip", "reply_fail", "reset"}
      BY <3>1 DEF IdleAtBase
    <3> QED BY <3>1, <3>2
  <2>5. CASE UNCHANGED vars
    BY <2>5 DEF vars, serverVars
  <2> QED BY <2>1, <2>2, <2>3, <2>4, <2>5 DEF Server
<1> QED BY <1>1, <1>2 DEF WakeInv, CallInv, EnoughAt

\* So do the steps of the main loop outside that call.
LEMMA ServerWakes ==
  ASSUME WakeInv, NoLostWakeup, Server \/ UNCHANGED vars
  PROVE  CountersOK' /\ NoLostWakeup'
<1> USE ServerAssumption DEF ServerAssumption, WakeInv, CountersOK, NoLostWakeup,
        mainVars, rxVars, recvVars, expVars, keptVars, linkVars, At, Goto
<1>1. CASE TCP_accept \/ ReplyRead \/ TCP_closed
  BY <1>1 DEF TCP_accept, TCP_closed, ReplyRead, CdcTaken, TcpTaken
<1>2. CASE SystemReset \/ FromApp \/ PowerFails
  <2>1. /\ current_status' = "IDLE" /\ len_in_RX_buffer' = 0 /\ received_bytes' = 0
        /\ data_is_ready' = FALSE /\ rb' = 0 /\ pc' = "startup"
    BY <1>2 DEF SystemReset, FromApp, AppTrigger, PowerFails, PowerCycle, Reboot
  <2> QED BY <2>1
<1>3. CASE server_init \/ task_test \/ lwip_done
  BY <1>3 DEF server_init, task_test, lwip_done
<1>4. CASE task_clear
  BY <1>4 DEF task_clear
<1>5. CASE dispatch
  <2>1. /\ current_status' = "IDLE" /\ UNCHANGED <<len_in_RX_buffer, received_bytes, data_is_ready>>
        /\ rb' \in 0 .. 6 /\ pc' # "reply_fail"
    BY <1>5 DEF dispatch
  <2> QED BY <2>1
<1>6. CASE erase \/ idle_done
  BY <1>6 DEF erase, idle_done
<1>7. CASE write \/ count \/ consume \/ verify
  BY <1>7 DEF write, count, consume, verify
<1>8. CASE reply_idle \/ reply_fail \/ reply_block \/ reply_bad
  BY <1>8 DEF reply_idle, reply_fail, reply_block, reply_bad, send_response
<1>9. CASE reset_buf
  <2>1. /\ rb \in 1 .. 6 /\ rb' = IF rb = 6 THEN 0 ELSE rb + 1
        /\ data_is_ready' = IF rb = 1 THEN FALSE ELSE data_is_ready
        /\ len_in_RX_buffer' = IF rb = 2 THEN 0 ELSE len_in_RX_buffer
        /\ received_bytes' = IF rb = 3 THEN 0 ELSE received_bytes
        /\ current_status' = IF rb = 5 THEN "IDLE" ELSE current_status
        /\ pc' = pc
    BY <1>9 DEF reset_buf
  <2>2. CASE rb = 6
    BY <2>1, <2>2
  <2>3. CASE rb # 6
    <3>1. rb' \in 2 .. 6 /\ (rb' = 6 => rb = 5)
      BY <2>1, <2>3
    <3> QED BY <2>1, <3>1
  <2> QED BY <2>2, <2>3
<1>10. CASE UNCHANGED vars
  BY <1>10 DEF vars, serverVars
<1> QED BY <1>1, <1>2, <1>3, <1>4, <1>5, <1>6, <1>7, <1>8, <1>9, <1>10 DEF Server

\* Every step keeps the flag, or takes the buffer to the statements that empty it.
LEMMA WakeKept ==
  ASSUME IdleAtBase, WakeInv, NoLostWakeup, [Next]_vars
  PROVE  WakeInv' /\ NoLostWakeup'
<1>1. CASE UsbPacket
  BY <1>1, RecvWakes
<1>2. CASE Receiving
  BY <1>2, SegmentWakes
<1>3. CASE (Server /\ UNCHANGED call) \/ UNCHANGED vars
  <2>1. CallInv'
    BY <1>3, CallKept
  <2>2. CountersOK' /\ NoLostWakeup'
    BY <1>3, ServerWakes
  <2> QED BY <2>1, <2>2 DEF WakeInv
<1> QED BY <1>1, <1>2, <1>3 DEF Next

LEMMA WakeInit == Init => IdleAtBase /\ WakeInv /\ NoLostWakeup
<1> SUFFICES ASSUME Init PROVE IdleAtBase /\ WakeInv /\ NoLostWakeup
  OBVIOUS
<1>1. /\ pc = "startup" /\ rb = 0 /\ len_in_RX_buffer = 0 /\ received_bytes = 0
      /\ current_status = "IDLE" /\ data_is_ready = FALSE
      /\ call = [Buf |-> <<>>, n |-> 0, len |-> 0, over |-> 0]
  BY DEF Init, ServerInit
<1> QED BY <1>1 DEF IdleAtBase, WakeInv, CallInv, CountersOK, NoLostWakeup

\* The interrupt's flag is not lost, wherever it falls into IAP_task, process_command,
\* reset_buf or lwIP's own IAP_data_recv, for every buffer size and every image.
THEOREM WakeupKept == Spec => []NoLostWakeup
<1>1. Init => IdleAtBase /\ WakeInv /\ NoLostWakeup
  BY WakeInit
<1>2. IdleAtBase /\ WakeInv /\ NoLostWakeup /\ [Next]_vars
        => (IdleAtBase /\ WakeInv /\ NoLostWakeup)'
  BY IdleAtBaseKept, WakeKept
<1> QED BY <1>1, <1>2, PTL DEF Spec
-----------------------------------------------------------------------------
(* What a write may destroy.                                               *)

\* Nothing has been programmed from offset n to the end of the announced image.
ClearFrom(n) == \A o \in Offsets : n <= o /\ o < expected_size => flash[o] = Erased

\* The next cell to be programmed is erased: the image is not complete, or it is
\* empty and nothing has come, for which Erase_FLASH erases a sector as well.
NextErased ==
  /\ received_bytes < expected_size \/ received_bytes = 0
  /\ flash[received_bytes] = Erased

\* Once an upload is complete the main loop goes on to the check, which ends it.
Ending == {"consume", "reply_block", "verify", "commit", "reply_bad"}

\* While the interrupt appends, count finds a length that covers what was written.
EraseInv ==
  /\ expected_size \in 0 .. BankOneRoom
  /\ current_status \in {"IDLE", "FLASH_RECEIVE"}
  /\ current_status = "FLASH_RECEIVE" /\ rb = 0 =>
       /\ pc = "count" => ClearFrom(received_bytes + len_in_RX_buffer)
       /\ pc # "count" => ClearFrom(received_bytes)
       /\ pc \notin Ending \union {"count"} => NextErased

\* A cell that announces an image names one.
NamesImage(c) == c.kind = "flash" => c.img \in Images
BufferInv ==
  /\ \A i \in RXIndex : NamesImage(RXBuffer[i])
  /\ pc = "recv_copy" => \A i \in 0 .. call.n - 1 : NamesImage(call.Buf[i])

UploadInv == IdleAtBase /\ WakeInv /\ BufferInv /\ EraseInv

\* What arrives are commands and pieces of images.
LEMMA PacketCells ==
  ASSUME NEW Buf \in Packets, NEW i \in DOMAIN Buf
  PROVE  NamesImage(Buf[i])
<1>1. CASE \E c \in Commands : Buf = [j \in {0} |-> c]
  <2>1. PICK c \in Commands : Buf = [j \in {0} |-> c]
    BY <1>1
  <2>2. Buf[i] = c
    BY <2>1
  <2>3. CASE \E k \in CommandKinds : c = Plain(k)
    BY <2>2, <2>3, PacketAssumption DEF PacketAssumption, NamesImage, Plain
  <2>4. CASE \E m \in Images : c = FlashCmd(m)
    BY <2>2, <2>4 DEF NamesImage, FlashCmd
  <2> QED BY <2>1, <2>3, <2>4 DEF Commands
<1>2. CASE \E m \in Images : Buf \in Pieces(m)
  <2>1. PICK m \in Images : Buf \in Pieces(m)
    BY <1>2
  <2>2. PICK n \in 1 .. Min2(MaxPacket, Size[m]) :
          Buf \in {[j \in 0 .. n - 1 |-> Byte(m, o + j)] : o \in 0 .. Size[m] - n}
    BY <2>1 DEF Pieces
  <2>3. PICK o \in 0 .. Size[m] - n : Buf = [j \in 0 .. n - 1 |-> Byte(m, o + j)]
    BY <2>2
  <2>4. Buf[i] = Byte(m, o + i)
    BY <2>3
  <2> QED BY <2>4 DEF NamesImage, Byte
<1> QED BY <1>1, <1>2 DEF Packets

\* A packet copied into the buffer.
LEMMA CopiedCells ==
  ASSUME BufferInv, NEW Buf \in Packets, NEW at \in Nat, NEW n \in Nat, n <= Width(Buf)
  PROVE  \A i \in RXIndex : NamesImage(Copied(at, Buf, n)[i])
<1> SUFFICES ASSUME NEW i \in RXIndex PROVE NamesImage(Copied(at, Buf, n)[i])
  OBVIOUS
<1>1. CASE at <= i /\ i < at + n
  <2>1. i - at \in DOMAIN Buf
    BY <1>1, PacketWidth, ServerAssumption DEF ServerAssumption, RXIndex
  <2>2. Copied(at, Buf, n)[i] = Buf[i - at]
    BY <1>1 DEF Copied
  <2> QED BY <2>1, <2>2, PacketCells
<1>2. CASE ~ (at <= i /\ i < at + n)
  BY <1>2 DEF Copied, BufferInv
<1> QED BY <1>1, <1>2

\* In both of IAP_data_recv's callers.
LEMMA RecvBuffer ==
  ASSUME BufferInv, WakeInv, UsbPacket \/ Receiving
  PROVE  BufferInv'
<1> USE DEF rxVars, At, Goto
<1>1. len_in_RX_buffer \in Nat /\ IAP_RX_BUFFER_SIZE \in Nat
      /\ DOMAIN call = {"Buf", "n", "len", "over"} /\ call.n \in Nat /\ call.len \in Nat
  BY ServerAssumption DEF ServerAssumption, WakeInv, CallInv, CountersOK
<1>2. CASE UsbPacket
  <2>1. PICK Buf \in Packets : IAP_data_recv("IAP_CDC", Buf, Width(Buf))
    BY <1>2 DEF UsbPacket, CDC_Receive_FS
  <2>2. PICK at \in Nat, n \in Nat : n <= Width(Buf) /\ RXBuffer' = Copied(at, Buf, n)
    <3>1. Width(Buf) \in Nat
      BY PacketWidth
    <3>2. CASE current_status = "IDLE"
      BY <1>1, <2>1, <3>1, <3>2 DEF IAP_data_recv, Min2
    <3>3. CASE current_status # "IDLE"
      BY <1>1, <2>1, <3>1, <3>3 DEF IAP_data_recv
    <3> QED BY <3>2, <3>3
  <2>3. pc' = pc
    BY <2>1 DEF IAP_data_recv, mainVars
  <2>4. call'.Buf = call.Buf /\ call'.n = call.n
    <3>1. \/ call' = call
          \/ \E v : call' = [call EXCEPT !.over = v]
      BY <1>2 DEF UsbPacket
    <3> QED BY <1>1, <3>1
  <2> QED BY <2>2, <2>3, <2>4, CopiedCells DEF BufferInv
<1>3. CASE TcpSegment
  <2>1. PICK Buf \in Packets :
          call' = [Buf  |-> Buf,
                   n    |-> IF current_status = "IDLE" THEN Min2(Width(Buf), IAP_RX_BUFFER_SIZE)
                                                       ELSE Width(Buf),
                   len  |-> IF current_status = "IDLE" THEN 0 ELSE len_in_RX_buffer,
                   over |-> 0]
    BY <1>3 DEF TcpSegment
  <2>2. Width(Buf) \in Nat /\ DOMAIN Buf = 0 .. Width(Buf) - 1
    BY PacketWidth
  <2>3. call'.Buf = Buf /\ call'.n \in Nat /\ call'.n <= Width(Buf)
    BY <1>1, <2>1, <2>2 DEF Min2
  <2>4. \A i \in 0 .. call'.n - 1 : NamesImage(Buf[i])
    BY <2>2, <2>3, PacketCells
  <2>5. RXBuffer' = RXBuffer
    BY <1>3 DEF TcpSegment
  <2> QED BY <2>3, <2>4, <2>5 DEF BufferInv
<1>4. CASE recv_copy
  <2>1. pc = "recv_copy" /\ pc' # "recv_copy"
        /\ \A j \in RXIndex : RXBuffer'[j] \in Copies(j)
    BY <1>4 DEF recv_copy
  <2>2. NamesImage(Garbage)
    BY DEF NamesImage, Garbage, Plain
  <2>3. ASSUME NEW j \in RXIndex, NEW c \in Copies(j)
        PROVE  NamesImage(c)
    <3>1. j \in Nat
      BY <1>1 DEF RXIndex
    <3>2. CASE call.len <= j /\ j < call.len + call.n
      <4>1. j - call.len \in 0 .. call.n - 1
        BY <1>1, <3>1, <3>2
      <4>2. c \in {call.Buf[j - call.len], RXBuffer[j], Garbage}
        BY <2>3, <3>2 DEF Copies
      <4> QED BY <2>1, <2>2, <4>1, <4>2 DEF BufferInv
    <3>3. CASE ~ (call.len <= j /\ j < call.len + call.n)
      BY <2>3, <3>3 DEF Copies, BufferInv
    <3> QED BY <3>2, <3>3
  <2> QED BY <2>1, <2>3 DEF BufferInv
<1>5. CASE recv_store \/ recv_test \/ recv_flag
  BY <1>5 DEF recv_store, recv_test, recv_flag, BufferInv
<1> QED BY <1>2, <1>3, <1>4, <1>5 DEF Receiving

LEMMA BufferKept ==
  ASSUME BufferInv, WakeInv, IdleAtBase, [Next]_vars
  PROVE  BufferInv'
<1> USE DEF rxVars, linkVars, At, Goto
<1>1. NamesImage(Zero)
  BY DEF NamesImage, Zero, Plain
<1>2. ASSUME (pc' = pc /\ call' = call) \/ pc' # "recv_copy",
             \/ RXBuffer' \in {RXBuffer, Blank}
             \/ \A i \in RXIndex : RXBuffer'[i] \in {Zero, RXBuffer[i]}
      PROVE  BufferInv'
  BY <1>1, <1>2 DEF BufferInv, Blank
<1>3. CASE UsbPacket \/ Receiving
  BY <1>3, RecvBuffer
<1>4. CASE consume
  <2>1. pc' # "recv_copy" /\ \A i \in RXIndex : RXBuffer'[i] \in {Zero, RXBuffer[i]}
    BY <1>4 DEF consume
  <2> QED BY <1>2, <2>1
<1>5. CASE SystemReset \/ FromApp \/ PowerFails
  BY <1>2, <1>5 DEF SystemReset, FromApp, AppTrigger, PowerFails, PowerCycle, Reboot
<1>6. CASE (TCP_accept \/ ReplyRead \/ TCP_closed) /\ UNCHANGED call
  BY <1>2, <1>6 DEF TCP_accept, TCP_closed, ReplyRead, CdcTaken, TcpTaken, mainVars
<1>7. CASE \/ server_init \/ task_test \/ task_clear \/ dispatch \/ erase \/ reply_idle \/ idle_done
           \/ write \/ reply_fail \/ count \/ reply_block \/ verify \/ reply_bad \/ lwip_done
  <2>1. pc' # "recv_copy" /\ RXBuffer' = RXBuffer
    BY <1>7 DEF server_init, task_test, task_clear, dispatch, erase, reply_idle, idle_done,
       write, reply_fail, count, reply_block, verify, reply_bad, lwip_done
  <2> QED BY <1>2, <2>1
<1>8. CASE reset_buf /\ UNCHANGED call
  <2>1. pc' = pc /\ RXBuffer' \in {RXBuffer, Blank}
    BY <1>8 DEF reset_buf
  <2> QED BY <1>2, <1>8, <2>1
<1>9. CASE UNCHANGED vars
  BY <1>2, <1>9 DEF vars, serverVars, mainVars
<1> QED BY <1>3, <1>4, <1>5, <1>6, <1>7, <1>8, <1>9 DEF Next, Server

\* An erase clears the place of the image and at least one sector.
LEMMA ErasePlace ==
  ASSUME NEW len \in 0 .. BankOneRoom
  PROVE  /\ \A o \in 0 .. len - 1 : ErasedOffset(o, NbSectors(len))
         /\ ErasedOffset(0, NbSectors(len))
         /\ 0 \in Offsets
<1>1. BankOneRoom \in Nat \ {0} /\ AppRoom \in Nat /\ BankOneRoom <= AppRoom
  <2> DEFINE n == FLASH_SECTOR_TOTAL - RESERVED_SECTORS
  <2>1. n \in Nat \ {0} /\ SECTOR_SIZE \in Nat \ {0}
    BY LayoutAssumption
  <2>2. BankOneRoom = n * SECTOR_SIZE /\ FLASH_SECTOR_TOTAL * SECTOR_SIZE \in Nat
    BY LayoutAssumption DEF BankOneRoom
  <2>3. \A x, y \in Nat \ {0} : x * y \in Nat \ {0}
    OBVIOUS
  <2> HIDE DEF n
  <2> QED BY <2>1, <2>2, <2>3 DEF AppRoom
<1>2. CASE len = 0
  <2>1. GetSector((IAP_APP_ADDRESS + len) % UINT32) = GetSector(IAP_APP_ADDRESS)
    <3>1. IAP_APP_ADDRESS \in 0 .. UINT32 - 1 /\ UINT32 \in Nat \ {0}
      BY <1>1, SectorFacts, LayoutAssumption
    <3>2. (IAP_APP_ADDRESS + len) % UINT32 = IAP_APP_ADDRESS
      BY <1>2, <3>1, ModIdentity
    <3> QED BY <3>2
  <2>2. NbSectors(len) = 1
    <3>1. 1 % UINT32 = 1
      BY LayoutAssumption, ModIdentity
    <3>2. RESERVED_SECTORS \in Nat
      BY LayoutAssumption
    <3>3. RESERVED_SECTORS - RESERVED_SECTORS + 1 = 1
      BY <3>2
    <3> DEFINE most == FLASH_SECTOR_TOTAL - RESERVED_SECTORS
    <3>4. NbSectors(len) = IF 1 > most THEN most ELSE 1
      <4>1. GetSector((IAP_APP_ADDRESS + len) % UINT32) - GetSector(IAP_APP_ADDRESS) + 1 = 1
        BY <2>1, <3>3, FirstSector
      <4> QED BY <4>1, <3>1 DEF NbSectors
    <3>5. most \in Nat \ {0}
      BY LayoutAssumption
    <3> HIDE DEF most
    <3> QED BY <3>4, <3>5
  <2> QED BY <1>1, <1>2, <2>2, LayoutAssumption DEF ErasedOffset, Offsets
<1>3. CASE len # 0
  <2>1. len \in 1 .. BankOneRoom /\ 0 \in 0 .. len - 1
    BY <1>1, <1>3
  <2> QED BY <1>1, <2>1, EraseCovers DEF Offsets
<1> QED BY <1>2, <1>3

\* A write changes what lies from received_bytes up to the end of the buffer.
LEMMA WriteRange ==
  ASSUME UploadInv, write, NEW o \in Offsets,
         o < received_bytes \/ o >= received_bytes + len_in_RX_buffer
  PROVE  flash'[o] = flash[o]
<1>1. received_bytes \in Nat /\ len_in_RX_buffer \in Nat /\ o \in Nat
  BY DEF UploadInv, WakeInv, CountersOK, Offsets
<1>2. ASSUME NEW n \in 0 .. len_in_RX_buffer
      PROVE  AfterWrite(n)[o] = flash[o]
  BY <1>1, <1>2 DEF AfterWrite
<1>3. ASSUME NEW n \in 0 .. len_in_RX_buffer - 1
      PROVE  [AfterWrite(n) EXCEPT ![received_bytes + n] = Garbage][o] = flash[o]
  <2>1. received_bytes + n # o /\ n \in 0 .. len_in_RX_buffer
    BY <1>1
  <2> QED BY <2>1, <1>2 DEF AfterWrite
<1>4. ASSUME NEW n \in 0 .. len_in_RX_buffer - 1
      PROVE  [AfterWrite(len_in_RX_buffer) EXCEPT ![received_bytes + n] = Garbage][o] = flash[o]
  <2>1. received_bytes + n # o /\ len_in_RX_buffer \in 0 .. len_in_RX_buffer
    BY <1>1
  <2> QED BY <2>1, <1>2 DEF AfterWrite
<1>5. CASE flash' \in Written
  <2>1. CASE flash' = AfterWrite(len_in_RX_buffer)
    BY <1>1, <1>2, <2>1
  <2>2. CASE \E n \in 0 .. len_in_RX_buffer - 1 :
                flash' = [AfterWrite(len_in_RX_buffer) EXCEPT ![received_bytes + n] = Garbage]
    BY <1>4, <2>2
  <2> QED BY <1>5, <2>1, <2>2 DEF Written
<1>6. CASE \E n \in 0 .. len_in_RX_buffer - 1 : flash' \in TornWrite(n)
  <2>1. PICK n \in 0 .. len_in_RX_buffer - 1 : flash' \in TornWrite(n)
    BY <1>6
  <2>2. n \in 0 .. len_in_RX_buffer
    BY <1>1
  <2>3. \/ flash' = AfterWrite(n)
        \/ flash' = [AfterWrite(n) EXCEPT ![received_bytes + n] = Garbage]
    BY <2>1 DEF TornWrite
  <2>4. AfterWrite(n)[o] = flash[o]
    BY <1>2, <2>2
  <2>5. [AfterWrite(n) EXCEPT ![received_bytes + n] = Garbage][o] = flash[o]
    BY <1>3, <2>1
  <2> QED BY <2>3, <2>4, <2>5
<1> QED BY <1>5, <1>6 DEF write

\* At a write no whole image reaches to where it programs.
LEMMA WriteSpares ==
  ASSUME \A m \in Images : Size[m] \in 0 .. BankOneRoom,
         UploadInv, write, NEW m \in Images, Holds(m)
  PROVE  Holds(m)'
<1>1. current_status = "FLASH_RECEIVE" /\ rb = 0 /\ pc = "write" /\ received_bytes \in Nat
  BY DEF UploadInv, EraseInv, IdleAtBase, WakeInv, CountersOK, write, At
<1>2. flash[received_bytes] = Erased
  BY <1>1 DEF UploadInv, EraseInv, NextErased, Ending
<1>3. Size[m] \in Nat /\ BankOneRoom \in Nat /\ AppRoom \in Nat /\ Size[m] <= AppRoom
  <2>1. FLASH_SECTOR_TOTAL * SECTOR_SIZE \in Nat
    BY LayoutAssumption
  <2>2. BankOneRoom \in Nat
    BY LayoutAssumption DEF BankOneRoom
  <2> QED BY <2>1, <2>2 DEF AppRoom
<1>4. Size[m] <= received_bytes
  <2>1. \A i \in 0 .. Size[m] - 1 : flash[i] # Erased
    <3>1. \A i : Byte(m, i).kind = "byte"
      BY DEF Byte
    <3>2. Erased.kind = "erased"
      BY DEF Erased, Plain
    <3>3. \A i \in 0 .. Size[m] - 1 : flash[i] = Byte(m, i)
      BY DEF Holds
    <3> QED BY <3>1, <3>2, <3>3
  <2> QED BY <1>1, <1>2, <1>3, <2>1
<1>5. ASSUME NEW i \in 0 .. Size[m] - 1
      PROVE  flash'[i] = Byte(m, i)
  <2>1. i \in Offsets /\ i < received_bytes
    BY <1>1, <1>3, <1>4 DEF Offsets
  <2> QED BY <2>1, WriteRange DEF Holds
<1> QED BY <1>5 DEF Holds

\* Every step keeps the place of the image clear ahead of what is programmed.
LEMMA EraseInvKept ==
  ASSUME \A m \in Images : Size[m] \in 0 .. BankOneRoom, UploadInv, [Next]_vars
  PROVE  EraseInv'
<1> USE DEF mainVars, rxVars, recvVars, expVars, keptVars, linkVars, At, Goto
<1>1. /\ len_in_RX_buffer \in Nat /\ received_bytes \in Nat /\ expected_size \in Nat
      /\ IdleAtBase /\ WakeInv /\ EraseInv
  BY DEF UploadInv, WakeInv, CountersOK, EraseInv
<1>2. CASE UsbPacket
  <2>1. PICK Buf \in Packets : IAP_data_recv("IAP_CDC", Buf, Width(Buf))
    BY <1>2 DEF UsbPacket, CDC_Receive_FS
  <2>2. PICK n : n \in Nat /\ IAP_data_recv("IAP_CDC", Buf, n)
    BY <2>1, PacketWidth
  <2>3. UNCHANGED <<mainVars, recvVars, expVars, flash>>
    BY <2>2 DEF IAP_data_recv
  <2>4. CASE current_status = "FLASH_RECEIVE"
    <3>1. len_in_RX_buffer' = len_in_RX_buffer + n
      BY <2>2, <2>4 DEF IAP_data_recv
    <3>2. \A o \in Offsets : received_bytes + len_in_RX_buffer' <= o
                               => received_bytes + len_in_RX_buffer <= o
      BY <1>1, <2>2, <3>1 DEF Offsets
    <3> QED BY <1>1, <2>3, <3>2 DEF EraseInv, ClearFrom, NextErased
  <2> QED BY <1>1, <2>3, <2>4 DEF EraseInv
<1>3. CASE TCP_accept \/ ReplyRead \/ TCP_closed
  <2>1. UNCHANGED <<recvVars, expVars, flash, len_in_RX_buffer>> /\ pc' = pc /\ rb' \in {rb, 1}
    BY <1>3 DEF TCP_accept, TCP_closed, ReplyRead, CdcTaken, TcpTaken
  <2>2. rb' = 0 => rb = 0
    BY <1>1, <1>3, <2>1 DEF TCP_accept, TCP_closed, ReplyRead, CdcTaken, TcpTaken
  <2> QED BY <1>1, <2>1, <2>2 DEF EraseInv, ClearFrom, NextErased
<1>4. CASE SystemReset \/ FromApp \/ PowerFails
  <2>1. current_status' = "IDLE" /\ expected_size' = 0
    BY <1>4 DEF SystemReset, FromApp, AppTrigger, PowerFails, PowerCycle, Reboot
  <2>2. BankOneRoom \in Nat
    BY LayoutAssumption DEF BankOneRoom
  <2> QED BY <2>1, <2>2 DEF EraseInv
<1>5. CASE server_init \/ task_test \/ task_clear \/ lwip_done \/ reply_idle \/ reply_fail
  <2>1. UNCHANGED <<recvVars, expVars, flash, len_in_RX_buffer, rb>>
    BY <1>5 DEF server_init, task_test, task_clear, lwip_done, reply_idle, reply_fail
  <2>2. /\ pc # "count" /\ pc' # "count"
        /\ pc \in Ending => pc' \in Ending
        /\ pc = "reply_fail" => current_status = "IDLE"
        /\ pc # "reply_fail" => pc \notin Ending
    BY <1>1, <1>5 DEF server_init, task_test, task_clear, lwip_done, reply_idle, reply_fail,
                      Ending, WakeInv, CountersOK
  <2> QED BY <1>1, <2>1, <2>2 DEF EraseInv, ClearFrom, NextErased
<1>6. CASE dispatch
  <2>1. current_status' = current_status /\ current_status = "IDLE"
    BY <1>1, <1>6 DEF dispatch, WakeInv, CountersOK
  <2>2. NamesImage(RXBuffer[0])
    BY ServerAssumption DEF ServerAssumption, RXIndex, UploadInv, BufferInv
  <2>3. expected_size' \in 0 .. BankOneRoom
    BY <1>1, <1>6, <2>2 DEF dispatch, EraseInv, NamesImage
  <2> QED BY <2>1, <2>3 DEF EraseInv
<1>7. CASE erase
  <2>1. current_status = "IDLE" /\ received_bytes = 0 /\ pc' = "reply_idle"
    BY <1>1, <1>7 DEF erase, WakeInv, CountersOK, IdleAtBase
  <2>2. CASE current_status' = "FLASH_RECEIVE" /\ flash' = AfterErase(NbSectors(expected_size))
    <3>1. expected_size \in 0 .. BankOneRoom
      BY <1>1 DEF EraseInv
    <3>2. ASSUME NEW o \in Offsets, o < expected_size PROVE flash'[o] = Erased
      <4>1. o \in 0 .. expected_size - 1
        BY <1>1, <3>2 DEF Offsets
      <4> QED BY <2>2, <3>1, <4>1, ErasePlace DEF AfterErase
    <3>3. flash'[0] = Erased
      BY <2>2, <3>1, ErasePlace DEF AfterErase
    <3> QED BY <1>7, <2>1, <3>1, <3>2, <3>3 DEF erase, EraseInv, ClearFrom, NextErased
  <2>3. CASE current_status' = current_status
    BY <1>1, <1>7, <2>1, <2>3 DEF erase, EraseInv
  <2> QED BY <1>7, <2>2, <2>3 DEF erase
<1>8. CASE idle_done
  BY <1>1, <1>8 DEF idle_done, EraseInv, ClearFrom, NextErased, Ending
<1>9. CASE write
  <2>1. current_status = "FLASH_RECEIVE" /\ ClearFrom(received_bytes)
    BY <1>1, <1>9 DEF write, EraseInv, IdleAtBase
  <2>2. ASSUME NEW o \in Offsets, received_bytes + len_in_RX_buffer <= o, o < expected_size
        PROVE  flash'[o] = Erased
    <3>1. o >= received_bytes + len_in_RX_buffer /\ received_bytes <= o
      BY <1>1, <2>2 DEF Offsets
    <3> QED BY <1>9, <2>1, <2>2, <3>1, WriteRange DEF ClearFrom
  <2> QED BY <1>1, <1>9, <2>2 DEF write, EraseInv, ClearFrom
<1>10. CASE count
  BY <1>1, <1>10 DEF count, EraseInv, ClearFrom, Ending
<1>11. CASE consume \/ reply_block
  BY <1>1, <1>11 DEF consume, reply_block, EraseInv, ClearFrom, Ending
<1>12. CASE verify
  <2>1. CASE received_bytes < expected_size
    <3>1. expected_size \in 0 .. BankOneRoom
      BY <1>1 DEF EraseInv
    <3>2. received_bytes \in Offsets
      <4>1. FLASH_SECTOR_TOTAL * SECTOR_SIZE \in Nat /\ BankOneRoom \in Nat
        BY LayoutAssumption DEF BankOneRoom
      <4> QED BY <1>1, <2>1, <3>1, <4>1 DEF AppRoom, Offsets
    <3>3. pc = "verify" /\ rb = 0 /\ UNCHANGED <<recvVars, expVars, flash, rb>> /\ pc' = "lwip"
      BY <1>12, <2>1 DEF verify
    <3>4. current_status = "FLASH_RECEIVE" => ClearFrom(received_bytes)
      BY <1>1, <3>3 DEF EraseInv
    <3>5. current_status = "FLASH_RECEIVE" => flash[received_bytes] = Erased
      BY <1>1, <2>1, <3>2, <3>4 DEF ClearFrom
    <3> QED BY <1>1, <2>1, <3>3, <3>4, <3>5 DEF EraseInv, ClearFrom, NextErased
  <2>2. CASE ~ (received_bytes < expected_size)
    BY <1>1, <1>12, <2>2 DEF verify, EraseInv, ClearFrom, Ending
  <2> QED BY <2>1, <2>2
<1>13. CASE reply_bad
  BY <1>1, <1>13 DEF reply_bad, EraseInv
<1>14. CASE reset_buf
  <2>1. UNCHANGED <<expVars, flash>> /\ current_status' = IF rb = 5 THEN "IDLE" ELSE current_status
    BY <1>14 DEF reset_buf
  <2>2. rb' = 0 => current_status = "IDLE" /\ current_status' = "IDLE"
    BY <1>1, <1>14 DEF reset_buf, WakeInv, CountersOK
  <2> QED BY <1>1, <2>1, <2>2 DEF EraseInv
<1>15. CASE UNCHANGED vars
  BY <1>1, <1>15 DEF vars, serverVars, EraseInv, ClearFrom, NextErased
<1>16. CASE Receiving
  <2>1. /\ UNCHANGED <<received_bytes, current_status, expected_size, flash>>
        /\ rb = 0 /\ pc \notin Ending \union {"count"} /\ pc' # "count"
    BY <1>16, Received DEF RecvLabels, Ending
  <2> QED BY <1>1, <2>1 DEF EraseInv, ClearFrom, NextErased
<1> QED BY <1>2, <1>3, <1>4, <1>5, <1>6, <1>7, <1>8, <1>9, <1>10, <1>11, <1>12, <1>13, <1>14,
           <1>15, <1>16 DEF Next, Server

LEMMA UploadInvInit == Init => UploadInv /\ NoLostWakeup
<1> SUFFICES ASSUME Init PROVE UploadInv /\ NoLostWakeup
  OBVIOUS
<1>1. BankOneRoom \in Nat
  BY LayoutAssumption DEF BankOneRoom
<1>2. pc = "startup" /\ current_status = "IDLE" /\ expected_size = 0
  BY DEF Init, ServerInit
<1>3. BufferInv
  BY DEF Init, ServerInit, BufferInv, Blank, NamesImage, Zero, Plain
<1> QED BY <1>1, <1>2, <1>3, WakeInit DEF UploadInv, EraseInv

LEMMA UploadInvKept ==
  ASSUME \A m \in Images : Size[m] \in 0 .. BankOneRoom, UploadInv /\ NoLostWakeup, [Next]_vars
  PROVE  (UploadInv /\ NoLostWakeup)'
  BY IdleAtBaseKept, WakeKept, BufferKept, EraseInvKept DEF UploadInv

\* As long as the images fit into bank 1, every block is written behind what its upload
\* has stored, onto erased flash: also when an upload was broken off or refused before,
\* and when packets of both transports are mixed.
THEOREM BlocksAppend ==
  ASSUME \A m \in Images : Size[m] \in 0 .. BankOneRoom
  PROVE  Spec => []WritesAppend
<1>1. UploadInv /\ NoLostWakeup /\ [Next]_vars => (UploadInv /\ NoLostWakeup)'
  BY UploadInvKept
<1>2. UploadInv => WritesAppend
  <2> SUFFICES ASSUME UploadInv, pc = "write" PROVE NextErased
    BY DEF WritesAppend, NextErased
  <2>1. current_status = "FLASH_RECEIVE" /\ rb = 0
    BY DEF UploadInv, IdleAtBase, EraseInv
  <2> QED BY <2>1 DEF UploadInv, EraseInv, Ending
<1> QED BY <1>1, <1>2, UploadInvInit, PTL DEF Spec

\* An installed image is safe from everything but an erase, whoever sends what and
\* whatever fails, as long as the images fit into bank 1, where Erase_FLASH erases
\* the place of what will be written.
THEOREM InstalledKept ==
  ASSUME \A m \in Images : Size[m] \in 0 .. BankOneRoom
  PROVE  Spec => OnlyEraseDestroys
<1>1. Init => UploadInv /\ NoLostWakeup
  BY UploadInvInit
<1>2. UploadInv /\ NoLostWakeup /\ [Next]_vars => (UploadInv /\ NoLostWakeup)'
  BY UploadInvKept
<1>3. UploadInv /\ [Next]_vars => [\A m \in Images : Holds(m) /\ ~ Holds(m)' => pc = "erase"]_vars
  <2> SUFFICES ASSUME UploadInv, Next, NEW m \in Images, Holds(m), pc # "erase"
               PROVE  Holds(m)'
    OBVIOUS
  <2>1. CASE write
    BY <2>1, WriteSpares
  <2>2. CASE ~ write
    <3>1. flash' = flash
      <4> USE DEF keptVars
      <4>1. CASE \/ UsbPacket \/ TCP_accept \/ ReplyRead \/ TCP_closed
        BY <4>1, Outside
      <4>2. CASE SystemReset \/ FromApp \/ PowerFails
        BY <4>2 DEF SystemReset, FromApp, AppTrigger, PowerFails, PowerCycle, Reboot
      <4>3. CASE \/ server_init \/ task_test \/ task_clear \/ dispatch \/ reply_idle
                 \/ idle_done \/ reply_fail \/ count \/ consume \/ reply_block \/ verify
                 \/ reply_bad \/ lwip_done \/ reset_buf
        BY <4>3 DEF server_init, task_test, task_clear, dispatch, reply_idle, idle_done,
                    reply_fail, count, consume, reply_block, verify, reply_bad, lwip_done, reset_buf
      <4>4. ~ erase
        BY DEF erase, At
      <4>5. CASE Receiving
        BY <4>5, Received
      <4> QED BY <2>2, <4>1, <4>2, <4>3, <4>4, <4>5 DEF Next, Server
    <3> QED BY <3>1 DEF Holds
  <2> QED BY <2>1, <2>2
<1> QED BY <1>1, <1>2, <1>3, PTL DEF Spec, OnlyEraseDestroys
=============================================================================
