------------------------ MODULE UploadSession_proofs ------------------------
(***************************************************************************)
(* Proofs about UploadSession, for every flash geometry, buffer size, set  *)
(* of images and choice of faults, and for a host that is slower than the  *)
(* last statement of the main loop (~ PromptHost).                         *)
(***************************************************************************)
EXTENDS UploadInvariant, FlashLayout_proofs
-----------------------------------------------------------------------------
(* What the operators of the model return.                                 *)

\* Cells built by the model are cells.
LEMMA CellTypes ==
  /\ \A m \in Images : \A i \in Nat : Byte(m, i) \in Cells
  /\ \A m \in Images : FlashCmd(m) \in Cells
  /\ \A k \in Kinds \ {"byte", "flash"} : Plain(k) \in Cells
  /\ {Zero, Erased, Garbage} \subseteq Cells
  BY DEF Byte, FlashCmd, Plain, Zero, Erased, Garbage, Cells, Kinds

\* The room behind the application's address is a number of cells.
LEMMA RoomTypes == BankOneRoom \in Nat /\ AppRoom \in Nat /\ BankOneRoom <= AppRoom
<1> DEFINE r == FLASH_SECTOR_TOTAL - RESERVED_SECTORS
<1>1. r \in Nat /\ SECTOR_SIZE \in Nat /\ FLASH_SECTOR_TOTAL \in Nat
  BY LayoutAssumption
<1>2. r * SECTOR_SIZE \in Nat /\ FLASH_SECTOR_TOTAL * SECTOR_SIZE \in Nat
  BY <1>1
<1> QED BY <1>2 DEF BankOneRoom, AppRoom

\* IAP_data_recv keeps the types when it is given n cells.
LEMMA RecvType ==
  ASSUME ServerTypeOK, NEW m \in Methods, NEW n \in Nat, NEW Buf \in [0 .. n - 1 -> Cells],
         IAP_data_recv(m, Buf, n)
  PROVE  ServerTypeOK'
<1>1. ASSUME NEW at \in Nat, NEW k \in Nat, k <= n
      PROVE  Copied(at, Buf, k) \in [RXIndex -> Cells]
  BY <1>1, ServerAssumption DEF Copied, RXIndex, ServerTypeOK
<1>2. RXBuffer' \in [RXIndex -> Cells] /\ len_in_RX_buffer' \in Nat /\ data_is_ready' \in BOOLEAN
  <2>1. CASE current_status = "IDLE"
    BY <1>1, <2>1, ServerAssumption DEF IAP_data_recv, Min2, ServerTypeOK
  <2>2. CASE current_status # "IDLE"
    BY <1>1, <2>2, ServerAssumption DEF IAP_data_recv, ServerTypeOK
  <2> QED BY <2>1, <2>2
<1> QED BY <1>2 DEF IAP_data_recv, ServerTypeOK, mainVars, recvVars, expVars, keptVars, linkVars

\* Sending a reply keeps the types of the two transports.
LEMMA SendType ==
  ASSUME ServerTypeOK, NEW msg \in Replies, send_response(msg)
  PROVE  /\ cdcTx' \in Replies \union {"none"} /\ client' \in BOOLEAN
         /\ tcpTx' \in Seq(Replies)
<1>1. CASE current_method = "IAP_CDC"
  BY <1>1 DEF send_response, ServerTypeOK
<1>2. CASE current_method = "IAP_ETHERNET"
  <2>1. Append(tcpTx, msg) \in Seq(Replies)
    BY DEF ServerTypeOK
  <2> QED BY <1>2, <2>1 DEF send_response, ServerTypeOK, linkVars
<1>3. CASE current_method = "IAP_NONE"
  BY <1>3 DEF send_response, ServerTypeOK, linkVars
<1> QED BY <1>1, <1>2, <1>3 DEF ServerTypeOK, Methods

\* Neither erasing nor writing leaves the type of the flash.
LEMMA FlashType ==
  ASSUME ServerTypeOK
  PROVE  /\ \A n : {AfterErase(n), TornErase(n)} \subseteq [Offsets -> Cells]
         /\ \A n \in Nat : len_in_RX_buffer <= IAP_RX_BUFFER_SIZE /\ n <= len_in_RX_buffer
              => AfterWrite(n) \in [Offsets -> Cells] /\ TornWrite(n) \subseteq [Offsets -> Cells]
         /\ len_in_RX_buffer <= IAP_RX_BUFFER_SIZE => Written \subseteq [Offsets -> Cells]
<1>1. \A n : {AfterErase(n), TornErase(n)} \subseteq [Offsets -> Cells]
  BY CellTypes DEF AfterErase, TornErase, ServerTypeOK
<1>2. ASSUME NEW n \in Nat, len_in_RX_buffer <= IAP_RX_BUFFER_SIZE, n <= len_in_RX_buffer,
             NEW o \in Offsets, received_bytes <= o, o < received_bytes + n
      PROVE  Programmed(flash[o], RXBuffer[o - received_bytes]) \in Cells
  <2>1. o - received_bytes \in RXIndex
    BY <1>2, RoomTypes, ServerAssumption DEF RXIndex, Offsets, ServerTypeOK
  <2>2. RXBuffer[o - received_bytes] \in Cells
    BY <2>1 DEF ServerTypeOK
  <2> QED BY <2>2, CellTypes DEF Programmed
<1>3. \A n \in Nat : len_in_RX_buffer <= IAP_RX_BUFFER_SIZE /\ n <= len_in_RX_buffer
        => AfterWrite(n) \in [Offsets -> Cells]
  BY <1>2 DEF AfterWrite, ServerTypeOK
<1>4. len_in_RX_buffer <= IAP_RX_BUFFER_SIZE => AfterWrite(len_in_RX_buffer) \in [Offsets -> Cells]
  BY <1>3 DEF ServerTypeOK
<1>5. len_in_RX_buffer <= IAP_RX_BUFFER_SIZE => Written \subseteq [Offsets -> Cells]
  BY <1>4, CellTypes DEF Written
<1> QED BY <1>1, <1>3, <1>5, CellTypes DEF TornWrite

\* A write that succeeds stores every cell, or spoils some unnoticed.
LEMMA WrittenCells ==
  ASSUME NEW f \in Written, NEW o \in Offsets
  PROVE  \/ f[o] = AfterWrite(len_in_RX_buffer)[o]
         \/ /\ SilentFaults /\ f[o] = Garbage
            /\ \E n \in 0 .. len_in_RX_buffer - 1 : o = received_bytes + n
<1>1. AfterWrite(len_in_RX_buffer) = [p \in Offsets |-> AfterWrite(len_in_RX_buffer)[p]]
  BY DEF AfterWrite
<1> DEFINE A == AfterWrite(len_in_RX_buffer)
<1>2. A \in [Offsets -> {A[p] : p \in Offsets}]
  BY <1>1
<1> HIDE DEF A
<1>3. CASE f = A
  BY <1>3 DEF A
<1>4. ASSUME NEW n \in {k \in 0 .. len_in_RX_buffer - 1 : SilentFaults},
             f = [A EXCEPT ![received_bytes + n] = Garbage]
      PROVE  \/ f[o] = A[o]
             \/ SilentFaults /\ f[o] = Garbage /\ o = received_bytes + n
  BY <1>2, <1>4
<1> QED BY <1>3, <1>4 DEF Written, A

\* What the assumptions on the constants say where the steps below need it.
LEMMA ConstantTypes ==
  /\ IAP_RX_BUFFER_SIZE \in Nat \ {0} /\ 0 \in RXIndex
  /\ MaxPacket \in Nat \ {0} /\ NoImage \notin Images
  /\ Links \subseteq {"IAP_CDC", "IAP_ETHERNET"}
  /\ \A m \in Images : Size[m] \in Nat /\ Size[m] \in 1 .. BankOneRoom
  BY ServerAssumption, SessionAssumption, RoomTypes DEF RXIndex

\* Every reply that the code sends is one of Replies.
LEMMA ReplyTypes ==
  {"OK", "VERSION", "ERR", "Failed", "ChecksumFailed", "UnknownCommand"} \subseteq Replies
  BY DEF Replies

\* A blank buffer is a buffer.
LEMMA BlankType == Blank \in [RXIndex -> Cells]
  BY CellTypes DEF Blank

\* What the delivery of a packet does, and when it is possible.
LEMMA Delivered ==
  ASSUME ~ PromptHost, TypeOK, NEW n \in Nat, NEW Buf, Deliver(Buf, n)
  PROVE  /\ pc \notin {"app", "idle_done"} /\ rb = 0
         /\ link = "IAP_ETHERNET" => pc = "lwip" /\ client
         /\ link \in Methods /\ IAP_data_recv(link, Buf, n)
  BY DEF Deliver, CDC_Receive_FS, TCP_recv, At, TypeOK, ServerTypeOK, Methods

\* A restart leaves the types of what survives it.
LEMMA RebootType ==
  ASSUME ServerTypeOK, Reboot, flag' \in Flags
  PROVE  ServerTypeOK'
<1>1. tcpTx' \in Seq(Replies) /\ cdcTx' \in Replies \union {"none"} /\ out' \in Replies
  BY ReplyTypes DEF Reboot
<1>2. RXBuffer' \in [RXIndex -> Cells] /\ flash' \in [Offsets -> Cells]
  BY BlankType DEF Reboot, ServerTypeOK
<1>3. data_is_ready' \in BOOLEAN /\ client' \in BOOLEAN
  BY DEF Reboot
<1> QED BY <1>1, <1>2, <1>3 DEF Reboot, ServerTypeOK, Labels, Methods
-----------------------------------------------------------------------------
(* Types.  A step keeps them as long as RXBuffer is not overrun: write      *)
(* reads as many cells of it as len_in_RX_buffer says.                      *)

\* The main loop keeps the types.
LEMMA ServerTypeStep ==
  ASSUME ServerTypeOK, BufferInv, Server
  PROVE  ServerTypeOK'
<1> USE DEF ServerTypeOK, mainVars, rxVars, recvVars, expVars, keptVars, linkVars, At, Goto
<1>1. CASE server_init
  BY <1>1 DEF server_init, Labels, Methods, Flags
<1>2. CASE task_test
  BY <1>2 DEF task_test, Labels
<1>3. CASE task_clear
  <2>1. pc' \in Labels
    BY <1>3 DEF task_clear, Labels
  <2> QED BY <1>3, <2>1 DEF task_clear
<1>4. CASE dispatch
  <2>1. /\ pc' \in Labels /\ rb' \in 0 .. 6 /\ out' \in Replies
        /\ expected_size' \in Nat /\ expected_checksum' \in Images \union {NoImage}
    BY <1>4, ConstantTypes, ReplyTypes DEF dispatch, Labels, Cells
  <2> QED BY <1>4, <2>1 DEF dispatch
<1>5. CASE erase
  <2>1. flash' \in [Offsets -> Cells]
    BY <1>5, FlashType DEF erase
  <2> QED BY <1>5, <2>1, ReplyTypes DEF erase, Labels
<1>6. CASE reply_idle
  BY <1>6, SendType DEF reply_idle, Labels
<1>7. CASE idle_done
  BY <1>7 DEF idle_done, Labels
<1>8. CASE write
  <2>1. flash' \in [Offsets -> Cells]
    BY <1>8, FlashType DEF write, BufferInv
  <2> QED BY <1>8, <2>1, ReplyTypes DEF write, Labels
<1>9. CASE reply_fail
  BY <1>9, SendType DEF reply_fail, Labels
<1>10. CASE count
  BY <1>10 DEF count, Labels
<1>11. CASE consume
  <2>1. RXBuffer' \in [RXIndex -> Cells]
    BY <1>11, CellTypes DEF consume
  <2> QED BY <1>11, <2>1, ReplyTypes DEF consume, Labels
<1>12. CASE reply_block
  BY <1>12, SendType DEF reply_block, Labels
<1>13. CASE verify
  BY <1>13, ReplyTypes DEF verify, Labels
<1>14. CASE reply_bad
  BY <1>14, SendType DEF reply_bad, Labels
<1>15. CASE reset_buf
  <2>1. RXBuffer' \in [RXIndex -> Cells]
    BY <1>15, BlankType DEF reset_buf
  <2>2. rb' \in 0 .. 6 /\ len_in_RX_buffer' \in Nat /\ received_bytes' \in Nat
    BY <1>15 DEF reset_buf
  <2>3. data_is_ready' = FALSE \/ data_is_ready' = data_is_ready
    BY <1>15 DEF reset_buf
  <2>4. data_is_ready' \in BOOLEAN
    BY <2>3
  <2> QED BY <1>15, <2>1, <2>2, <2>4 DEF reset_buf, Methods
<1>16. CASE lwip_done
  BY <1>16 DEF lwip_done, Labels
<1> QED BY <1>1, <1>2, <1>3, <1>4, <1>5, <1>6, <1>7, <1>8, <1>9, <1>10, <1>11, <1>12,
           <1>13, <1>14, <1>15, <1>16 DEF Server, ProcessCommand

\* So do the host and a restart.
LEMMA TypeStep ==
  ASSUME ~ PromptHost, TypeOK, BufferInv, [Next]_vars
  PROVE  TypeOK'
<1> USE DEF TypeOK, Waiting, Resting, hostVars
<1> DEFINE HostTypes ==
  /\ host \in Waiting \union Resting \union {"ping", "announce", "send"}
  /\ link \in Links /\ img \in Images /\ sent \in Nat /\ acked \in Nat
<1>1. CASE Server /\ UNCHANGED hostVars
  BY <1>1, ServerTypeStep
<1>2. CASE HostOpen
  <2>1. ServerTypeOK'
    <3>1. <<>> \in Seq(Replies)
      OBVIOUS
    <3> QED BY <1>2, <3>1 DEF HostOpen, TCP_accept, ServerTypeOK, serverVars, mainVars,
                              rxVars, recvVars, expVars, keptVars, linkVars
  <2> QED BY <1>2, <2>1 DEF HostOpen
<1>3. ASSUME NEW c \in Cells, Command(c)
      PROVE  ServerTypeOK'
  <2>1. [i \in {0} |-> c] \in [0 .. 1 - 1 -> Cells]
    OBVIOUS
  <2> QED BY <1>3, <2>1, Delivered, RecvType DEF Command
<1>4. CASE HostPing
  BY <1>3, <1>4, CellTypes DEF HostPing, Kinds
<1>5. CASE HostAnnounce
  BY <1>3, <1>5, CellTypes DEF HostAnnounce
<1>6. CASE HostSend
  <2>1. PICK n \in 1 .. Min2(MaxPacket, BlockEnd - sent) :
          /\ Deliver([i \in 0 .. n - 1 |-> Byte(img, sent + i)], n)
          /\ sent' = sent + n
          /\ host' \in {"wait_block", "send"}
    BY <1>6 DEF HostSend
  <2>2. n \in Nat /\ [i \in 0 .. n - 1 |-> Byte(img, sent + i)] \in [0 .. n - 1 -> Cells]
    BY CellTypes
  <2>3. ServerTypeOK'
    BY <2>1, <2>2, Delivered, RecvType
  <2> QED BY <1>6, <2>1, <2>2, <2>3 DEF HostSend
<1>7. ASSUME NEW r, Answer(r)
      PROVE  ServerTypeOK'
  <2>a. tcpTx \in Seq(Replies)
    BY DEF ServerTypeOK
  <2>b. tcpTx' = tcpTx \/ (tcpTx # <<>> /\ tcpTx' = Tail(tcpTx))
    BY <1>7 DEF Answer, CdcTaken, TcpTaken
  <2>1. tcpTx' \in Seq(Replies)
    BY <2>a, <2>b
  <2> QED BY <1>7, <2>1 DEF Answer, CdcTaken, TcpTaken, ServerTypeOK, mainVars, rxVars,
                            recvVars, expVars, keptVars
<1>8. CASE HostOk
  BY <1>7, <1>8 DEF HostOk
<1>9. CASE HostRefused
  BY <1>7, <1>9 DEF HostRefused
<1>10. CASE HostDrains
  BY <1>7, <1>10 DEF HostDrains
<1>11. CASE HostTimeout
  BY <1>11 DEF HostTimeout, serverVars, ServerTypeOK, mainVars, rxVars, recvVars, expVars,
               keptVars, linkVars
<1>12. CASE HostClosed
  <2>1. ServerTypeOK'
    <3>1. tcpTx' = <<>> /\ client' = FALSE
      BY <1>12 DEF HostClosed, TCP_closed
    <3>2. tcpTx' \in Seq(Replies)
      BY <3>1
    <3>3. client' \in BOOLEAN
      BY <3>1
    <3> QED BY <1>12, <3>2, <3>3 DEF HostClosed, TCP_closed, ServerTypeOK, rxVars, recvVars,
                               expVars, keptVars
  <2> QED BY <1>12, <2>1 DEF HostClosed
<1>13. CASE HostAgain
  BY <1>13 DEF HostAgain, serverVars, ServerTypeOK, mainVars, rxVars, recvVars, expVars,
               keptVars, linkVars
<1>14. ASSUME Reboot, flag' \in Flags, host' = IF host \in Resting THEN host ELSE "failed",
              UNCHANGED <<link, img, sent, acked>>
       PROVE  TypeOK'
  BY <1>14, RebootType
<1>15. CASE Restart(SystemReset) \/ Restart(PowerCycle) \/ \E f \in Flags : Restart(AppTrigger(f))
  BY <1>14, <1>15 DEF Restart, SystemReset, PowerCycle, AppTrigger, ServerTypeOK
<1>16. CASE UNCHANGED vars
  BY <1>16 DEF vars, serverVars, ServerTypeOK, mainVars, rxVars, recvVars, expVars, keptVars,
               linkVars
<1> QED BY <1>1, <1>2, <1>4, <1>5, <1>6, <1>8, <1>9, <1>10, <1>11, <1>12, <1>13, <1>15, <1>16
        DEF Next, Host
-----------------------------------------------------------------------------
(* The protocol invariant.                                                 *)

\* The main loop keeps it.
LEMMA ServerStep ==
  ASSUME IInv, Server, UNCHANGED hostVars
  PROVE  ProtocolInv'
<1> USE DEF IInv, TypeOK, ServerTypeOK, BufferInv, ProtocolInv, LinkInv, BootInv, ResetInv,
            IdleInv, ReceiveInv, Idle, Receiving, CommandPending, HostAnnounced, HostSending,
            BlockPending, BlockWritten, BlockAnswered, HostGone, HostBack, Resting, Waiting,
            Checked, ReplyUnderway, BlockEnd, mainVars, rxVars, recvVars, expVars, keptVars, linkVars,
            hostVars, At, Goto
\* Actions that leave alone what these speak of.
<1>a. ASSUME UNCHANGED <<flash, received_bytes, expVars>>, pc # "count", pc' # "count"
      PROVE  Stored' = Stored
  BY <1>a DEF Stored, StoredUpTo
<1>b. ASSUME UNCHANGED <<RXBuffer, received_bytes, len_in_RX_buffer, expVars>>
      PROVE  Buffered' = Buffered
  BY <1>b DEF Buffered
<1>h. ASSUME UNCHANGED <<flash, expVars>>
      PROVE  Holds(expected_checksum)' = Holds(expected_checksum)
  BY <1>h DEF Holds
<1>1. CASE server_init
  BY <1>1, <1>a, <1>b, <1>h DEF server_init
<1>2. CASE task_test
  BY <1>2, <1>a, <1>b, <1>h DEF task_test
<1>3. CASE task_clear
  BY <1>3, <1>a, <1>b, <1>h DEF task_clear
<1>4. CASE dispatch
  BY <1>4 DEF dispatch, Plain, FlashCmd
<1>5. CASE erase
  <2>1. /\ Idle /\ host = "wait_flash" /\ ~ ReplyUnderway /\ current_method = link
        /\ expected_checksum = img /\ expected_size = Size[img] /\ received_bytes = 0
        /\ ~ data_is_ready
    BY <1>5 DEF erase
  <2>2. CASE current_status' = "FLASH_RECEIVE" /\ out' = "OK"
             /\ flash' = AfterErase(NbSectors(expected_size))
    <3>1. Stored'
      <4>1. ASSUME NEW o \in Offsets, o < Size[img]
            PROVE  flash'[o] = Erased
        BY <4>1, <2>1, <2>2, EraseCovers, ConstantTypes, RoomTypes DEF AfterErase, Offsets
      <4> QED BY <4>1, <2>1, <1>5 DEF erase, Stored, StoredUpTo, Offsets
    <3> QED BY <1>5, <2>1, <2>2, <3>1, ConstantTypes DEF erase
  <2>3. CASE current_status' = current_status /\ out' = "ERR"
    BY <1>5, <2>1, <2>3 DEF erase
  <2> QED BY <1>5, <2>2, <2>3 DEF erase
<1>6. CASE reply_idle
  BY <1>6, <1>a, <1>b, <1>h DEF reply_idle, send_response
<1>7. CASE idle_done
  BY <1>7, <1>a DEF idle_done, Buffered, RXIndex
<1>8. CASE write
  <2>1. /\ BlockPending /\ Receiving /\ Stored /\ Buffered
        /\ expected_checksum = img /\ expected_size = Size[img]
        /\ current_method = link /\ expected_size > 0
        /\ received_bytes + len_in_RX_buffer <= expected_size
    BY <1>8, ConstantTypes DEF write, Min2
  <2>2. CASE flash' \in Written /\ Goto("count") /\ UNCHANGED out
    <3> DEFINE A == AfterWrite(len_in_RX_buffer)
    <3>1. ASSUME NEW o \in Offsets
          PROVE  /\ o < received_bytes + len_in_RX_buffer =>
                      A[o] = Byte(img, o) \/ (SilentFaults /\ A[o] = Garbage)
                 /\ received_bytes + len_in_RX_buffer <= o /\ o < Size[img] => A[o] = Erased
      <4>1. o \in Nat
        BY RoomTypes DEF Offsets
      <4>2. CASE o < received_bytes \/ received_bytes + len_in_RX_buffer <= o
        BY <4>1, <4>2, <2>1, <1>8 DEF AfterWrite, Stored, StoredUpTo, write
      <4>3. CASE received_bytes <= o /\ o < received_bytes + len_in_RX_buffer
        <5>1. o - received_bytes \in RXIndex /\ o - received_bytes < len_in_RX_buffer
          BY <4>1, <4>3, ConstantTypes DEF RXIndex
        <5>2. RXBuffer[o - received_bytes] = Byte(img, o)
          BY <5>1, <4>1, <2>1 DEF Buffered
        <5>3. flash[o] = Erased
          BY <4>1, <4>3, <2>1, <1>8 DEF Stored, StoredUpTo, write
        <5> QED BY <5>2, <5>3, <4>1, <4>3 DEF AfterWrite, Programmed, Byte
      <4> QED BY <4>1, <4>2, <4>3
    <3>5. ASSUME NEW o \in Offsets
          PROVE  /\ o < received_bytes + len_in_RX_buffer =>
                      flash'[o] = Byte(img, o) \/ (SilentFaults /\ flash'[o] = Garbage)
                 /\ received_bytes + len_in_RX_buffer <= o /\ o < Size[img] => flash'[o] = Erased
      <4>1. \/ flash'[o] = A[o]
            \/ /\ SilentFaults /\ flash'[o] = Garbage
               /\ \E n \in 0 .. len_in_RX_buffer - 1 : o = received_bytes + n
        BY <2>2, WrittenCells
      <4>2. (\E n \in 0 .. len_in_RX_buffer - 1 : o = received_bytes + n)
              => o < received_bytes + len_in_RX_buffer
        OBVIOUS
      <4>3. received_bytes + len_in_RX_buffer <= o => ~ (o < received_bytes + len_in_RX_buffer)
        BY RoomTypes DEF Offsets
      <4> HIDE DEF A
      <4> QED BY <4>1, <4>2, <4>3, <3>1
    <3>2. Stored'
      BY <3>5, <2>1, <2>2, <1>8 DEF Stored, StoredUpTo, write
    <3>3. Buffered'
      BY <2>1, <1>8, <1>b DEF write
    <3> QED BY <1>8, <2>1, <2>2, <3>2, <3>3 DEF write
  <2>3. CASE pc' = "reply_fail" /\ rb' = 1 /\ out' = "Failed"
    BY <1>8, <2>1, <2>3 DEF write
  <2> QED BY <1>8, <2>2, <2>3 DEF write
<1>9. CASE reply_fail
  BY <1>9, <1>a, <1>b, <1>h DEF reply_fail, send_response
<1>10. CASE count
  <2>1. /\ BlockPending /\ Receiving /\ Stored
        /\ received_bytes + len_in_RX_buffer <= expected_size
    BY <1>10, ConstantTypes DEF count, Min2
  <2>2. Stored'
    BY <1>10, <2>1 DEF count, Stored, StoredUpTo
  <2> QED BY <1>10, <2>1, <2>2 DEF count
<1>11. CASE consume
  BY <1>11, <1>a DEF consume
<1>12. CASE reply_block
  BY <1>12, <1>a, <1>b, <1>h DEF reply_block, send_response
<1>13. CASE verify
  <2>1. CASE received_bytes < expected_size
    BY <1>13, <2>1, <1>a, <1>b, <1>h DEF verify
  <2>2. CASE received_bytes >= expected_size
    <3>1. Receiving /\ received_bytes = expected_size /\ Stored
      BY <1>13, <2>2 DEF verify
    <3>2. BlockAnswered \/ HostBack
      BY <1>13, <3>1, ConstantTypes DEF verify, Min2
    <3>3. CASE pc' = "commit"
      <4>1. Holds(expected_checksum) /\ rb' = rb
        BY <1>13, <2>2, <3>1, <3>3 DEF verify
      <4> QED BY <1>13, <3>1, <3>2, <3>3, <4>1, <1>a, <1>b, <1>h DEF verify
    <3>4. CASE pc' = "reply_bad"
      <4>1. ~ Holds(expected_checksum) /\ rb' = rb
        BY <1>13, <2>2, <3>1, <3>4, ConstantTypes DEF verify
      <4>2. SilentFaults
        BY <4>1, <3>1, ConstantTypes, RoomTypes DEF Holds, Stored, StoredUpTo, Offsets
      <4> QED BY <1>13, <3>1, <3>2, <3>4, <4>1, <4>2, <1>a, <1>b DEF verify
    <3> QED BY <1>13, <2>2, <3>3, <3>4 DEF verify
  <2> QED BY <2>1, <2>2
<1>14. CASE reply_bad
  <2>1. /\ Receiving /\ SilentFaults /\ received_bytes = expected_size
        /\ BlockAnswered \/ HostBack
    BY <1>14 DEF reply_bad
  <2>2. pc' = "lwip" /\ rb' = 1 /\ UNCHANGED <<rxVars, recvVars, current_method, expVars, keptVars>>
    BY <1>14 DEF reply_bad
  <2>3. /\ client' = client
        /\ link = "IAP_ETHERNET" => cdcTx' = cdcTx
        /\ client' \/ tcpTx' = <<>>
    BY <1>14, <2>1 DEF reply_bad, send_response
  <2>4. BlockAnswered => Checked
    BY <2>1
  <2>5. host \in {"wait_block", "done"} /\ ~ data_is_ready
    BY <1>14, <2>1 DEF reply_bad
  <2>6. LinkInv'
    BY <2>1, <2>2, <2>3, <2>4, <2>5
  <2>7. ResetInv'
    BY <2>1, <2>2, <2>4, <2>5
  <2>8. BootInv' /\ IdleInv' /\ ReceiveInv'
    BY <2>2
  <2> QED BY <2>6, <2>7, <2>8
<1>15. CASE reset_buf
  BY <1>15 DEF reset_buf, Methods
<1>16. CASE lwip_done
  BY <1>16, <1>a, <1>b, <1>h DEF lwip_done
<1> QED BY <1>1, <1>2, <1>3, <1>4, <1>5, <1>6, <1>7, <1>8, <1>9, <1>10, <1>11, <1>12,
           <1>13, <1>14, <1>15, <1>16 DEF Server, ProcessCommand

\* The host keeps it.
LEMMA HostStep ==
  ASSUME ~ PromptHost, IInv, Host
  PROVE  BufferInv' /\ ProtocolInv'
<1> USE DEF IInv, TypeOK, ServerTypeOK, BufferInv, ProtocolInv, LinkInv, BootInv, ResetInv,
            IdleInv, ReceiveInv, Idle, Receiving, CommandPending, HostAnnounced, HostSending,
            BlockPending, BlockWritten, BlockAnswered, HostGone, HostBack, Resting, Waiting,
            Checked, ReplyUnderway, BlockEnd, mainVars, rxVars, recvVars, expVars, keptVars, linkVars,
            serverVars, hostVars, At
\* Nothing that these speak of changes, except the buffer in a packet's delivery.
<1>a. ASSUME UNCHANGED <<flash, received_bytes, expVars, pc>>, pc # "count"
      PROVE  Stored' = Stored
  BY <1>a DEF Stored, StoredUpTo
<1>b. ASSUME UNCHANGED <<RXBuffer, received_bytes, len_in_RX_buffer, expVars>>
      PROVE  Buffered' = Buffered
  BY <1>b DEF Buffered
<1>h. ASSUME UNCHANGED <<flash, expVars>>
      PROVE  Holds(expected_checksum)' = Holds(expected_checksum)
  BY <1>h DEF Holds
<1>c. ASSUME UNCHANGED <<flash, received_bytes, expVars, pc, len_in_RX_buffer>>
      PROVE  Stored' = Stored
  BY <1>c DEF Stored, StoredUpTo
<1>d. link \in {"IAP_CDC", "IAP_ETHERNET"}
  BY ConstantTypes
\* The host takes the one reply there is.
<1>e. ASSUME NEW r, Answer(r)
      PROVE  /\ UNCHANGED <<mainVars, rxVars, recvVars, current_method, expVars, keptVars, client>>
             /\ link = "IAP_CDC" => cdcTx = r /\ r # "none" /\ cdcTx' = "none" /\ tcpTx' = tcpTx
             /\ link = "IAP_ETHERNET" =>
                  /\ tcpTx # <<>> /\ Head(tcpTx) = r /\ cdcTx' = cdcTx
                  /\ Len(tcpTx) <= 1 => tcpTx' = <<>>
  <2>1. tcpTx # <<>> /\ Len(tcpTx) <= 1 => Tail(tcpTx) = <<>>
    OBVIOUS
  <2> QED BY <1>e, <2>1, <1>d DEF Answer, CdcTaken, TcpTaken
<1>1. CASE HostOpen
  BY <1>1, <1>c, <1>b, <1>h DEF HostOpen, TCP_accept
\* A command arrives while the device waits for one, or just before it restarts.
<1>2. ASSUME NEW c, Command(c), host \in {"ping", "announce"},
             c = Plain("ping") \/ c = FlashCmd(img),
             UNCHANGED <<link, img, sent, acked>>
      PROVE  /\ UNCHANGED <<mainVars, recvVars, expVars, keptVars, linkVars>>
             /\ rb = 0 /\ pc \notin {"app", "idle_done"} /\ current_method' = link
             /\ Idle => data_is_ready' /\ len_in_RX_buffer' = 1 /\ RXBuffer'[0] = c
             /\ ~ Idle => HostBack /\ len_in_RX_buffer' = len_in_RX_buffer + 1
             /\ link = "IAP_ETHERNET" => pc = "lwip"
  <2>1. /\ pc \notin {"app", "idle_done"} /\ rb = 0
        /\ link = "IAP_ETHERNET" => pc = "lwip"
        /\ IAP_data_recv(link, [i \in {0} |-> c], 1)
    BY <1>2, Delivered DEF Command
  <2>2. /\ UNCHANGED <<mainVars, recvVars, expVars, keptVars, linkVars>>
        /\ current_method' = link
    BY <2>1 DEF IAP_data_recv
  <2>3. CASE Idle
    <3>1. 0 \in RXIndex /\ Min2(1, IAP_RX_BUFFER_SIZE) = 1
      BY ConstantTypes DEF RXIndex, Min2
    <3>2. data_is_ready' /\ len_in_RX_buffer' = 1 /\ RXBuffer'[0] = c
      BY <2>1, <2>3, <3>1 DEF IAP_data_recv, Copied
    <3> QED BY <2>1, <2>2, <2>3, <3>2
  <2>4. CASE ~ Idle
    <3>1. Receiving
      BY <2>1, <2>4
    <3>2. HostBack
      BY <3>1, <1>2
    <3>3. len_in_RX_buffer' = len_in_RX_buffer + 1
      BY <2>1, <2>4 DEF IAP_data_recv
    <3> QED BY <2>1, <2>2, <2>4, <3>2, <3>3
  <2> QED BY <2>3, <2>4
<1>3. CASE HostPing
  BY <1>3, <1>2, <1>a, <1>d, <1>h, ConstantTypes DEF HostPing
<1>4. CASE HostAnnounce
  BY <1>4, <1>2, <1>a, <1>d, <1>h, ConstantTypes DEF HostAnnounce
<1>5. CASE HostSend
  <2> DEFINE Buf(n) == [i \in 0 .. n - 1 |-> Byte(img, sent + i)]
  <2>1. PICK n \in 1 .. Min2(MaxPacket, BlockEnd - sent) :
          /\ Deliver(Buf(n), n)
          /\ sent' = sent + n
          /\ host' = IF sent + n = BlockEnd THEN "wait_block" ELSE "send"
          /\ UNCHANGED <<link, img, acked>>
    BY <1>5 DEF HostSend
  <2>2. n \in Nat \ {0} /\ sent + n <= BlockEnd /\ BlockEnd \in Nat
    <3>1. /\ Size[img] \in Nat /\ IAP_RX_BUFFER_SIZE \in Nat /\ MaxPacket \in Nat
          /\ acked \in Nat /\ sent \in Nat
      BY ConstantTypes
    <3>2. BlockEnd \in Nat
      BY <3>1 DEF Min2
    <3>3. n \in 1 .. Min2(MaxPacket, BlockEnd - sent)
      BY <2>1
    <3> HIDE DEF BlockEnd
    <3> QED BY <3>1, <3>2, <3>3 DEF Min2
  <2>3. /\ pc \notin {"app", "idle_done"} /\ rb = 0 /\ IAP_data_recv(link, Buf(n), n)
        /\ link = "IAP_ETHERNET" => pc = "lwip" /\ client
    BY <2>1, <2>2, Delivered
  <2>4. /\ Receiving /\ HostSending
        /\ expected_checksum = img /\ expected_size = Size[img] /\ current_method = link
        /\ sent = received_bytes + len_in_RX_buffer /\ Buffered
    BY <2>3, <1>5 DEF HostSend
  <2>5. /\ RXBuffer' = Copied(len_in_RX_buffer, Buf(n), n)
        /\ len_in_RX_buffer' = len_in_RX_buffer + n
        /\ data_is_ready' <=> \/ len_in_RX_buffer + n >= IAP_RX_BUFFER_SIZE
                              \/ received_bytes + len_in_RX_buffer + n >= expected_size
        /\ current_method' = link
        /\ UNCHANGED <<mainVars, recvVars, expVars, keptVars, linkVars>>
    BY <2>3, <2>4 DEF IAP_data_recv
  <2>6. Stored'
    BY <2>4, <2>5, <1>a
  <2>7. Buffered'
    <3>1. ASSUME NEW i \in RXIndex, i < len_in_RX_buffer + n
          PROVE  RXBuffer'[i] = Byte(img, received_bytes + i)
      <4>1. i \in Nat
        BY ConstantTypes DEF RXIndex
      <4>2. CASE i < len_in_RX_buffer
        BY <4>1, <4>2, <2>4, <2>5 DEF Copied, Buffered
      <4>3. CASE i >= len_in_RX_buffer
        BY <4>1, <4>3, <3>1, <2>2, <2>4, <2>5 DEF Copied
      <4> QED BY <4>1, <4>2, <4>3
    <3> QED BY <3>1, <2>4, <2>5 DEF Buffered
  <2>8. /\ sent' = received_bytes + len_in_RX_buffer' /\ BlockEnd' = BlockEnd
        /\ len_in_RX_buffer' <= IAP_RX_BUFFER_SIZE
        /\ data_is_ready' <=> sent' = BlockEnd
    <3>1. /\ sent' = received_bytes + (len_in_RX_buffer + n)
          /\ len_in_RX_buffer + n <= IAP_RX_BUFFER_SIZE
          /\ \/ len_in_RX_buffer + n >= IAP_RX_BUFFER_SIZE
             \/ received_bytes + len_in_RX_buffer + n >= expected_size
             <=> sent' = BlockEnd
      <4>1. /\ Size[img] \in Nat /\ IAP_RX_BUFFER_SIZE \in Nat
            /\ received_bytes \in Nat /\ len_in_RX_buffer \in Nat /\ n \in Nat
            /\ acked = received_bytes /\ sent' = sent + n
        BY <2>1, <2>2, <2>4, ConstantTypes
      <4>2. BlockEnd = Min2(received_bytes + IAP_RX_BUFFER_SIZE, expected_size)
        BY <4>1, <2>4
      <4> QED BY <4>1, <4>2, <2>2, <2>4 DEF Min2
    <3>2. BlockEnd' = BlockEnd
      BY <2>1
    <3> QED BY <2>5, <3>1, <3>2
  <2> HIDE DEF Buf
  <2> QED BY <2>1, <2>2, <2>3, <2>4, <2>5, <2>6, <2>7, <2>8, ConstantTypes
<1>6. CASE HostOk
  <2>1. Answer("OK") /\ host \in Waiting /\ UNCHANGED <<link, img, sent>>
    BY <1>6 DEF HostOk
  <2>2. CASE host = "wait_ping"
    BY <2>1, <2>2, <1>6, <1>b, <1>c, <1>d, <1>e, <1>h DEF HostOk
  <2>3. CASE host = "wait_flash"
    BY <2>1, <2>3, <1>6, <1>b, <1>c, <1>d, <1>e, <1>h, ConstantTypes DEF HostOk, Min2, Buffered, RXIndex
  <2>4. CASE host = "wait_block"
    BY <2>1, <2>4, <1>6, <1>b, <1>c, <1>d, <1>e, <1>h, ConstantTypes DEF HostOk, Min2, Buffered, RXIndex
  <2> QED BY <2>1, <2>2, <2>3, <2>4
<1>7. CASE HostRefused
  BY <1>7, <1>b, <1>c, <1>d, <1>e, <1>h DEF HostRefused
<1>8. CASE HostDrains
  BY <1>8, <1>b, <1>c, <1>d, <1>e, <1>h DEF HostDrains
<1>9. CASE HostTimeout
  BY <1>9, <1>b, <1>c, <1>d, <1>h DEF HostTimeout, Quiescent
<1>10. CASE HostClosed
  BY <1>10, <1>b, <1>c, <1>h DEF HostClosed, TCP_closed
<1>11. CASE HostAgain
  BY <1>11, <1>b, <1>c, <1>h DEF HostAgain
<1> QED BY <1>1, <1>3, <1>4, <1>5, <1>6, <1>7, <1>8, <1>9, <1>10, <1>11 DEF Host

\* A restart ends every session and leaves nothing but flash and flag.
LEMMA RestartStep ==
  ASSUME IInv, Reboot, host' = IF host \in Resting THEN host ELSE "failed",
         UNCHANGED <<link, img, sent, acked>>
  PROVE  BufferInv' /\ ProtocolInv'
  BY ConstantTypes
  DEF IInv, TypeOK, Reboot, BufferInv, ProtocolInv, LinkInv, BootInv, ResetInv, IdleInv,
      ReceiveInv, Idle, Receiving, CommandPending, Resting, Waiting, ReplyUnderway

\* RXBuffer is not overrun by what the main loop does.
LEMMA BufferStep ==
  ASSUME IInv, Server
  PROVE  BufferInv'
<1>1. len_in_RX_buffer' = len_in_RX_buffer \/ len_in_RX_buffer' = 0
  BY DEF Server, ProcessCommand, server_init, task_test, task_clear, dispatch, erase, reply_idle,
         idle_done, write, reply_fail, count, consume, reply_block, verify, reply_bad, reset_buf,
         lwip_done, rxVars
<1> QED BY <1>1, ConstantTypes DEF IInv, BufferInv

\* The initial states satisfy the invariant.
LEMMA InitInv ==
  ASSUME Init
  PROVE  IInv
<1>1. ServerTypeOK
  <2>1. flash \in [Offsets -> Cells] /\ RXBuffer \in [RXIndex -> Cells]
    BY CellTypes, BlankType DEF Init, ServerInit
  <2>2. tcpTx \in Seq(Replies) /\ out \in Replies /\ cdcTx \in Replies \union {"none"}
    BY ReplyTypes DEF Init, ServerInit
  <2>3. client \in BOOLEAN /\ data_is_ready \in BOOLEAN
    BY DEF Init, ServerInit
  <2> QED BY <2>1, <2>2, <2>3 DEF Init, ServerInit, ServerTypeOK, Labels, Methods, Flags
<1>2. TypeOK
  BY <1>1 DEF Init, TypeOK, Waiting, Resting
<1>3. BufferInv /\ ProtocolInv
  BY ConstantTypes
  DEF Init, ServerInit, BufferInv, ProtocolInv, LinkInv, BootInv, ResetInv, IdleInv,
      ReceiveInv, Idle, Receiving, CommandPending, Resting, Waiting, ReplyUnderway
<1> QED BY <1>2, <1>3 DEF IInv

\* Every step keeps the invariant.
LEMMA NextInv ==
  ASSUME ~ PromptHost, IInv, [Next]_vars
  PROVE  IInv'
<1>1. TypeOK'
  BY TypeStep DEF IInv
<1>2. CASE Server /\ UNCHANGED hostVars
  BY <1>1, <1>2, ServerStep, BufferStep DEF IInv
<1>3. CASE Host
  BY <1>1, <1>3, HostStep DEF IInv
<1>4. CASE Restart(SystemReset) \/ Restart(PowerCycle) \/ \E f \in Flags : Restart(AppTrigger(f))
  BY <1>1, <1>4, RestartStep DEF IInv, Restart, SystemReset, PowerCycle, AppTrigger
<1>5. CASE UNCHANGED vars
  BY <1>1, <1>5
  DEF vars, serverVars, hostVars, mainVars, rxVars, recvVars, expVars, keptVars, linkVars,
      IInv, BufferInv, ProtocolInv, LinkInv, BootInv, ResetInv, IdleInv, ReceiveInv, Idle,
      Receiving, CommandPending, HostAnnounced, HostSending, BlockPending, BlockWritten,
      BlockAnswered, HostGone, HostBack, Stored, StoredUpTo, Buffered, Holds, Checked, ReplyUnderway,
      BlockEnd
<1> QED BY <1>2, <1>3, <1>4, <1>5 DEF Next
-----------------------------------------------------------------------------
(* The theorems.                                                           *)

\* The inductive invariant holds throughout.
THEOREM Invariance ==
  ASSUME ~ PromptHost
  PROVE  Spec => []IInv
<1>1. Init => IInv
  BY InitInv
<1>2. IInv /\ [Next]_vars => IInv'
  BY NextInv
<1> QED BY <1>1, <1>2, PTL DEF Spec

\* Every variable keeps its type: no index into RXBuffer leaves it.
THEOREM TypeCorrect ==
  ASSUME ~ PromptHost
  PROVE  Spec => []TypeOK
<1>1. IInv => TypeOK
  BY DEF IInv
<1> QED BY <1>1, Invariance, PTL

\* IAP_data_recv never writes behind RXBuffer.
THEOREM BufferSafe ==
  ASSUME ~ PromptHost
  PROVE  Spec => []BufferBound
<1>1. ASSUME IInv
      PROVE  BufferBound
  <2>1. CASE host = "send" /\ pc # "idle_done"
    <3>1. Receiving
      BY <1>1, <2>1
      DEF IInv, TypeOK, ServerTypeOK, ProtocolInv, ResetInv, IdleInv, Idle, Receiving, Resting
    <3>2. HostSending
      BY <1>1, <2>1, <3>1
      DEF IInv, ProtocolInv, ReceiveInv, HostAnnounced, BlockPending, BlockWritten, BlockAnswered,
          HostGone, HostBack
    <3>3. acked = received_bytes /\ sent = received_bytes + len_in_RX_buffer
      BY <2>1, <3>2 DEF HostSending
    <3>4. /\ acked \in Nat /\ len_in_RX_buffer \in Nat /\ len_in_RX_buffer <= IAP_RX_BUFFER_SIZE
          /\ IAP_RX_BUFFER_SIZE \in Nat /\ Size[img] \in Nat
      BY <1>1, ConstantTypes DEF IInv, TypeOK, ServerTypeOK, BufferInv
    <3> QED BY <3>3, <3>4 DEF BufferBound, BlockEnd, Min2
  <2> QED BY <1>1, <2>1 DEF IInv, BufferInv, BufferBound
<1> QED BY <1>1, Invariance, PTL

\* No byte of the stream is lost, doubled or misplaced.
THEOREM StreamCorrect ==
  ASSUME ~ PromptHost, ~ SilentFaults
  PROVE  Spec => []StreamIntegrity
<1>1. ASSUME IInv, Uploading, current_status = "FLASH_RECEIVE", rb = 0, pc # "idle_done"
      PROVE  StreamIntegrity
  <2> USE <1>1 DEF IInv, TypeOK, ServerTypeOK
  <2>1. /\ Receiving /\ Stored /\ host \in {"send", "wait_block"}
        /\ expected_checksum = img /\ expected_size = Size[img]
        /\ received_bytes <= expected_size
        /\ HostSending \/ BlockPending \/ BlockWritten \/ BlockAnswered
    BY DEF ProtocolInv, ReceiveInv, Receiving, Uploading, HostAnnounced, HostGone, HostBack
  <2>2. \A o \in 0 .. received_bytes - 1 : flash[o] = Byte(img, o)
    BY <2>1, ConstantTypes, RoomTypes DEF Stored, StoredUpTo, Offsets
  <2>3. pc = "consume" => sent = received_bytes
    BY <2>1 DEF HostSending, BlockPending, BlockWritten, BlockAnswered
  <2>4. pc # "consume" =>
          /\ sent = received_bytes + len_in_RX_buffer
          /\ \A i \in 0 .. len_in_RX_buffer - 1 : RXBuffer[i] = Byte(img, received_bytes + i)
    <3>1. CASE HostSending \/ BlockPending
      <4>1. sent = received_bytes + len_in_RX_buffer /\ Buffered
        BY <1>1, <3>1 DEF HostSending, BlockPending
      <4> QED BY <2>1, <4>1, ConstantTypes DEF Buffered, BufferInv, RXIndex
    <3>2. CASE BlockWritten \/ BlockAnswered
      BY <3>2 DEF BlockWritten, BlockAnswered
    <3> QED BY <2>1, <3>1, <3>2
  <2> QED BY <2>1, <2>2, <2>3, <2>4 DEF StreamIntegrity
<1>2. IInv => StreamIntegrity
  BY <1>1 DEF StreamIntegrity
<1> QED BY <1>2, Invariance, PTL

\* The device restarts by itself only with the announced image in place.
THEOREM CommitCorrect ==
  ASSUME ~ PromptHost
  PROVE  Spec => []CommitIsUpload
<1>1. ASSUME IInv, pc = "commit"
      PROVE  CommitIsUpload
  <2> USE <1>1 DEF IInv, TypeOK, ServerTypeOK
  <2>1. Receiving
    BY DEF ProtocolInv, ResetInv, IdleInv, Receiving, Idle
  <2>2. Holds(expected_checksum)
    BY <2>1 DEF ProtocolInv, ReceiveInv
  <2>3. host \in {"wait_block", "done"} => expected_checksum = img
    BY <2>1
    DEF ProtocolInv, ReceiveInv, HostAnnounced, HostSending, BlockPending, BlockWritten,
        BlockAnswered, HostGone, HostBack
  <2> QED BY <2>2, <2>3 DEF CommitIsUpload
<1>2. IInv => CommitIsUpload
  BY <1>1 DEF CommitIsUpload
<1> QED BY <1>2, Invariance, PTL

\* No flash cell is programmed twice.
THEOREM NoReprogramming ==
  ASSUME ~ PromptHost
  PROVE  Spec => ProgrammedOnce
<1> DEFINE Once == \A o \in Offsets :
                     flash[o] # Erased /\ flash'[o] # flash[o] => pc = "erase"
<1>1. ASSUME IInv, Server
      PROVE  Once
  <2> USE <1>1 DEF IInv, TypeOK, ServerTypeOK
  <2>1. CASE erase
    BY <2>1 DEF erase, At
  <2>2. CASE write
    <3>1. /\ Stored /\ pc = "write" /\ expected_size = Size[expected_checksum]
          /\ received_bytes + len_in_RX_buffer <= expected_size
      BY <2>2, ConstantTypes
      DEF write, At, ProtocolInv, IdleInv, ReceiveInv, Idle, Receiving, HostAnnounced, HostSending,
          BlockPending, BlockWritten, BlockAnswered, HostGone, HostBack, BlockEnd, Min2
    <3>2. \A o \in Offsets :
            received_bytes <= o /\ o < received_bytes + len_in_RX_buffer => flash[o] = Erased
      BY <3>1, ConstantTypes, RoomTypes DEF Stored, StoredUpTo, Offsets
    <3>3. ASSUME NEW n \in 0 .. len_in_RX_buffer, NEW o \in Offsets,
                 AfterWrite(n)[o] # flash[o] \/ (n < len_in_RX_buffer /\ o = received_bytes + n)
          PROVE  flash[o] = Erased
      <4>1. \A i \in Offsets : received_bytes <= i /\ i < received_bytes + n => flash[i] = Erased
        BY <3>2, RoomTypes DEF Offsets
      <4>2. AfterWrite(n)[o] # flash[o] => flash[o] = Erased
        BY <4>1 DEF AfterWrite
      <4>3. n < len_in_RX_buffer /\ o = received_bytes + n => flash[o] = Erased
        BY <3>2, RoomTypes DEF Offsets
      <4> QED BY <3>3, <4>2, <4>3
    <3>4. ASSUME NEW o \in Offsets, flash'[o] # flash[o]
          PROVE  flash[o] = Erased
      <4>1. CASE flash' \in Written
        <5>1. \/ flash'[o] = AfterWrite(len_in_RX_buffer)[o]
              \/ \E n \in 0 .. len_in_RX_buffer - 1 : o = received_bytes + n
          BY <4>1, WrittenCells
        <5>2. CASE flash'[o] = AfterWrite(len_in_RX_buffer)[o]
          BY <5>2, <3>3, <3>4
        <5>3. ASSUME NEW n \in 0 .. len_in_RX_buffer - 1, o = received_bytes + n
              PROVE  flash[o] = Erased
          <6>1. n \in 0 .. len_in_RX_buffer /\ n < len_in_RX_buffer
            BY <5>3
          <6> QED BY <5>3, <6>1, <3>3
        <5>4. CASE \E n \in 0 .. len_in_RX_buffer - 1 : o = received_bytes + n
          BY <5>3, <5>4
        <5> QED BY <5>1, <5>2, <5>4
      <4>2. ASSUME NEW n \in 0 .. len_in_RX_buffer - 1, flash' \in TornWrite(n)
            PROVE  flash[o] = Erased
        <5>1. o # received_bytes + n => flash'[o] = AfterWrite(n)[o]
          BY <4>2 DEF TornWrite, AfterWrite
        <5> QED BY <5>1, <3>3, <3>4, <4>2
      <4> QED BY <2>2, <4>1, <4>2 DEF write
    <3> QED BY <3>4
  <2>3. CASE ~ erase /\ ~ write
    <3>1. flash' = flash
      BY <2>3
      DEF Server, ProcessCommand, server_init, task_test, task_clear, dispatch, reply_idle,
          idle_done, reply_fail, count, consume, reply_block, verify, reply_bad, reset_buf,
          lwip_done, keptVars
    <3> QED BY <3>1
  <2> QED BY <2>1, <2>2, <2>3
<1>2. ASSUME ~ Server, [Next]_vars
      PROVE  flash' = flash
  BY <1>2
  DEF Next, Host, vars, serverVars, keptVars, HostOpen, TCP_accept, HostPing, HostAnnounce,
      HostSend, Command, Deliver, CDC_Receive_FS, TCP_recv, IAP_data_recv, HostOk, HostRefused,
      HostDrains, Answer, CdcTaken, TcpTaken, HostTimeout, HostClosed, TCP_closed, HostAgain,
      Restart, SystemReset, PowerCycle, AppTrigger, Reboot
<1>3. IInv /\ [Next]_vars => [Once]_vars
  BY <1>1, <1>2
<1> QED BY <1>3, Invariance, PTL DEF Spec, ProgrammedOnce
-----------------------------------------------------------------------------
(* Answers.                                                                *)

\* No session begins in the middle of an upload that an earlier one left open.
THEOREM SessionsFresh ==
  ASSUME ~ PromptHost
  PROVE  Spec => []FreshSession
<1>1. IInv => FreshSession
  BY DEF IInv, TypeOK, ServerTypeOK, ProtocolInv, ReceiveInv, Receiving, HostAnnounced, HostSending,
     BlockPending, BlockWritten, BlockAnswered, HostGone, HostBack, FreshSession
<1> QED BY <1>1, Invariance, PTL

\* What the invariant leaves open: an answer to an announcement or a block has been
\* given once the main loop is through with it, on the TCP connection as well.
AnswerInv ==
  /\ host = "wait_flash" =>
       /\ Working \/ ReplyUnderway
       /\ pc = "reply_idle" => current_method = link
  /\ host = "wait_block" /\ Receiving => Working \/ ReplyUnderway
  /\ host = "wait_block" /\ pc = "lwip" /\ rb # 0 => ReplyUnderway

\* With the transport of the session idle and nothing refused, a reply gets under way.
LEMMA ReplySent ==
  ASSUME ~ SendFaults, TypeOK, LinkInv, ~ ReplyUnderway, host \notin Resting,
         current_method = link, UNCHANGED link,
         NEW msg \in Replies, send_response(msg)
  PROVE  ReplyUnderway'
<1>1. CASE link = "IAP_CDC"
  BY <1>1, ReplyTypes DEF send_response, ReplyUnderway, Replies
<1>2. CASE link = "IAP_ETHERNET"
  <2>1. client /\ tcpTx = <<>> /\ current_method = "IAP_ETHERNET"
    BY <1>2 DEF LinkInv, ReplyUnderway
  <2>2. Len(tcpTx) < SEND_QUEUE /\ ~ (Len(tcpTx) >= SEND_QUEUE)
    BY <2>1, ServerAssumption DEF ServerAssumption
  <2>3. tcpTx' = Append(tcpTx, msg)
    BY <2>1, <2>2 DEF send_response
  <2>4. tcpTx' # <<>>
    BY <2>1, <2>3
  <2> QED BY <1>2, <2>4 DEF ReplyUnderway
<1> QED BY <1>1, <1>2, SessionAssumption DEF SessionAssumption, TypeOK

\* What the main loop does to AnswerInv.
LEMMA AnswerServer ==
  ASSUME ~ SendFaults, IInv, AnswerInv, Server, UNCHANGED hostVars
  PROVE  AnswerInv'
<1> USE DEF IInv, ProtocolInv
<1>0. UNCHANGED <<host, link>> /\ current_status \in {"IDLE", "FLASH_RECEIVE"}
  BY DEF hostVars, TypeOK, ServerTypeOK
<1>1. CASE reply_idle
  <2>1. CASE host = "wait_flash"
    <3>1. ~ ReplyUnderway
      BY <1>1, <2>1, <1>0 DEF reply_idle, At, IdleInv, ReceiveInv, Idle, Receiving, HostAnnounced,
         HostSending, BlockPending, BlockWritten, BlockAnswered, HostGone, HostBack
    <3>2. current_method = link /\ out \in Replies
      BY <1>1, <2>1 DEF reply_idle, At, AnswerInv, TypeOK, ServerTypeOK
    <3>3. ReplyUnderway'
      BY <1>0, <1>1, <2>1, <3>1, <3>2, ReplySent DEF reply_idle, Resting
    <3> QED BY <1>0, <1>1, <2>1, <3>3 DEF reply_idle, Goto, AnswerInv
  <2>2. CASE host # "wait_flash"
    <3>1. ~ (host = "wait_block" /\ Receiving)
      BY <1>1, <2>2 DEF reply_idle, At, ReceiveInv, Receiving, HostAnnounced,
         HostSending, BlockPending, BlockWritten, BlockAnswered, HostGone, HostBack
    <3> QED BY <1>0, <1>1, <2>2, <3>1 DEF reply_idle, At, Goto, AnswerInv, Receiving, recvVars
  <2> QED BY <2>1, <2>2
<1>2. CASE reply_block
  <2>1. host # "wait_flash"
    BY <1>0, <1>2 DEF reply_block, At, IdleInv, ReceiveInv, Idle, Receiving, HostAnnounced,
       HostSending, BlockPending, BlockWritten, BlockAnswered, HostGone, HostBack
  <2>2. CASE host = "wait_block"
    <3>1. Receiving
      BY <1>0, <1>2 DEF reply_block, At, IdleInv, Idle, Receiving
    <3>2. ~ ReplyUnderway /\ current_method = link /\ out \in Replies
      BY <1>2, <2>2, <3>1 DEF reply_block, At, ReceiveInv, HostAnnounced, HostSending,
         BlockPending, BlockWritten, BlockAnswered, HostGone, HostBack, TypeOK, ServerTypeOK
    <3>3. ReplyUnderway'
      BY <1>0, <1>2, <2>2, <3>2, ReplySent DEF reply_block, Resting
    <3> QED BY <1>0, <2>2, <3>3 DEF AnswerInv
  <2>3. CASE host # "wait_block"
    BY <1>0, <2>1, <2>3 DEF AnswerInv
  <2> QED BY <2>2, <2>3
<1>3. CASE reply_fail
  <2>1. current_status = "IDLE" /\ host = "wait_block"
    BY <1>0, <1>3 DEF reply_fail, At, IdleInv, ReceiveInv, Idle, Receiving, HostAnnounced,
       HostSending, BlockPending, BlockWritten, BlockAnswered, HostGone, HostBack
  <2> QED BY <1>0, <1>3, <2>1 DEF reply_fail, Goto, AnswerInv, Receiving, recvVars
<1>4. CASE erase
  <2>1. host = "wait_flash" /\ current_method = link
    BY <1>0, <1>4 DEF erase, At, IdleInv, ReceiveInv, Idle, Receiving, HostAnnounced,
       HostSending, BlockPending, BlockWritten, BlockAnswered, HostGone, HostBack
  <2>2. pc' = "reply_idle" /\ current_method' = current_method
    BY <1>4 DEF erase, Goto
  <2> QED BY <1>0, <2>1, <2>2 DEF AnswerInv, Working
<1>5. CASE dispatch
  <2>1. /\ current_status = "IDLE"
        /\ host = "wait_flash" => RXBuffer[0] = FlashCmd(img)
        /\ host # "wait_block"
    BY <1>0, <1>5 DEF dispatch, At, IdleInv, ReceiveInv, Idle, Receiving, HostAnnounced,
       HostSending, BlockPending, BlockWritten, BlockAnswered, HostGone, HostBack, CommandPending
  <2>2. host = "wait_flash" => pc' = "erase"
    BY <1>5, <2>1 DEF dispatch, Goto, FlashCmd
  <2> QED BY <1>0, <2>1, <2>2 DEF AnswerInv, Working
<1>6. CASE task_clear
  BY <1>0, <1>6 DEF task_clear, Goto, AnswerInv, Working
<1>7. CASE write \/ count \/ consume
  BY <1>0, <1>7 DEF write, count, consume, Goto, AnswerInv, Working
<1>8. CASE server_init
  <2>1. host \notin {"wait_flash", "wait_block"}
    BY <1>8 DEF server_init, At, BootInv, Resting
  <2> QED BY <1>0, <2>1 DEF AnswerInv
<1>9. CASE task_test \/ idle_done \/ verify \/ lwip_done
  BY <1>0, <1>9 DEF task_test, idle_done, verify, lwip_done, At, Goto, AnswerInv, Working, Receiving,
     ReplyUnderway, rxVars, recvVars, linkVars
<1>10. CASE reply_bad
  <2>1. /\ host # "wait_flash" /\ ~ Receiving'
        /\ host = "wait_block" => Receiving
    BY <1>0, <1>10 DEF reply_bad, At, Receiving, ReceiveInv, IdleInv, Idle, HostAnnounced,
       HostSending, BlockPending, BlockWritten, BlockAnswered, HostGone, HostBack
  <2>2. CASE host = "wait_block"
    <3>1. ReplyUnderway /\ ~ data_is_ready
      BY <1>10, <2>1, <2>2 DEF reply_bad, At, ReceiveInv, HostAnnounced, HostSending, BlockPending,
         BlockWritten, BlockAnswered, HostGone, HostBack, AnswerInv, Working
    <3>2. tcpTx # <<>> => tcpTx' # <<>>
      <4>1. tcpTx' = tcpTx \/ tcpTx' = Append(tcpTx, out)
        BY <1>10 DEF reply_bad, send_response, linkVars
      <4>2. Append(tcpTx, out) # <<>>
        BY DEF TypeOK, ServerTypeOK
      <4> QED BY <4>1, <4>2
    <3>3. cdcTx # "none" => cdcTx' # "none"
      BY <1>10 DEF reply_bad, send_response, linkVars
    <3>4. ReplyUnderway'
      BY <1>0, <3>1, <3>2, <3>3 DEF ReplyUnderway
    <3> QED BY <1>0, <2>1, <3>4 DEF AnswerInv
  <2>3. CASE host # "wait_block"
    BY <1>0, <2>1, <2>3 DEF AnswerInv
  <2> QED BY <2>2, <2>3
<1>11. CASE reset_buf
  <2>1. host # "wait_flash" /\ ~ Receiving'
    BY <1>0, <1>11 DEF reset_buf, ResetInv, Resting, Idle, Receiving
  <2>2. pc' = pc /\ rb # 0 /\ ReplyUnderway' = ReplyUnderway
    BY <1>0, <1>11 DEF reset_buf, linkVars, ReplyUnderway
  <2> QED BY <1>0, <2>1, <2>2 DEF AnswerInv
<1> QED BY <1>1, <1>2, <1>3, <1>4, <1>5, <1>6, <1>7, <1>8, <1>9, <1>10, <1>11
        DEF Server, ProcessCommand

\* What the host does to it.
LEMMA AnswerHost ==
  ASSUME ~ PromptHost, IInv, IInv', AnswerInv, Host
  PROVE  AnswerInv'
<1>1. CASE HostAnnounce
  <2>1. current_status = "IDLE"
    BY <1>1 DEF HostAnnounce, IInv, TypeOK, ServerTypeOK, ProtocolInv, ResetInv, ReceiveInv, Receiving,
       HostAnnounced, HostSending, BlockPending, BlockWritten, BlockAnswered, HostGone, HostBack, Resting
  <2>2. PICK Buf : IAP_data_recv(link, Buf, 1)
    BY <1>1 DEF HostAnnounce, Command, Deliver, CDC_Receive_FS, TCP_recv
  <2>3. data_is_ready' = TRUE /\ current_method' = link /\ link' = link /\ host' = "wait_flash"
    BY <1>1, <2>1, <2>2 DEF IAP_data_recv, HostAnnounce
  <2> QED BY <2>3 DEF AnswerInv, Working
<1>2. CASE HostSend
  <2>1. host' \in {"send", "wait_block"}
    BY <1>2 DEF HostSend
  <2>3. rb' = 0
    BY <1>2 DEF HostSend, Deliver, CDC_Receive_FS, TCP_recv, At, IAP_data_recv, mainVars
  <2>2. CASE host' = "wait_block" /\ Receiving'
    <3>1. PICK n \in 1 .. Min2(MaxPacket, BlockEnd - sent) :
            IAP_data_recv(link, [i \in 0 .. n - 1 |-> Byte(img, sent + i)], n)
      BY <1>2 DEF HostSend, Deliver, CDC_Receive_FS, TCP_recv
    <3>2. len_in_RX_buffer' # 0
      <4>1. n \in Nat \ {0} /\ len_in_RX_buffer \in Nat /\ IAP_RX_BUFFER_SIZE \in Nat \ {0}
        BY <3>1, ServerAssumption DEF ServerAssumption, IInv, TypeOK, ServerTypeOK
      <4>2. len_in_RX_buffer' \in {n, IAP_RX_BUFFER_SIZE, len_in_RX_buffer + n}
        BY <3>1 DEF IAP_data_recv, Min2
      <4> QED BY <4>1, <4>2
    <3>3. BlockPending' \/ BlockWritten'
      BY <2>2, <3>2 DEF IInv, ProtocolInv, ReceiveInv, HostAnnounced, HostSending, BlockAnswered,
         HostGone, HostBack
    <3> QED BY <2>2, <2>3, <3>3 DEF AnswerInv, BlockPending, BlockWritten, Working
  <2> QED BY <2>1, <2>2, <2>3 DEF AnswerInv
<1>3. CASE ~ HostAnnounce /\ ~ HostSend
  <2>1. host' \notin {"wait_flash", "wait_block"}
    BY <1>3 DEF Host, HostOpen, HostPing, HostOk, HostRefused, HostDrains, HostTimeout, HostClosed,
       HostAgain, Waiting, Resting, hostVars
  <2> QED BY <2>1 DEF AnswerInv
<1> QED BY <1>1, <1>2, <1>3

\* A host that waits has exactly one answer to come, on either transport and with
\* any erase or write fault, broken connection or restart, as long as the network
\* stack refuses no reply.
THEOREM OneAnswer ==
  ASSUME ~ PromptHost, ~ SendFaults
  PROVE  Spec => []ExactlyOneAnswer
<1>1. Init => AnswerInv
  BY DEF Init, AnswerInv
<1>2. IInv /\ IInv' /\ AnswerInv /\ [Next]_vars => AnswerInv'
  <2> SUFFICES ASSUME IInv, IInv', AnswerInv, [Next]_vars PROVE AnswerInv'
    OBVIOUS
  <2>1. CASE Server /\ UNCHANGED hostVars
    BY <2>1, AnswerServer
  <2>2. CASE Host
    BY <2>2, AnswerHost
  <2>3. CASE Restart(SystemReset) \/ Restart(PowerCycle) \/ \E f \in Flags : Restart(AppTrigger(f))
    BY <2>3 DEF Restart, Resting, AnswerInv
  <2>4. CASE UNCHANGED vars
    BY <2>4 DEF vars, serverVars, hostVars, mainVars, rxVars, recvVars, linkVars, AnswerInv, Working,
       ReplyUnderway, Receiving
  <2> QED BY <2>1, <2>2, <2>3, <2>4 DEF Next
<1>3. IInv /\ AnswerInv => ExactlyOneAnswer
  <2> SUFFICES ASSUME IInv, AnswerInv,
                      host = "wait_flash" \/ (host = "wait_block" /\ current_status = "FLASH_RECEIVE")
               PROVE  ReplyUnderway <=> ~ Working
    BY DEF ExactlyOneAnswer
  <2> USE DEF IInv, ProtocolInv, TypeOK, ServerTypeOK
  <2>1. CASE rb # 0
    BY <2>1 DEF ResetInv, Working, Resting, AnswerInv
  <2>2. CASE rb = 0 /\ current_status = "IDLE"
    BY <2>2 DEF IdleInv, Idle, CommandPending, Working, AnswerInv
  <2>3. CASE Receiving
    BY <2>3 DEF ReceiveInv, HostAnnounced, HostSending, BlockPending, BlockWritten, BlockAnswered,
       HostGone, HostBack, Working, AnswerInv
  <2> QED BY <2>1, <2>2, <2>3 DEF Receiving
<1> QED BY <1>1, <1>2, <1>3, Invariance, PTL DEF Spec
=============================================================================
