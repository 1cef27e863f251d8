--------------------------- MODULE UploadInvariant ---------------------------
(***************************************************************************)
(* The inductive invariant of UploadSession, for a host that is slower     *)
(* than the main loop's last statement (~ PromptHost).  It says, for each  *)
(* place of the main loop, what the host can be doing at that moment and   *)
(* where the bytes it has sent are.  With SilentFaults some of them may be *)
(* spoilt in the flash, so the checksum of a complete image may fail.      *)
(***************************************************************************)
EXTENDS UploadSession

Idle == current_status = "IDLE"
Receiving == current_status = "FLASH_RECEIVE" /\ rb = 0

\* The first k cells of the announced image are in the flash, or spoilt unnoticed, and
\* the rest of its place is erased.
StoredUpTo(k) ==
  \A o \in Offsets :
    /\ o < k => \/ flash[o] = Byte(expected_checksum, o)
                \/ SilentFaults /\ flash[o] = Garbage
    /\ k <= o /\ o < Size[expected_checksum] => flash[o] = Erased

\* At "count" the block in RXBuffer is in the flash but not yet counted.
Stored == StoredUpTo(IF pc = "count" THEN received_bytes + len_in_RX_buffer ELSE received_bytes)

\* RXBuffer holds the cells of the announced image that follow the stored ones.
Buffered ==
  \A i \in RXIndex :
    i < len_in_RX_buffer => RXBuffer[i] = Byte(expected_checksum, received_bytes + i)

\* A command waits in RXBuffer for process_command.
CommandPending == data_is_ready \/ pc \in {"clear", "dispatch"}
\* The checksum of everything the host has sent may have failed.
Checked == SilentFaults /\ sent = Size[img]
-----------------------------------------------------------------------------
BufferInv == len_in_RX_buffer <= IAP_RX_BUFFER_SIZE

\* Replies exist on the link of the session only, and only one at a time, but for the
\* ChecksumFailed that may follow the OK to the last block.
LinkInv ==
  /\ client => link = "IAP_ETHERNET"
  /\ client \/ tcpTx = <<>>
  /\ host \in Waiting => Len(tcpTx) <= 1 \/ (host = "wait_block" /\ Checked)
  /\ link = "IAP_ETHERNET" => cdcTx = "none"
  /\ host = "start" => ~ client /\ cdcTx = "none"
  /\ host \in {"ping", "announce", "send"} => ~ ReplyUnderway
  /\ host \in {"ping", "wait_ping", "announce", "wait_flash"} => sent = 0 /\ acked = 0
  /\ link = "IAP_ETHERNET" /\ host \notin Resting => client

\* Before server_init has decided, and in the application.
BootInv ==
  pc \in {"startup", "app"} =>
    /\ rb = 0 /\ Idle /\ ~ client /\ cdcTx = "none"
    /\ \/ host \in Resting \union {"ping"} /\ ~ data_is_ready
       \/ /\ pc = "startup" /\ host = "wait_ping"
          /\ data_is_ready /\ current_method = "IAP_CDC"

\* While reset_buf runs.
ResetInv ==
  rb # 0 =>
    /\ rb > 1 => ~ data_is_ready
    /\ rb > 3 => received_bytes = 0
    /\ rb > 5 => Idle
    /\ \/ pc = "lwip" /\ host \in Resting \union {"ping"}
       \/ pc = "lwip" /\ host = "wait_block" /\ Checked /\ ~ data_is_ready
       \/ /\ pc = "reply_fail" /\ host = "wait_block" /\ ~ ReplyUnderway
          /\ expected_size > 0

\* Between uploads.
IdleInv ==
  Idle /\ rb = 0 =>
    /\ received_bytes = 0
    /\ pc \in {"startup", "app", "lwip", "task", "clear", "dispatch", "erase", "reply_idle",
               "idle_done", "reply_fail", "verify"}
    /\ host # "send"
    /\ host = "wait_block" =>
         /\ pc \in {"reply_fail", "verify", "lwip", "task"} /\ ~ data_is_ready
         /\ ReplyUnderway => Checked /\ pc \in {"lwip", "task"}
    /\ pc \in {"reply_fail", "verify"} =>
         host = "wait_block" /\ expected_size > 0 /\ current_method = "IAP_NONE"
    /\ data_is_ready => pc \in {"startup", "lwip", "task", "clear"}
    /\ pc = "clear" => data_is_ready
    /\ CommandPending \/ pc = "reply_idle" =>
         /\ ~ ReplyUnderway
         /\ link = "IAP_ETHERNET" => current_method = link
    /\ CommandPending =>
         /\ \/ host = "wait_ping" /\ RXBuffer[0] = Plain("ping")
            \/ /\ host = "wait_flash" /\ RXBuffer[0] = FlashCmd(img)
               /\ current_method = link
    /\ pc = "erase" =>
         /\ host = "wait_flash" /\ ~ ReplyUnderway /\ current_method = link
         /\ expected_checksum = img /\ expected_size = Size[img]
    /\ pc = "reply_idle" =>
         \/ host = "wait_ping"
         \/ host = "wait_flash" /\ out = "ERR"
    /\ host = "wait_flash" => cdcTx # "OK" /\ (tcpTx # <<>> => Head(tcpTx) # "OK")

\* What a host that has announced its image can be doing while it is received.
\* It awaits the answer to the announcement,
HostAnnounced ==
  /\ host = "wait_flash"
  /\ pc \in {"reply_idle", "idle_done", "lwip", "task"}
  /\ received_bytes = 0 /\ ~ data_is_ready
  /\ pc \in {"lwip", "task"} => len_in_RX_buffer = 0
  /\ pc = "reply_idle" => ~ ReplyUnderway /\ out = "OK"
  /\ pc # "reply_idle" /\ link = "IAP_CDC" => ReplyUnderway

\* is sending a block,
HostSending ==
  /\ host = "send"
  /\ pc \in {"idle_done", "lwip", "task", "verify"}
  /\ acked = received_bytes /\ sent < BlockEnd /\ ~ data_is_ready
  /\ IF pc = "idle_done"
       THEN sent = 0 /\ received_bytes = 0
       ELSE sent = received_bytes + len_in_RX_buffer /\ Buffered

\* has sent a block that is in RXBuffer,
BlockPending ==
  /\ host = "wait_block" /\ ~ ReplyUnderway
  /\ pc \in {"lwip", "task", "clear", "write", "count", "verify"}
  /\ data_is_ready <=> pc \notin {"write", "count"}
  /\ acked = received_bytes /\ sent = BlockEnd /\ sent > acked
  /\ sent = received_bytes + len_in_RX_buffer /\ Buffered

\* that has just been written,
BlockWritten ==
  /\ host = "wait_block" /\ ~ ReplyUnderway
  /\ pc \in {"consume", "reply_block"} /\ ~ data_is_ready
  /\ sent = received_bytes
  /\ pc = "reply_block" => len_in_RX_buffer = 0 /\ out = "OK"

\* or that has been answered.
BlockAnswered ==
  /\ host = "wait_block"
  /\ pc \in {"verify", "lwip", "task", "commit", "reply_bad"} /\ ~ data_is_ready
  /\ sent = received_bytes /\ len_in_RX_buffer = 0
  /\ link = "IAP_CDC" => ReplyUnderway

\* Its answer was lost on the TCP connection,
HostGone ==
  /\ host = "failed" /\ client /\ pc \in {"lwip", "task"}
  /\ ~ data_is_ready /\ len_in_RX_buffer = 0

\* or it knows that the last block is stored, and may be back once the device is
\* about to restart.
HostBack ==
  /\ received_bytes = expected_size
  /\ \/ /\ host = "done" /\ pc \in {"verify", "reply_bad", "commit"}
        /\ expected_checksum = img /\ current_method = link
        /\ len_in_RX_buffer = 0 /\ ~ data_is_ready /\ ~ ReplyUnderway
     \/ host \in {"start", "ping"} /\ pc = "commit" /\ len_in_RX_buffer = 0
     \/ host = "wait_ping" /\ pc = "commit" /\ ~ ReplyUnderway

ReceiveInv ==
  Receiving =>
    /\ expected_checksum \in Images /\ expected_size = Size[expected_checksum]
    /\ received_bytes <= expected_size
    /\ Stored
    /\ received_bytes = expected_size =>
         pc \in {"consume", "reply_block", "verify", "reply_bad", "commit"}
    /\ pc \in {"reply_bad", "commit"} => received_bytes = expected_size
    /\ pc = "commit" => Holds(expected_checksum)
    /\ pc = "reply_bad" => SilentFaults
    /\ host \in {"wait_flash", "send", "wait_block"} =>
         /\ expected_checksum = img /\ current_method = link
         /\ cdcTx \in {"none", "OK"}
         /\ Len(tcpTx) <= 1 /\ (tcpTx # <<>> => Head(tcpTx) = "OK")
    /\ HostAnnounced \/ HostSending \/ BlockPending \/ BlockWritten \/ BlockAnswered
         \/ HostGone \/ HostBack

ProtocolInv == LinkInv /\ BootInv /\ ResetInv /\ IdleInv /\ ReceiveInv

IInv == TypeOK /\ BufferInv /\ ProtocolInv
=============================================================================
