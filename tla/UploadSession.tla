---------------------------- MODULE UploadSession ----------------------------
(***************************************************************************)
(* The bootloader with the upload tool it is written for: one host that    *)
(* uploads over one transport at a time and waits for every reply.  It     *)
(* pings until it is answered, announces the image, sends it in blocks of  *)
(* IAP_RX_BUFFER_SIZE, each in as many packets as the transport likes, and *)
(* sends the next block only after the OK for the last one.                *)
(*                                                                         *)
(* The host is not part of the repository: what it may do is taken from    *)
(* what process_command and IAP_data_recv expect of it.                    *)
(***************************************************************************)
EXTENDS IAPServer

CONSTANTS
  MaxPacket,   \* most cells in one USB packet or pbuf
  PromptHost,  \* may the host's next packet overtake what follows a reply?
  LinkFaults,  \* may the TCP connection break during an upload?
  PowerFaults, \* may the power fail?
  Links        \* transports the host may choose

\* The images fit into what Erase_FLASH erases, and the host uploads no empty image.
ASSUME SessionAssumption ==
  /\ MaxPacket \in Nat \ {0}
  /\ {PromptHost, LinkFaults, PowerFaults} \subseteq BOOLEAN
  /\ Links \subseteq {"IAP_CDC", "IAP_ETHERNET"}
  /\ \A m \in Images : Size[m] \in 1 .. BankOneRoom

VARIABLES
  host,  \* what the host does next
  link,  \* the transport of this session
  img,   \* the image it uploads
  sent,  \* cells of it sent
  acked  \* cells of it acknowledged, where the block being sent starts

hostVars == <<host, link, img, sent, acked>>
vars == <<serverVars, hostVars>>

Waiting == {"wait_ping", "wait_flash", "wait_block"}
Resting == {"start", "done", "failed"}
-----------------------------------------------------------------------------
\* The end of the block being sent.
BlockEnd == Min2(acked + IAP_RX_BUFFER_SIZE, Size[img])

\* A packet reaches the device.  Over USB it does so at any moment, except that the
\* host's reaction to a reply, and a new session, take longer than the statement
\* or the reset_buf that follows in the main loop, unless PromptHost.  Over Ethernet
\* lwIP's call of IAP_data_recv is one step: USB is silent, so the interrupt never
\* falls into it (as it does in AnyHost).
Deliver(Buf, n) ==
  \/ /\ link = "IAP_CDC"
     /\ (pc = "idle_done" \/ rb # 0) => PromptHost
     /\ CDC_Receive_FS(Buf, n)
  \/ /\ link = "IAP_ETHERNET" /\ client
     /\ TCP_recv(Buf, n)

Command(c) == Deliver([i \in {0} |-> c], 1)

\* The host reads the reply r.
Answer(r) ==
  \/ link = "IAP_CDC" /\ CdcTaken(r)
  \/ link = "IAP_ETHERNET" /\ TcpTaken(r)

ReplyUnderway == IF link = "IAP_CDC" THEN cdcTx # "none" ELSE tcpTx # <<>>

\* The device has nothing left to do but to wait for input.
Quiescent == pc \in {"task", "lwip"} /\ rb = 0 /\ ~ data_is_ready
-----------------------------------------------------------------------------
HostOpen ==
  /\ host = "start"
  /\ \E l \in Links, m \in Images :
       /\ link' = l /\ img' = m
       /\ IF l = "IAP_ETHERNET" THEN TCP_accept ELSE UNCHANGED serverVars
  /\ sent' = 0 /\ acked' = 0
  /\ host' = "ping"

HostPing ==
  /\ host = "ping"
  /\ Command(Plain("ping"))
  /\ host' = "wait_ping" /\ UNCHANGED <<link, img, sent, acked>>

HostAnnounce ==
  /\ host = "announce"
  /\ Command(FlashCmd(img))
  /\ host' = "wait_flash" /\ UNCHANGED <<link, img, sent, acked>>

HostSend ==
  /\ host = "send"
  /\ \E n \in 1 .. Min2(MaxPacket, BlockEnd - sent) :
       /\ Deliver([i \in 0 .. n - 1 |-> Byte(img, sent + i)], n)
       /\ sent' = sent + n
       /\ host' = IF sent + n = BlockEnd THEN "wait_block" ELSE "send"
  /\ UNCHANGED <<link, img, acked>>

\* OK: go on with the session.
HostOk ==
  /\ host \in Waiting
  /\ Answer("OK")
  /\ host' = IF host = "wait_ping" THEN "announce"
             ELSE IF host = "wait_block" /\ sent = Size[img] THEN "done"
             ELSE "send"
  /\ acked' = IF host = "wait_block" THEN sent ELSE acked
  /\ UNCHANGED <<link, img, sent>>

\* Any other reply ends it.
HostRefused ==
  /\ host \in Waiting
  /\ \E r \in Replies \ {"OK"} : Answer(r)
  /\ host' = "failed" /\ UNCHANGED <<link, img, sent, acked>>

\* Whatever still arrives after the end is read and ignored.
HostDrains ==
  /\ host \in {"done", "failed"}
  /\ \E r \in Replies : Answer(r)
  /\ UNCHANGED hostVars

\* A reply is long overdue: it was lost, or is never coming.
HostTimeout ==
  /\ host \in Waiting /\ Quiescent /\ ~ ReplyUnderway
  /\ host' = "failed"
  /\ UNCHANGED <<serverVars, link, img, sent, acked>>

\* The host closes the TCP connection at the end, or it breaks before.
HostClosed ==
  /\ host \in {"done", "failed"} \/ LinkFaults
  /\ client /\ TCP_closed
  /\ host' = IF host \in Resting THEN host ELSE "failed"
  /\ UNCHANGED <<link, img, sent, acked>>

\* The next session, on a fresh connection, takes longer to begin than the check of
\* the last image, unless PromptHost.
HostAgain ==
  /\ host \in {"done", "failed"}
  /\ pc \in {"verify", "reply_bad"} => PromptHost
  /\ ~ client /\ cdcTx = "none"
  /\ host' = "start"
  /\ UNCHANGED <<serverVars, link, img, sent, acked>>

\* The device restarts and its transports with it.
Restart(action) ==
  /\ action
  /\ host' = IF host \in Resting THEN host ELSE "failed"
  /\ UNCHANGED <<link, img, sent, acked>>

Server ==
  \/ server_init \/ task_test \/ task_clear \/ ProcessCommand \/ reset_buf \/ lwip_done

Host == HostOpen \/ HostPing \/ HostAnnounce \/ HostSend \/ HostOk \/ HostRefused
          \/ HostDrains \/ HostTimeout \/ HostClosed \/ HostAgain

Next ==
  \/ Server /\ UNCHANGED hostVars
  \/ Host
  \/ Restart(SystemReset)
  \/ \E f \in Flags : Restart(AppTrigger(f))
  \/ PowerFaults /\ Restart(PowerCycle)

Init ==
  /\ ServerInit
  /\ host = "start" /\ link \in Links /\ img \in Images /\ sent = 0 /\ acked = 0

Spec == Init /\ [][Next]_vars

\* The main loop never stops, the host acts as long as it can.  A packet that waits
\* in the Ethernet receive ring is taken by a later MX_LWIP_Process, and a USB
\* packet that was refused is offered again: strong fairness.
FairSpec ==
  /\ Spec
  /\ WF_vars(Server /\ UNCHANGED hostVars) /\ WF_vars(Restart(SystemReset))
  /\ SF_vars(HostOpen) /\ SF_vars(HostPing) /\ SF_vars(HostAnnounce) /\ SF_vars(HostSend)
  /\ WF_vars(HostOk) /\ WF_vars(HostRefused) /\ WF_vars(HostDrains)
  /\ WF_vars(HostTimeout) /\ SF_vars(HostClosed) /\ WF_vars(HostAgain)
-----------------------------------------------------------------------------
(* Properties.                                                             *)

\* Every variable holds a value of its type.
TypeOK ==
  /\ ServerTypeOK
  /\ host \in Waiting \union Resting \union {"ping", "announce", "send"}
  /\ link \in Links /\ img \in Images /\ sent \in Nat /\ acked \in Nat

Uploading == host \in {"send", "wait_block"}

\* The bytes the host has sent are, in order and without a gap, those in the flash
\* followed by those in RXBuffer: none is lost, doubled or misplaced between the
\* interrupt that appends them and the main loop that writes and clears them.
StreamIntegrity ==
  Uploading /\ current_status = "FLASH_RECEIVE" /\ rb = 0 /\ pc # "idle_done" =>
    /\ expected_checksum = img /\ expected_size = Size[img]
    /\ \A o \in 0 .. received_bytes - 1 : flash[o] = Byte(img, o)
    /\ IF pc = "consume"
         THEN sent = received_bytes
         ELSE /\ sent = received_bytes + len_in_RX_buffer
              /\ \A i \in 0 .. len_in_RX_buffer - 1 :
                    RXBuffer[i] = Byte(img, received_bytes + i)

\* IAP_data_recv's unchecked memcpy stays inside RXBuffer, also for whatever the
\* host still has to send of its block.
BufferBound ==
  /\ len_in_RX_buffer <= IAP_RX_BUFFER_SIZE
  /\ (host = "send" /\ pc # "idle_done") =>
       len_in_RX_buffer + (BlockEnd - sent) <= IAP_RX_BUFFER_SIZE

\* The main loop has yet to answer what the host sent last.
Working ==
  \/ data_is_ready
  \/ pc \in {"clear", "dispatch", "erase", "reply_idle", "write", "count", "consume",
            "reply_block", "reply_fail"}

\* A host that waits for the answer to an announcement, or to a block of an upload
\* that is still open, has exactly one thing to wait for, one answer under way or
\* one the main loop is about to give: no answer is lost, none is sent twice.
ExactlyOneAnswer ==
  host = "wait_flash" \/ (host = "wait_block" /\ current_status = "FLASH_RECEIVE") =>
    (ReplyUnderway <=> ~ Working)

\* IAP_server.c:109, send_response((uint8_t*)"Failed"): a host whose block could not
\* be written is told so.
FailureAnswered == host = "wait_block" /\ Quiescent => ReplyUnderway

\* The device restarts after "Checksum OK" only with the whole announced image in
\* the flash, which is the image of the host that was told so.
CommitIsUpload ==
  pc = "commit" => /\ Holds(expected_checksum)
                   /\ host \in {"wait_block", "done"} => expected_checksum = img

\* A new session never finds the upload of an earlier one still open, which would take
\* its ping for image data: however a session ended, its upload is over, or complete
\* and about to be committed or refused.
FreshSession ==
  host \in {"ping", "wait_ping"} =>
    \/ current_status = "IDLE" \/ rb # 0
    \/ pc \in {"verify", "commit", "reply_bad"}

\* A flash cell is programmed only after it was erased, and once: the ECC of the
\* STM32H7 allows no more.
ProgrammedOnce ==
  [][\A o \in Offsets : flash[o] # Erased /\ flash'[o] # flash[o] => pc = "erase"]_vars

\* README, "There are three ways to stay in the UPLOAD mode": the magic flag, an
\* empty application area, or BOOT0.
ThreeReasons ==
  [][pc = "startup" /\ pc' = "task" =>
       flag # "MAGIC_APP_FLAG" \/ ~ AppPresent \/ TRUE \in Boot0Levels]_vars

\* A host that turns to a bootloader in upload mode gets an image installed, unless
\* something fails.
UploadFinishes == (host = "ping" /\ pc = "task") ~> (pc = "commit")
-----------------------------------------------------------------------------
(* The refinement: the abstract slot is read off the flash.                *)

\* The number of leading cells of the flash that are those of image m.
Prefix(m) ==
  CHOOSE n \in 0 .. Size[m] :
    /\ \A i \in 0 .. n - 1 : flash[i] = Byte(m, i)
    /\ n < Size[m] => flash[n] # Byte(m, n)

Open == current_status = "FLASH_RECEIVE" /\ pc # "reply_fail"

Update == INSTANCE FirmwareUpdate WITH
  Block  <- IAP_RX_BUFFER_SIZE,
  phase  <- IF pc = "commit" THEN "committed" ELSE IF Open THEN "open" ELSE "closed",
  target <- IF Open THEN expected_checksum ELSE NoImage,
  slot   <- IF flash[0].kind = "byte"
              THEN [img |-> flash[0].img, n |-> Prefix(flash[0].img)]
              ELSE [img |-> NoImage, n |-> 0],
  acked  <- acked

\* The bootloader with this host implements the abstract update.
UpdateSpec == Update!Spec
=============================================================================
