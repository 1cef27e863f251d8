------------------------------ MODULE IAPServer ------------------------------
(***************************************************************************)
(* The in-application-programming server of the bootloader: the main loop  *)
(* (main.c, IAP_task, process_command, reset_buf, server_init), the USB    *)
(* CDC receive interrupt that calls IAP_data_recv at any point of it, the  *)
(* TCP callbacks that lwIP runs from the main loop, the two transports'    *)
(* replies, the flash and the RTC backup register.  Who sends what is left *)
(* to the modules that extend this one.                                    *)
(*                                                                         *)
(* The main loop is cut wherever the interrupt could see the difference:   *)
(* each action reads or writes the shared variables in one place of the    *)
(* code.  Memory is counted in cells, an arbitrary number of bytes: one    *)
(* command is one cell, byte i of image m is the cell Byte(m, i).          *)
(***************************************************************************)
EXTENDS FlashLayout, Sequences

CONSTANTS
  IAP_RX_BUFFER_SIZE, \* cells in RXBuffer
  Images,             \* application images a host may upload
  NoImage,            \* no image has been announced
  Size,               \* Size[m]: cells in image m
  Bootable,           \* images whose initial stack pointer server_init accepts
  EraseFaults,        \* may HAL_FLASHEx_Erase fail?
  WriteFaults,        \* may HAL_FLASH_Program or the read-back fail on erased flash?
  SilentFaults,       \* may a cell be spoilt where the read-back does not look?
  SendFaults,         \* may tcp_write fail although there is room?
  SEND_QUEUE,         \* replies the TCP connection takes before the client reads one
  Boot0Levels         \* levels the BOOT0 pin may have at startup

ASSUME ServerAssumption ==
  /\ IAP_RX_BUFFER_SIZE \in Nat \ {0}
  /\ NoImage \notin Images
  /\ Size \in [Images -> Nat]
  /\ Bootable \subseteq Images
  /\ {EraseFaults, WriteFaults, SilentFaults, SendFaults} \subseteq BOOLEAN
  /\ SEND_QUEUE \in Nat \ {0}
  /\ Boot0Levels \subseteq BOOLEAN /\ Boot0Levels # {}

VARIABLES
  pc,                \* what the main loop does next
  rb,                \* next assignment of a running reset_buf, 0 when none runs
  out,               \* reply that process_command is about to send
  data_is_ready, len_in_RX_buffer, RXBuffer,
  received_bytes, current_status, current_method,
  expected_size, expected_checksum,
  flash,             \* the application area, by offset
  flag,              \* backup register MAGIC_BKP_REG
  cdcTx,             \* reply the USB IN endpoint holds, "none" when TxState is 0
  client,            \* client_pcb # NULL
  tcpTx              \* replies handed to the TCP connection, not yet read

mainVars == <<pc, rb, out>>
rxVars   == <<data_is_ready, len_in_RX_buffer, RXBuffer>>
recvVars == <<received_bytes, current_status>>
expVars  == <<expected_size, expected_checksum>>
keptVars == <<flash, flag>>
linkVars == <<cdcTx, client, tcpTx>>
serverVars == <<mainVars, rxVars, recvVars, current_method, expVars, keptVars, linkVars>>
-----------------------------------------------------------------------------
(* Cells, buffers and replies.                                             *)

Kinds == {"byte", "zero", "erased", "garbage", "ping", "info", "run", "flash", "flashbad"}
Cells == {c \in [kind : Kinds, img : Images \union {NoImage}, pos : Nat] :
            c.kind \in {"byte", "flash"} => c.img \in Images}

Byte(m, i) == [kind |-> "byte", img |-> m, pos |-> i]
Plain(k)   == [kind |-> k, img |-> NoImage, pos |-> 0]
FlashCmd(m) == [kind |-> "flash", img |-> m, pos |-> 0]
Zero       == Plain("zero")
Erased     == Plain("erased")
Garbage    == Plain("garbage")

Replies == {"OK", "VERSION", "ERR", "Failed", "ChecksumFailed", "UnknownCommand"}
Methods == {"IAP_NONE", "IAP_CDC", "IAP_ETHERNET"}
Flags   == {"MAGIC_APP_FLAG", "MAGIC_CDC_FLAG", "MAGIC_ETH_FLAG"}

RXIndex == 0 .. IAP_RX_BUFFER_SIZE - 1
Offsets == 0 .. AppRoom - 1
Blank   == [i \in RXIndex |-> Zero]

\* RXBuffer after memcpy(RXBuffer + at, Buf, n); what would land behind it is not kept.
Copied(at, Buf, n) ==
  [i \in RXIndex |-> IF at <= i /\ i < at + n THEN Buf[i - at] ELSE RXBuffer[i]]

\* Does the flash start with the whole of image m?  Stands for a match of the CRC
\* over expected_size bytes: CRC collisions are left out.
Holds(m) == \A i \in 0 .. Size[m] - 1 : flash[i] = Byte(m, i)

\* server_init's test of the first flash word: (app_msp & 0x2FFE0000) == 0x24080000.
AppPresent == flash[0].kind = "byte" /\ flash[0].pos = 0 /\ flash[0].img \in Bootable

Min2(a, b) == IF a <= b THEN a ELSE b
-----------------------------------------------------------------------------
\* Power is applied for the first time: an empty flash.
ServerInit ==
  /\ pc = "startup" /\ rb = 0 /\ out = "OK"
  /\ data_is_ready = FALSE /\ len_in_RX_buffer = 0 /\ RXBuffer = Blank
  /\ received_bytes = 0 /\ current_status = "IDLE" /\ current_method = "IAP_NONE"
  /\ expected_size = 0 /\ expected_checksum = NoImage
  /\ cdcTx = "none" /\ client = FALSE /\ tcpTx = <<>>
  /\ flash = [o \in Offsets |-> Erased]
  /\ flag = "MAGIC_APP_FLAG"

\* HAL_NVIC_SystemReset or a power cycle: RAM is initialised again, only the flash
\* and the backup register stay.
Reboot ==
  /\ pc' = "startup" /\ rb' = 0 /\ out' = "OK"
  /\ data_is_ready' = FALSE /\ len_in_RX_buffer' = 0 /\ RXBuffer' = Blank
  /\ received_bytes' = 0 /\ current_status' = "IDLE" /\ current_method' = "IAP_NONE"
  /\ expected_size' = 0 /\ expected_checksum' = NoImage
  /\ cdcTx' = "none" /\ client' = FALSE /\ tcpTx' = <<>>
  /\ flash' = flash

SystemReset == pc \in {"reset", "commit"} /\ rb = 0 /\ Reboot /\ flag' = flag
PowerCycle  == Reboot /\ flag' = flag

\* The running application asks for the bootloader: IAP_CDC_reboot_trigger,
\* IAP_ETH_reboot_trigger, which application code calls.
AppTrigger(f) ==
  /\ pc = "app"
  /\ f \in {"MAGIC_CDC_FLAG", "MAGIC_ETH_FLAG"} /\ flag # f
  /\ Reboot
  /\ flag' = f

At(l) == pc = l /\ rb = 0
Goto(l) == pc' = l /\ rb' = rb

\* server_init: stay in upload mode for one of its reasons, or start the
\* application.  current_method is not reset first: a packet that arrived since
\* MX_USB_DEVICE_Init has already set it.
server_init ==
  /\ At("startup")
  /\ \E boot0 \in Boot0Levels :
       current_method' = IF flag = "MAGIC_CDC_FLAG" THEN "IAP_CDC"
                         ELSE IF flag = "MAGIC_ETH_FLAG" THEN "IAP_ETHERNET"
                         ELSE IF ~ AppPresent \/ boot0 THEN "IAP_CDC"
                         ELSE current_method
  /\ IF current_method' # "IAP_NONE"
       THEN Goto("task") /\ flag' = "MAGIC_APP_FLAG"
       ELSE Goto("app") /\ flag' = flag
  /\ UNCHANGED <<out, rxVars, recvVars, expVars, flash, linkVars>>
-----------------------------------------------------------------------------
(* Receiving and replying.                                                 *)

\* A slip the runs must notice: a block is ready only when it is longer than the
\* buffer or the image.
IAP_data_recv_late(iapM, Buf, n) ==
  /\ current_method' = iapM
  /\ RXBuffer' = Copied(IF current_status = "IDLE" THEN 0 ELSE len_in_RX_buffer, Buf, n)
  /\ len_in_RX_buffer' = IF current_status = "IDLE" THEN n ELSE len_in_RX_buffer + n
  /\ data_is_ready' = (\/ data_is_ready \/ current_status = "IDLE"
                       \/ len_in_RX_buffer + n > IAP_RX_BUFFER_SIZE
                       \/ received_bytes + len_in_RX_buffer + n > expected_size)
  /\ UNCHANGED <<mainVars, recvVars, expVars, keptVars, linkVars>>

\* Another: only a full buffer is ready, not the end of the image.
IAP_data_recv_full(iapM, Buf, n) ==
  /\ current_method' = iapM
  /\ RXBuffer' = Copied(IF current_status = "IDLE" THEN 0 ELSE len_in_RX_buffer, Buf, n)
  /\ len_in_RX_buffer' = IF current_status = "IDLE" THEN n ELSE len_in_RX_buffer + n
  /\ data_is_ready' = (\/ data_is_ready \/ current_status = "IDLE"
                       \/ len_in_RX_buffer + n >= IAP_RX_BUFFER_SIZE)
  /\ UNCHANGED <<mainVars, recvVars, expVars, keptVars, linkVars>>

\* IAP_data_recv: n cells of Buf arrived over iapM.
IAP_data_recv(iapM, Buf, n) ==
  /\ current_method' = iapM
  /\ IF current_status = "IDLE"
       THEN LET dataLen == Min2(n, IAP_RX_BUFFER_SIZE) IN
            /\ RXBuffer' = Copied(0, Buf, dataLen)
            /\ len_in_RX_buffer' = dataLen
            /\ data_is_ready' = TRUE
       ELSE /\ RXBuffer' = Copied(len_in_RX_buffer, Buf, n)
            /\ len_in_RX_buffer' = len_in_RX_buffer + n
            /\ data_is_ready' = (\/ data_is_ready
                                 \/ len_in_RX_buffer + n >= IAP_RX_BUFFER_SIZE
                                 \/ received_bytes + len_in_RX_buffer + n >= expected_size)
  /\ UNCHANGED <<mainVars, recvVars, expVars, keptVars, linkVars>>

\* CDC_Receive_FS: the USB interrupt, whatever the main loop is doing.
CDC_Receive_FS(Buf, n) == pc # "app" /\ IAP_data_recv("IAP_CDC", Buf, n)

\* _recv: lwIP hands over a pbuf, from MX_LWIP_Process; of any connection that was
\* accepted, also one that client_pcb no longer points to.  In one step, so only for
\* where no USB packet can come meanwhile; AnyHost divides it.
TCP_recv(Buf, n) == At("lwip") /\ IAP_data_recv("IAP_ETHERNET", Buf, n)

\* _accept: the connection becomes the one replies go to.
TCP_accept ==
  /\ At("lwip")
  /\ client' = TRUE /\ tcpTx' = <<>>
  /\ UNCHANGED <<mainVars, rxVars, recvVars, current_method, expVars, keptVars, cdcTx>>

\* TCP_closed with the reset_buf forgotten.
TCP_closed_only ==
  /\ At("lwip")
  /\ client' = FALSE /\ tcpTx' = <<>>
  /\ UNCHANGED <<mainVars, rxVars, recvVars, current_method, expVars, keptVars, cdcTx>>

\* tcp_server_close, _err of any connection: forget the client and reset the upload.
TCP_closed ==
  /\ At("lwip")
  /\ client' = FALSE /\ tcpTx' = <<>>
  /\ rb' = 1
  /\ UNCHANGED <<pc, out, rxVars, recvVars, current_method, expVars, keptVars, cdcTx>>

\* send_response: CDC_Transmit_FS drops the reply while the endpoint is busy,
\* tcp_server_send when there is no client or tcp_write fails.
send_response(msg) ==
  \/ /\ current_method = "IAP_CDC"
     /\ cdcTx' = IF cdcTx = "none" THEN msg ELSE cdcTx
     /\ UNCHANGED <<client, tcpTx>>
  \/ /\ current_method = "IAP_ETHERNET"
     /\ client /\ Len(tcpTx) < SEND_QUEUE
     /\ tcpTx' = Append(tcpTx, msg)
     /\ UNCHANGED <<client, cdcTx>>
  \/ /\ current_method = "IAP_ETHERNET"
     /\ ~ client \/ Len(tcpTx) >= SEND_QUEUE \/ SendFaults
     /\ UNCHANGED linkVars
  \/ /\ current_method = "IAP_NONE"
     /\ UNCHANGED linkVars

\* The host reads a reply: the IN transfer completes and frees the endpoint, or
\* the TCP data is delivered.
CdcTaken(r) ==
  /\ cdcTx = r /\ r # "none"
  /\ cdcTx' = "none"
  /\ UNCHANGED <<mainVars, rxVars, recvVars, current_method, expVars, keptVars, client, tcpTx>>

TcpTaken(r) ==
  /\ tcpTx # <<>> /\ Head(tcpTx) = r
  /\ tcpTx' = Tail(tcpTx)
  /\ UNCHANGED <<mainVars, rxVars, recvVars, current_method, expVars, keptVars, client, cdcTx>>

\* reset_buf with received_bytes forgotten.
reset_buf_short ==
  /\ rb \in 1 .. 6
  /\ rb' = IF rb = 6 THEN 0 ELSE rb + 1
  /\ data_is_ready'    = IF rb = 1 THEN FALSE ELSE data_is_ready
  /\ len_in_RX_buffer' = IF rb = 2 THEN 0 ELSE len_in_RX_buffer
  /\ RXBuffer'         = IF rb = 4 THEN Blank ELSE RXBuffer
  /\ current_status'   = IF rb = 5 THEN "IDLE" ELSE current_status
  /\ current_method'   = IF rb = 6 THEN "IAP_NONE" ELSE current_method
  /\ UNCHANGED <<pc, out, received_bytes, expVars, keptVars, linkVars>>

\* reset_buf, one assignment at a time in the order of the source.
reset_buf ==
  /\ rb \in 1 .. 6
  /\ rb' = IF rb = 6 THEN 0 ELSE rb + 1
  /\ data_is_ready'    = IF rb = 1 THEN FALSE ELSE data_is_ready
  /\ len_in_RX_buffer' = IF rb = 2 THEN 0 ELSE len_in_RX_buffer
  /\ received_bytes'   = IF rb = 3 THEN 0 ELSE received_bytes
  /\ RXBuffer'         = IF rb = 4 THEN Blank ELSE RXBuffer
  /\ current_status'   = IF rb = 5 THEN "IDLE" ELSE current_status
  /\ current_method'   = IF rb = 6 THEN "IAP_NONE" ELSE current_method
  /\ UNCHANGED <<pc, out, expVars, keptVars, linkVars>>
-----------------------------------------------------------------------------
(* IAP_task and process_command.                                           *)

\* IAP_task tests data_is_ready ...
task_test ==
  /\ At("task")
  /\ Goto(IF data_is_ready THEN "clear" ELSE "lwip")
  /\ UNCHANGED <<out, rxVars, recvVars, current_method, expVars, keptVars, linkVars>>

\* ... and then clears it and calls process_command.
task_clear ==
  /\ At("clear")
  /\ data_is_ready' = FALSE
  /\ Goto(IF current_status = "IDLE" THEN "dispatch" ELSE "write")
  /\ UNCHANGED <<out, len_in_RX_buffer, RXBuffer, recvVars, current_method, expVars,
                 keptVars, linkVars>>

\* The command in RXBuffer, when idle.  The code compares it several times: a packet that
\* replaces it in between makes it another command or an unknown one.
dispatch ==
  /\ At("dispatch")
  /\ LET command == RXBuffer[0] IN
     \/ /\ command.kind = "ping"
        /\ out' = "OK" /\ Goto("reply_idle") /\ UNCHANGED expVars
     \/ /\ command.kind = "info"
        /\ out' = "VERSION" /\ Goto("reply_idle") /\ UNCHANGED expVars
     \/ /\ command.kind = "run"
        /\ pc' = "reset" /\ rb' = 1 /\ UNCHANGED <<out, expVars>>
     \/ /\ command.kind = "flash"
        /\ expected_size' = Size[command.img] /\ expected_checksum' = command.img
        /\ Goto("erase") /\ UNCHANGED out
     \/ /\ command.kind = "flashbad"  \* sscanf may still have converted the size
        /\ \E n \in {Size[m] : m \in Images} \union {expected_size} : expected_size' = n
        /\ Goto("idle_done") /\ UNCHANGED <<out, expected_checksum>>
     \/ /\ command.kind \notin {"ping", "info", "run", "flash", "flashbad"}
        /\ out' = "UnknownCommand" /\ Goto("reply_idle") /\ UNCHANGED expVars
  /\ UNCHANGED <<rxVars, recvVars, current_method, keptVars, linkVars>>

\* The flash with the first n sectors of the application area erased.
AfterErase(n) == [o \in Offsets |-> IF ErasedOffset(o, n) THEN Erased ELSE flash[o]]

\* The same with the next sector spoilt by an erase that failed.
TornErase(n) ==
  [o \in Offsets |-> IF ErasedOffset(o, n) THEN Erased
                     ELSE IF ErasedOffset(o, n + 1) THEN Garbage ELSE flash[o]]

\* erase with its return value ignored.
erase_unchecked ==
  /\ At("erase")
  /\ \/ flash' = AfterErase(NbSectors(expected_size))
     \/ EraseFaults /\ \E n \in 0 .. NbSectors(expected_size) : flash' = AfterErase(n)
  /\ current_status' = "FLASH_RECEIVE" /\ out' = "OK"
  /\ Goto("reply_idle")
  /\ UNCHANGED <<rxVars, received_bytes, current_method, expVars, flag, linkVars>>

\* Erase_FLASH(app_base, expected_size).  An error stops it at any sector.
erase ==
  /\ At("erase")
  /\ \/ /\ flash' = AfterErase(NbSectors(expected_size))
        /\ current_status' = "FLASH_RECEIVE"
        /\ out' = "OK"
     \/ /\ EraseFaults
        /\ \/ \E n \in 0 .. NbSectors(expected_size) : flash' = AfterErase(n)
           \/ \E n \in 0 .. NbSectors(expected_size) - 1 : flash' = TornErase(n)
        /\ current_status' = current_status
        /\ out' = "ERR"
  /\ Goto("reply_idle")
  /\ UNCHANGED <<rxVars, received_bytes, current_method, expVars, flag, linkVars>>

reply_idle ==
  /\ At("reply_idle")
  /\ send_response(out)
  /\ Goto("idle_done")
  /\ UNCHANGED <<out, rxVars, recvVars, current_method, expVars, keptVars>>

\* idle_done that leaves the command in the buffer.
idle_done_full ==
  /\ At("idle_done")
  /\ Goto("lwip")
  /\ UNCHANGED <<out, rxVars, recvVars, current_method, expVars, keptVars, linkVars>>

\* The buffer is declared empty only now, after the reply.
idle_done ==
  /\ At("idle_done")
  /\ len_in_RX_buffer' = 0
  /\ Goto("lwip")
  /\ UNCHANGED <<out, data_is_ready, RXBuffer, recvVars, current_method, expVars, keptVars,
                 linkVars>>

\* Programming flips bits one way only: a cell that was not erased is spoilt.  What
\* is no piece of an image is garbage in the flash.
Programmed(old, new) == IF old = Erased /\ new.kind = "byte" THEN new ELSE Garbage

AfterWrite(n) ==
  [o \in Offsets |->
     IF received_bytes <= o /\ o < received_bytes + n
       THEN Programmed(flash[o], RXBuffer[o - received_bytes])
       ELSE flash[o]]

\* May Flash_If_Write report an error?  Always when it runs out of the flash, and
\* possibly when it programs a cell that was not erased.
WriteMayFail ==
  \/ WriteFaults
  \/ received_bytes + len_in_RX_buffer > AppRoom
  \/ \E o \in Offsets : /\ received_bytes <= o /\ o < received_bytes + len_in_RX_buffer
                        /\ flash[o] # Erased

\* The same when writing stops at the n-th cell, which may be spoilt already.
TornWrite(n) ==
  {AfterWrite(n), [AfterWrite(n) EXCEPT ![received_bytes + n] = Garbage]}

\* What a write that returns HAL_OK leaves: only the first 8 bytes of a flash word
\* are read back.
Written ==
  {AfterWrite(len_in_RX_buffer)} \union
    {[AfterWrite(len_in_RX_buffer) EXCEPT ![received_bytes + n] = Garbage] :
       n \in {k \in 0 .. len_in_RX_buffer - 1 : SilentFaults}}

\* Flash_If_Write(RXBuffer, app_base + received_bytes, len_in_RX_buffer) in
\* FLASH_RECEIVE.  On an error a part is written and the upload is reset.
write ==
  /\ At("write")
  /\ \/ /\ received_bytes + len_in_RX_buffer <= AppRoom
        /\ flash' \in Written
        /\ Goto("count") /\ UNCHANGED out
     \/ /\ WriteMayFail
        /\ \E n \in 0 .. len_in_RX_buffer - 1 : flash' \in TornWrite(n)
        /\ pc' = "reply_fail" /\ rb' = 1 /\ out' = "Failed"
  /\ UNCHANGED <<rxVars, recvVars, current_method, expVars, flag, linkVars>>

reply_fail ==
  /\ At("reply_fail")
  /\ send_response(out)
  /\ Goto("verify")
  /\ UNCHANGED <<out, rxVars, recvVars, current_method, expVars, keptVars>>

\* count the wrong way round.
count_down ==
  /\ At("count")
  /\ received_bytes' = received_bytes - len_in_RX_buffer
  /\ Goto("consume")
  /\ UNCHANGED <<out, rxVars, current_status, current_method, expVars, keptVars, linkVars>>

\* received_bytes += len_in_RX_buffer, which the interrupt may have raised.
count ==
  /\ At("count")
  /\ received_bytes' = received_bytes + len_in_RX_buffer
  /\ Goto("consume")
  /\ UNCHANGED <<out, rxVars, current_status, current_method, expVars, keptVars, linkVars>>

\* consume that clears the buffer and keeps its length.
consume_cleared ==
  /\ At("consume")
  /\ RXBuffer' = [i \in RXIndex |-> IF i < len_in_RX_buffer THEN Zero ELSE RXBuffer[i]]
  /\ out' = "OK"
  /\ Goto("reply_block")
  /\ UNCHANGED <<len_in_RX_buffer, data_is_ready, recvVars, current_method, expVars, keptVars,
                 linkVars>>

\* memset(RXBuffer, 0, len_in_RX_buffer); len_in_RX_buffer = 0.  What is appended between
\* the two is as lost as what is appended before them.
consume ==
  /\ At("consume")
  /\ RXBuffer' = [i \in RXIndex |-> IF i < len_in_RX_buffer THEN Zero ELSE RXBuffer[i]]
  /\ len_in_RX_buffer' = 0
  /\ out' = "OK"
  /\ Goto("reply_block")
  /\ UNCHANGED <<data_is_ready, recvVars, current_method, expVars, keptVars, linkVars>>

reply_block ==
  /\ At("reply_block")
  /\ send_response(out)
  /\ Goto("verify")
  /\ UNCHANGED <<out, rxVars, recvVars, current_method, expVars, keptVars>>

\* verify that runs its checksum over what has arrived so far.
verify_partial ==
  /\ At("verify")
  /\ IF expected_checksum \in Images
          /\ \A i \in Offsets : i < received_bytes => flash[i] = Byte(expected_checksum, i)
       THEN Goto("commit") /\ UNCHANGED out
       ELSE Goto("reply_bad") /\ out' = "ChecksumFailed"
  /\ UNCHANGED <<rxVars, recvVars, current_method, expVars, keptVars, linkVars>>

\* Is the image complete, and does its checksum match?
verify ==
  /\ At("verify")
  /\ IF received_bytes < expected_size THEN Goto("lwip") /\ UNCHANGED out
     ELSE \/ /\ expected_checksum # NoImage
             /\ expected_size = Size[expected_checksum] /\ Holds(expected_checksum)
             /\ Goto("commit") /\ UNCHANGED out
          \/ /\ \/ expected_checksum = NoImage
                \/ expected_size # Size[expected_checksum]
                \/ ~ Holds(expected_checksum)
             /\ Goto("reply_bad") /\ out' = "ChecksumFailed"
  /\ UNCHANGED <<rxVars, recvVars, current_method, expVars, keptVars, linkVars>>

\* reply_bad that forgets its reset_buf.
reply_bad_only ==
  /\ At("reply_bad")
  /\ send_response(out)
  /\ Goto("lwip")
  /\ UNCHANGED <<out, rxVars, recvVars, current_method, expVars, keptVars>>

reply_bad ==
  /\ At("reply_bad")
  /\ send_response(out)
  /\ pc' = "lwip" /\ rb' = 1
  /\ UNCHANGED <<out, rxVars, recvVars, current_method, expVars, keptVars>>

\* MX_LWIP_Process returns and HAL_Delay(10) passes.
lwip_done ==
  /\ At("lwip")
  /\ Goto("task")
  /\ UNCHANGED <<out, rxVars, recvVars, current_method, expVars, keptVars, linkVars>>

ProcessCommand ==
  \/ dispatch \/ erase \/ reply_idle \/ idle_done
  \/ write \/ reply_fail \/ count \/ consume \/ reply_block \/ verify \/ reply_bad
-----------------------------------------------------------------------------
Labels == {"startup", "app", "task", "clear", "dispatch", "erase", "reply_idle", "idle_done",
           "write", "reply_fail", "count", "consume", "reply_block", "verify", "reply_bad",
           "commit", "reset", "lwip"}

\* Every variable holds a value of its type.
ServerTypeOK ==
  /\ pc \in Labels /\ rb \in 0 .. 6 /\ out \in Replies
  /\ data_is_ready \in BOOLEAN /\ len_in_RX_buffer \in Nat /\ RXBuffer \in [RXIndex -> Cells]
  /\ received_bytes \in Nat /\ current_status \in {"IDLE", "FLASH_RECEIVE"}
  /\ current_method \in Methods
  /\ expected_size \in Nat /\ expected_checksum \in Images \union {NoImage}
  /\ flash \in [Offsets -> Cells] /\ flag \in Flags
  /\ cdcTx \in Replies \union {"none"} /\ client \in BOOLEAN /\ tcpTx \in Seq(Replies)
=============================================================================
