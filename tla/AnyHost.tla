------------------------------- MODULE AnyHost -------------------------------
(***************************************************************************)
(* The bootloader with no assumption on who talks to it: USB packets and   *)
(* TCP segments with any command or any piece of an image arrive at any    *)
(* moment and from both transports at once, connections come and go,       *)
(* replies are read or not, power fails.  Only one thing is kept from the  *)
(* protocol: nobody sends more than the receive buffer takes (BlockFits).  *)
(*                                                                         *)
(* With both transports at once the USB interrupt also falls into the      *)
(* IAP_data_recv that lwIP's _recv calls in the main loop, so that call is *)
(* divided here, at every access to what the interrupt writes.             *)
(***************************************************************************)
EXTENDS IAPServer

CONSTANTS
  MaxPacket,   \* most cells in one USB packet or pbuf
  CommandKinds \* commands that arrive beside the announcements

ASSUME PacketAssumption ==
  MaxPacket \in Nat \ {0} /\ CommandKinds \subseteq Kinds \ {"byte", "flash"}

VARIABLE
  call  \* _recv's IAP_data_recv: its arguments, the length it goes by, and the
        \* cells the interrupt has written where it is copying to

vars == <<serverVars, call>>

\* What lwIP's IAP_data_recv is copying and has not counted yet.
Uncounted == IF pc \in {"recv_copy", "recv_store"} THEN call.n ELSE 0

BlockFits(n) ==
  current_status = "FLASH_RECEIVE" => len_in_RX_buffer + Uncounted + n <= IAP_RX_BUFFER_SIZE

Commands == {Plain(k) : k \in CommandKinds} \union {FlashCmd(m) : m \in Images}

\* Up to MaxPacket consecutive cells of image m.
Pieces(m) ==
  UNION {{[i \in 0 .. n - 1 |-> Byte(m, o + i)] : o \in 0 .. Size[m] - n} :
           n \in 1 .. Min2(MaxPacket, Size[m])}

Packets == {[i \in {0} |-> c] : c \in Commands} \union UNION {Pieces(m) : m \in Images}

Width(Buf) == CHOOSE n \in 1 .. MaxPacket : DOMAIN Buf = 0 .. n - 1

\* How far the interrupt has written over a copy under way, when it brings n cells: it
\* appends at a length that does not count the copy, or replaces a command.
Overwritten(n) ==
  IF current_status = "FLASH_RECEIVE" THEN call.over + n
  ELSE IF call.over > n THEN call.over ELSE n

\* The interrupt, wherever the main loop is.
UsbPacket ==
  \E Buf \in Packets :
    /\ BlockFits(Width(Buf))
    /\ CDC_Receive_FS(Buf, Width(Buf))
    /\ call' = IF pc = "recv_copy" THEN [call EXCEPT !.over = Overwritten(Width(Buf))] ELSE call
-----------------------------------------------------------------------------
(* _recv calls IAP_data_recv for each pbuf, in the main loop.  No variable  *)
(* is volatile: the build may go by a length it has read before.           *)

\* It sets the method and finds where to copy to.
TcpSegment ==
  /\ At("lwip")
  /\ \E Buf \in Packets :
       /\ BlockFits(Width(Buf))
       /\ call' = [Buf  |-> Buf,
                   n    |-> IF current_status = "IDLE" THEN Min2(Width(Buf), IAP_RX_BUFFER_SIZE)
                                                        ELSE Width(Buf),
                   len  |-> IF current_status = "IDLE" THEN 0 ELSE len_in_RX_buffer,
                   over |-> 0]
  /\ current_method' = "IAP_ETHERNET"
  /\ Goto("recv_copy")
  /\ UNCHANGED <<out, rxVars, recvVars, expVars, keptVars, linkVars>>

\* What memcpy may leave in cell j: where the interrupt has written meanwhile, either's
\* bytes or a mixture.
Copies(j) ==
  IF call.len <= j /\ j < call.len + call.n
    THEN {call.Buf[j - call.len]} \union
           {c \in {RXBuffer[j], Garbage} : j < call.len + call.over}
    ELSE {RXBuffer[j]}

\* The length that is added to may have been read before the copy or after it.
recv_copy ==
  /\ At("recv_copy")
  /\ RXBuffer' \in {X \in [RXIndex -> UNION {Copies(j) : j \in RXIndex}] :
                      \A j \in RXIndex : X[j] \in Copies(j)}
  /\ \E l \in {call.len, len_in_RX_buffer} :
       /\ current_status = "IDLE" => l = call.len
       /\ call' = [call EXCEPT !.len = l]
  /\ Goto("recv_store")
  /\ UNCHANGED <<out, data_is_ready, len_in_RX_buffer, recvVars, current_method, expVars,
                 keptVars, linkVars>>

\* An update of the interrupt's since then is lost.
recv_store ==
  /\ At("recv_store")
  /\ len_in_RX_buffer' = call.len + call.n
  /\ Goto(IF current_status = "IDLE" THEN "recv_flag" ELSE "recv_test")
  /\ UNCHANGED <<out, data_is_ready, RXBuffer, recvVars, current_method, expVars, keptVars,
                 linkVars, call>>

\* recv_test that assigns its outcome to data_is_ready.
recv_test_assign ==
  /\ At("recv_test")
  /\ data_is_ready' = (\/ call.len + call.n >= IAP_RX_BUFFER_SIZE
                       \/ received_bytes + call.len + call.n >= expected_size)
  /\ Goto("lwip")
  /\ UNCHANGED <<out, len_in_RX_buffer, RXBuffer, recvVars, current_method, expVars, keptVars,
                 linkVars, call>>

\* Is the buffer full or the image complete, by the stored length or by a newer one?
recv_test ==
  /\ At("recv_test")
  /\ \E l \in {call.len + call.n, len_in_RX_buffer} :
       Goto(IF l >= IAP_RX_BUFFER_SIZE \/ received_bytes + l >= expected_size
              THEN "recv_flag" ELSE "lwip")
  /\ UNCHANGED <<out, rxVars, recvVars, current_method, expVars, keptVars, linkVars, call>>

recv_flag ==
  /\ At("recv_flag")
  /\ data_is_ready' = TRUE
  /\ Goto("lwip")
  /\ UNCHANGED <<out, len_in_RX_buffer, RXBuffer, recvVars, current_method, expVars, keptVars,
                 linkVars, call>>
-----------------------------------------------------------------------------
ReplyRead ==
  /\ cdcTx # "none" \/ tcpTx # <<>>
  /\ \E r \in Replies : CdcTaken(r) \/ TcpTaken(r)
FromApp == \E f \in Flags : AppTrigger(f)
PowerFails == PowerCycle

\* The steps of IAPServer other than the two transports' data.
Server ==
  \/ server_init \/ task_test \/ task_clear
  \/ dispatch \/ erase \/ reply_idle \/ idle_done
  \/ write \/ reply_fail \/ count \/ consume \/ reply_block \/ verify \/ reply_bad
  \/ reset_buf \/ lwip_done \/ SystemReset
  \/ TCP_accept \/ TCP_closed \/ ReplyRead
  \/ FromApp \/ PowerFails

\* lwIP's IAP_data_recv.
Receiving == TcpSegment \/ recv_copy \/ recv_store \/ recv_test \/ recv_flag

Next ==
  \/ Server /\ UNCHANGED call
  \/ UsbPacket
  \/ Receiving

Init == ServerInit /\ call = [Buf |-> <<>>, n |-> 0, len |-> 0, over |-> 0]

Spec == Init /\ [][Next]_vars
-----------------------------------------------------------------------------
(* Properties.                                                             *)

\* A block is written behind what is stored, onto erased flash: whatever the hosts mix
\* into the stream, however uploads before it were broken off and whatever failed, an
\* upload that is still open is not complete (or it is empty and nothing has come).
WritesAppend ==
  pc = "write" =>
    /\ received_bytes < expected_size \/ received_bytes = 0
    /\ flash[received_bytes] = Erased

\* An installed image stays, through resets, power failures and aborted uploads,
\* until an announcement erases it.
OnlyEraseDestroys ==
  [][\A m \in Images : Holds(m) /\ ~ Holds(m)' => pc = "erase"]_vars

\* An upload begins at the start of the application area, however the last one was
\* broken off.
UploadStartsAtBase ==
  [][current_status = "IDLE" /\ current_status' = "FLASH_RECEIVE" => received_bytes = 0]_vars

\* Once the length says that the buffer is full or the image complete, the main loop
\* is told or is already at it: the flag is not lost, also where the interrupt falls
\* into lwIP's IAP_data_recv.  The length itself may be short then (recv_store).
NoLostWakeup ==
  /\ current_status = "FLASH_RECEIVE" /\ rb = 0
  /\ \/ len_in_RX_buffer >= IAP_RX_BUFFER_SIZE
     \/ len_in_RX_buffer > 0 /\ received_bytes + len_in_RX_buffer >= expected_size
  => \/ data_is_ready
     \/ pc \in {"reply_idle", "idle_done", "clear", "write", "count", "consume",
                "recv_test", "recv_flag"}
=============================================================================
