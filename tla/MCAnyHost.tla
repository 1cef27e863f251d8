------------------------------ MODULE MCAnyHost ------------------------------
(* AnyHost on a small flash; one image needs two blocks, one is empty.      *)
EXTENDS AnyHost, TLC

CONSTANTS app, empty

MCSize == [m \in {app, empty} |-> IF m = app THEN 3 ELSE 0]

\* The replies under way and the client they are for influence nothing but further
\* replies, which no property of this module mentions.  Of current_method and flag only
\* what server_init asks of them matters, of the announcement nothing once its upload is
\* over, of RXBuffer only what is in use and a command that waits, of call nothing once
\* it has returned.  States that differ in nothing else are explored once.
Extent ==
  IF pc = "recv_store" /\ call.len + call.n > len_in_RX_buffer
    THEN call.len + call.n ELSE len_in_RX_buffer
CommandWaits == data_is_ready \/ pc \in {"clear", "dispatch"}
Announced == current_status # "IDLE" \/ pc \in {"erase", "reply_fail", "verify"}

WithoutReplies ==
  <<pc, rb, data_is_ready, len_in_RX_buffer,
    [i \in RXIndex |-> IF i < Extent \/ (i = 0 /\ CommandWaits) THEN RXBuffer[i] ELSE Zero],
    IF pc \in {"recv_copy", "recv_store", "recv_test"} THEN call ELSE <<>>,
    recvVars, IF Announced THEN expVars ELSE <<>>, flash,
    flag = "MAGIC_APP_FLAG", pc = "startup" /\ current_method # "IAP_NONE">>
=============================================================================
