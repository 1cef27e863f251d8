------------------------------ MODULE ReplySlot ------------------------------
(***************************************************************************)
(* What CDC_Transmit_FS promises the server: one reply at a time is kept   *)
(* until the host has read it or the class is closed, replies are read at  *)
(* most once, and while one is kept no other is taken.  Nothing is         *)
(* promised of a call the host cuts by resetting or configuring the        *)
(* device, until the class is next closed between two calls.               *)
(***************************************************************************)
EXTENDS Naturals, Sequences

VARIABLES
  open, \* the host has configured the device
  slot, \* the reply that is kept, 0 when there is none
  read, \* what the host has read
  torn  \* a call has been cut

Was(r) == \E k \in DOMAIN read : read[k] = r

Init == open = FALSE /\ slot = 0 /\ read = <<>> /\ torn = FALSE

Put == open /\ slot = 0 /\ slot' > 0 /\ ~Was(slot') /\ UNCHANGED <<open, read>>

\* The host reads the reply; the slot may be free only later.
Take ==
  /\ slot # 0 /\ ~Was(slot) /\ read' = Append(read, slot)
  /\ slot' \in {0, slot} /\ UNCHANGED open

Free == slot # 0 /\ Was(slot) /\ slot' = 0 /\ UNCHANGED <<open, read>>

Close == open' = FALSE /\ slot' = 0 /\ UNCHANGED read
Open == ~open /\ open' = TRUE /\ slot = 0 /\ UNCHANGED <<slot, read>>

Next ==
  \/ torn \/ torn'
  \/ UNCHANGED torn /\ (Put \/ Take \/ Free \/ Close \/ Open)

Spec == Init /\ [][Next]_<<open, slot, read, torn>>
=============================================================================
