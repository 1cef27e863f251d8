--------------------------- MODULE FirmwareUpdate ---------------------------
(***************************************************************************)
(* What the bootloader promises to an upload tool, without buffers,        *)
(* interrupts or packets: an announced image is stored block by block, in  *)
(* order, in an application area that was erased for it; a block is        *)
(* acknowledged only when it is stored; the device restarts of its own     *)
(* accord only when the whole image is stored; and an upload that ends     *)
(* early leaves a prefix of the image behind, never something else.        *)
(***************************************************************************)
EXTENDS Integers

CONSTANTS
  Images,  \* application images
  NoImage, \* no image
  Size,    \* Size[m]: cells in image m
  Block    \* cells in a block

VARIABLES
  phase,  \* "closed", "open" while an upload is accepted, "committed" before the restart
  target, \* image announced by the open upload
  slot,   \* the application area: the first slot.n cells of slot.img
  acked   \* cells acknowledged to the host

vars == <<phase, target, slot, acked>>

Empty == [img |-> NoImage, n |-> 0]
Least(a, b) == IF a <= b THEN a ELSE b

\* How many cells of the target are stored.
Stored == IF slot.img = target THEN slot.n ELSE 0
-----------------------------------------------------------------------------
Init == phase = "closed" /\ target = NoImage /\ slot = Empty /\ acked = 0

\* An accepted announcement: the area is erased.
Announce(m) ==
  /\ phase = "closed"
  /\ phase' = "open" /\ target' = m /\ slot' = Empty
  /\ UNCHANGED acked

\* Erasing failed after it had begun.
Scratch ==
  /\ phase = "closed"
  /\ slot' = Empty
  /\ UNCHANGED <<phase, target, acked>>

Extended(n) == slot' = [img |-> target, n |-> n]

\* The next block is stored, the last one as long as it is.
Store ==
  /\ phase = "open" /\ Stored < Size[target]
  /\ Extended(Least(Stored + Block, Size[target]))
  /\ UNCHANGED <<phase, target, acked>>

\* Storing a block fails part way: the upload is over.
Tear ==
  /\ phase = "open"
  /\ \/ UNCHANGED slot
     \/ \E n \in Stored + 1 .. Least(Stored + Block, Size[target]) : Extended(n)
  /\ phase' = "closed" /\ target' = NoImage
  /\ UNCHANGED acked

\* The host learns how much is stored.
Acknowledge ==
  /\ phase # "closed"
  /\ acked' = Stored
  /\ UNCHANGED <<phase, target, slot>>

Commit ==
  /\ phase = "open" /\ slot = [img |-> target, n |-> Size[target]]
  /\ phase' = "committed"
  /\ UNCHANGED <<target, slot, acked>>

\* The connection is lost or the device restarts.
Close ==
  /\ phase # "closed"
  /\ phase' = "closed" /\ target' = NoImage
  /\ UNCHANGED <<slot, acked>>

\* The host begins another session.
Forget == acked' = 0 /\ UNCHANGED <<phase, target, slot>>

Next ==
  \/ \E m \in Images : Announce(m)
  \/ Scratch \/ Store \/ Tear \/ Acknowledge \/ Commit \/ Close \/ Forget

Spec == Init /\ [][Next]_vars
=============================================================================
