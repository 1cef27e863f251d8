------------------------------- MODULE MCEthRx -------------------------------
(* Small instances of EthRx. *)
EXTENDS EthRx

\* Frames of up to two descriptors, lwIP may keep every buffer; a link that goes down
\* twice, with a buffer for every descriptor whatever lwIP keeps; and a link that goes
\* down while lwIP may keep every buffer, where the driver does come to fault.
Exhaustion == [maxParts |-> 2, maxStops |-> 0, maxHeld |-> 4]
Restarts == [maxParts |-> 1, maxStops |-> 2, maxHeld |-> 2]
ShortRestarts == [maxParts |-> 1, maxStops |-> 1, maxHeld |-> 4]
MCScenarios == {Exhaustion, Restarts, ShortRestarts}
MCRestart == {[maxParts |-> 1, maxStops |-> 1, maxHeld |-> 0]}
=============================================================================
