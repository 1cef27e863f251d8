---------------------------- MODULE MCFlashDriver ----------------------------
(* FlashDriver on two banks of three sectors of one word of two cells.     *)
EXTENDS FlashDriver, TLC

\* The buffer holds its own positions, so that misplaced cells are seen.
MCSource == [j \in 0 .. 5 |-> j]

\* An image that ends inside the last sector of bank 1, and one each that reaches
\* into the first, second and last sector of bank 2 and beyond the flash.
MCLens == {1, 3, 5, 7, 10}

\* At the start, with a partial last word; across the end of bank 1; at the end of
\* the flash and out of it.
MCWrites == {[at |-> 0, len |-> 3], [at |-> 6, len |-> 4]}
=============================================================================
