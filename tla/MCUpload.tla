------------------------------ MODULE MCUpload ------------------------------
(* UploadSession on a small flash: two banks of four sectors of two cells. *)
EXTENDS UploadInvariant, TLC

CONSTANTS small, large

\* One image whose last block is partial, one of full blocks that fills bank 1.
MCSize == [m \in {small, large} |-> IF m = small THEN 3 ELSE 4]
=============================================================================
