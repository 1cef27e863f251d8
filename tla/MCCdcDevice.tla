----------------------------- MODULE MCCdcDevice -----------------------------
(* A small instance of CdcDevice. *)
EXTENDS CdcDevice

\* One reply that needs an empty packet after it, one that does not.
MCLens == {1, 2}
=============================================================================
