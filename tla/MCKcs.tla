-------------------------------- MODULE MCKcs -------------------------------
(* A BMC that answers one byte or three, to requests of two bytes.          *)
EXTENDS Kcs

ShortAndLong == {1, 3}
=============================================================================
