----------------------------- MODULE MCI2CMaster -----------------------------
(***************************************************************************)
(* I2CMaster for TLC: the lengths its callers ask for.                     *)
(***************************************************************************)
EXTENDS I2CMaster

\* No byte, one byte, a FIFO and more, and one byte more than a read may ask for.
AllLengths == {0, 1, 5, 6}
FewLengths == {0, 2, 6}
==============================================================================
