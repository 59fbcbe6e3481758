--------------------------- MODULE MCFifoTransport ---------------------------
(* FifoTransport for TLC: every constant is a number.                       *)
EXTENDS FifoTransport, TLC
=============================================================================
