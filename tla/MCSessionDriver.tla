--------------------------- MODULE MCSessionDriver ---------------------------
(***************************************************************************)
(* Instances of SessionDriver for TLC: queues of one to three slots stand  *)
(* for the 64 and 256 of the code, so that full queues are common.         *)
(***************************************************************************)
EXTENDS SessionDriverInv

CONSTANTS wide, narrow

MCSizes == {wide, narrow}
=============================================================================
