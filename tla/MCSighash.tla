----------------------------- MODULE MCSighash -----------------------------
(***************************************************************************)
(* Every value of the low byte, and values with bits 8 and 12 set over a  *)
(* standard (0x01, 0x83) and a non-standard (0x82 | 0x100) low byte.      *)
(***************************************************************************)
EXTENDS Sighash

MCValues == 0..255 \cup {257, 386, 4227}
=============================================================================
