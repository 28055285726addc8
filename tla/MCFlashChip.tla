----------------------------- MODULE MCFlashChip -----------------------------
(* Two sectors of one two-byte page each, one-bit bytes, addresses of three *)
(* binary digits: eight addresses onto four cells.                          *)
EXTENDS FlashChip
=============================================================================
