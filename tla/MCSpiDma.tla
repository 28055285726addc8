------------------------------- MODULE MCSpiDma -------------------------------
(* A sector of two pages of two one-bit bytes.                                *)
EXTENDS SpiDma
=============================================================================
