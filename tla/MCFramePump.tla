----------------------------- MODULE MCFramePump -----------------------------
(* Two panel contents and one emulator, which the pump may be bound to again *)
(* and again.                                                                *)
EXTENDS FramePump
=============================================================================
