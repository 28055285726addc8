----------------------------- MODULE MCSerialLink -----------------------------
(* A frame that does not fit the queue and fills the buffer but for one      *)
(* cell, and enough bytes for both to wrap.  Three chunks with a handshake   *)
(* before the second and the third, so that a late one can let the answer to *)
(* a repeated chunk stand for the next, and a page more than the last.       *)
EXTENDS SerialLink
=============================================================================
