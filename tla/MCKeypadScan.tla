----------------------------- MODULE MCKeypadScan -----------------------------
(* The matrix of the radio: four columns of four keys and two side keys.      *)
EXTENDS KeypadScan

KeypadKeys == ((1..4) \X (0..3)) \cup {<<0, 0>>, <<0, 1>>}
=============================================================================
