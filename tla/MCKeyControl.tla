----------------------------- MODULE MCKeyControl -----------------------------
(* Two keys; three requests in flight, so that a blur meets another request, *)
(* or one, for an operator who waits for each answer.                        *)
EXTENDS KeyControl
=============================================================================
