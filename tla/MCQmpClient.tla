----------------------------- MODULE MCQmpClient -----------------------------
(* Three threads, as the pump and two requests, calling twice each.          *)
EXTENDS QmpClient
=============================================================================
