------------------------------- MODULE MCSt7565 -------------------------------
(* Two pages of three columns behind a margin of one. *)
EXTENDS St7565

TwoFrames == {<<<<0, 1, 1>>, <<1, 0, 1>>>>, <<<<1, 1, 0>>, <<0, 0, 0>>>>}
=============================================================================
