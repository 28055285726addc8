---------------------------- MODULE MCFlashLayout ----------------------------
(* A calibration cell, two slots of a header and two cells, two state cells, *)
(* two apps of a header and one cell.                                        *)
EXTENDS FlashLayout, TLC

Symmetry == Permutations(Requests)
SomeImages == {<<1>>, <<2, 2>>, <<1, 1, 1>>}
SomeBlobs == {[code |-> <<1>>, ok |-> TRUE], [code |-> <<1>>, ok |-> FALSE],
              [code |-> <<2, 2>>, ok |-> TRUE]}
=============================================================================
