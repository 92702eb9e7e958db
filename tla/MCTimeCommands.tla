--------------------------- MODULE MCTimeCommands ---------------------------
(* Three commands on one day and one week of two cells.                    *)
EXTENDS TimeCommands, TLC

\* The transactions differ in nothing but their name.
Symmetry == Permutations(Txs) \union Permutations(Cells)
=============================================================================
