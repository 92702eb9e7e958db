---------------------------- MODULE MCFileLinks ----------------------------
(* Three transactions, a card and a comment.                               *)
EXTENDS FileLinks, TLC

\* Transactions and files differ in nothing but their name.
Symmetry == Permutations(Txs) \union Permutations(Files)
=============================================================================
