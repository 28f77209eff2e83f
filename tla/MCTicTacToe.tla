---------------------------- MODULE MCTicTacToe ----------------------------
(* TicTacToe with the symmetry of clients and of names. *)
EXTENDS TicTacToe

CONSTANTS a, b, c, n1, n2, n3

Symmetry == Permutations({a, b, c}) \union Permutations({n1, n2, n3})
MCLines == {{1, 2}}
=============================================================================
