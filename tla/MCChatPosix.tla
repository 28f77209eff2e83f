----------------------------- MODULE MCChatPosix -----------------------------
(* ChatPosix with the symmetry of its clients. *)
EXTENDS ChatPosix

Symmetry == Permutations(Clients)
=============================================================================
