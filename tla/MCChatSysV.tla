----------------------------- MODULE MCChatSysV -----------------------------
(* ChatSysV with the symmetry of its clients, for the runs without liveness. *)
EXTENDS ChatSysV

Symmetry == Permutations(Clients)
=============================================================================
