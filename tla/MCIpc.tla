------------------------------- MODULE MCIpc -------------------------------
(* Instances of Ipc for TLC. *)
EXTENDS Ipc, TLC

Symmetry == Permutations(Clients) \cup Permutations(Sockets) \cup Permutations(Fds)
=============================================================================
