----------------------------- MODULE MCRecvAll -----------------------------
(* Small instances of RecvAll for TLC. *)
EXTENDS RecvAll, TLC

\* No action tells sockets apart.
SocketSymmetry == Permutations(Sockets)
=============================================================================
