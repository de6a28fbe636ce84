----------------------------- MODULE MCEpollSet -----------------------------
(* A small instance of EpollSet for TLC. *)
EXTENDS EpollSet
=============================================================================
