-------------------------- MODULE MCWebSocketClient --------------------------
(* A small instance of WebSocketClient for TLC. *)
EXTENDS WebSocketClient
=============================================================================
