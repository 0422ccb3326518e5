--------------------------- MODULE MCWebSocketHub ---------------------------
(* The WebSocket gateway for TLC. *)
EXTENDS WebSocketHub

CONSTANTS a, b, e1
=============================================================================
