------------------------------- MODULE MCValve -------------------------------
(* The valve on a small instance: the WebSocket task and the two tasks that  *)
(* close the valve behind its back.                                          *)
EXTENDS Valve

AllTasks == {"ws", "status", "safety"}
=============================================================================
