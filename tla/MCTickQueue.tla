---------------------------- MODULE MCTickQueue ----------------------------
(* Two consumers and a session that is stopped and started again.          *)
EXTENDS TickQueue
=============================================================================
