---------------------------- MODULE MCThreadPool ----------------------------
(* Two workers and four producers of one task each over a queue of two     *)
(* places: two producers can be asleep when a worker takes both tasks, and *)
(* only one of them is notified.                                           *)
EXTENDS ThreadPool
=============================================================================
