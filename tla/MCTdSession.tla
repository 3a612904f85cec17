---------------------------- MODULE MCTdSession ----------------------------
(* One application thread, as in ctptest/main.cpp, against CTP's thread.   *)
EXTENDS TdSession
=============================================================================
