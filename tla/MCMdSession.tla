---------------------------- MODULE MCMdSession ----------------------------
(* One controlling thread, as in ctptest/datareceiver.cpp, against CTP's.  *)
EXTENDS MdSession
=============================================================================
