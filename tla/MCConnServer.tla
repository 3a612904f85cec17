---------------------------- MODULE MCConnServer ----------------------------
(* Two ids for three connections; headers that announce less than a header,*)
(* an empty body, a body, and one that does not fit.                       *)
EXTENDS ConnServer
=============================================================================
