--------------------------- MODULE MCDataReceiver ---------------------------
(* Two contracts, and totals that can grow, stay and go back.              *)
EXTENDS DataReceiver

(* A record that is no valid tick, and one that shows a total.             *)
SomeImages == {-1, 2}
=============================================================================
