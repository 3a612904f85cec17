------------------------------ MODULE TickFifo ------------------------------
(***************************************************************************)
(* What easyctp promises the threads that call md_queryRtnData             *)
(* (easyctp/easyctp.h): within a session, the ticks in the order in which  *)
(* the exchange sent them, each to one caller; what nobody took when the   *)
(* session ends is never handed out.                                       *)
(***************************************************************************)
EXTENDS Naturals, Sequences

VARIABLES session, open,  \* sessions so far; the exchange may send ticks
          arrived,        \* ticks so far
          waiting,        \* ticks nobody has taken, in order
          handed          \* ticks handed over, in order

vars == <<session, open, arrived, waiting, handed>>

Init == session = 0 /\ open = FALSE /\ arrived = 0 /\ waiting = <<>> /\ handed = <<>>

Open == /\ ~open /\ waiting = <<>>
        /\ open' = TRUE /\ session' = session + 1
        /\ UNCHANGED <<arrived, waiting, handed>>

Arrive == /\ open
          /\ arrived' = arrived + 1
          /\ waiting' = Append(waiting, [n |-> arrived + 1, s |-> session])
          /\ UNCHANGED <<session, open, handed>>

Take == /\ waiting # <<>>
        /\ handed' = Append(handed, Head(waiting)) /\ waiting' = Tail(waiting)
        /\ UNCHANGED <<session, open, arrived>>

Close == open /\ open' = FALSE /\ UNCHANGED <<session, arrived, waiting, handed>>

Discard == ~open /\ waiting' = <<>> /\ UNCHANGED <<session, open, arrived, handed>>

Next == Open \/ Arrive \/ Take \/ Close \/ Discard

Spec == Init /\ [][Next]_vars
=============================================================================
