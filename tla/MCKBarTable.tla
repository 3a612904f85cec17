---------------------------- MODULE MCKBarTable ----------------------------
(* Two sub-bars to the bar, a table of two rows, and three steps of time:  *)
(* one second, one day and two.  The first day is Saturday 2016-02-27, so  *)
(* that Monday is February 29 and Tuesday March 1.                         *)
EXTENDS KBarTable

MCTicks == {[price |-> 1, vol |-> 2, sane |-> TRUE],
            [price |-> 2, vol |-> -1, sane |-> TRUE],
            [price |-> NaN, vol |-> 1, sane |-> TRUE],
            [price |-> 0, vol |-> 1, sane |-> TRUE],
            [price |-> -1, vol |-> 1, sane |-> TRUE]}
MCSubBars == {[open |-> 2, high |-> 3, low |-> 1, close |-> 1, vol |-> 2, sane |-> TRUE],
              [open |-> 1, high |-> 1, low |-> 1, close |-> 1, vol |-> 1, sane |-> FALSE]}
MCSteps == {1, DayLength, 2 * DayLength}
MCStart == 16858 * DayLength - Shift
=============================================================================
