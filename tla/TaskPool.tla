------------------------------ MODULE TaskPool ------------------------------
(***************************************************************************)
(* What a pool of threads promises (InDepthCpp11/ch9.cpp): a task that was *)
(* accepted is started at most once, and tasks are accepted until the pool *)
(* is closed.  Once it is halted a thread starts the task it had picked    *)
(* before, and no other; once it is over nothing starts.                   *)
(***************************************************************************)
EXTENDS Sequences

CONSTANTS Tasks, Threads

VARIABLES submitted,  \* tasks handed to AddTask
          waiting,    \* tasks accepted and not picked
          hands,      \* what each thread has picked and not started
          runs,       \* tasks started, in order
          phase

vars == <<submitted, waiting, hands, runs, phase>>

Init == /\ submitted = {} /\ waiting = {} /\ hands = [h \in Threads |-> {}]
        /\ runs = <<>> /\ phase = "open"

Accept(t) == /\ phase = "open" /\ t \notin submitted
             /\ submitted' = submitted \cup {t} /\ waiting' = waiting \cup {t}
             /\ UNCHANGED <<hands, runs, phase>>

Refuse(t) == /\ phase # "open" /\ t \notin submitted
             /\ submitted' = submitted \cup {t}
             /\ UNCHANGED <<waiting, hands, runs, phase>>

Pick(h, t) == /\ phase \in {"open", "closed"} /\ hands[h] = {} /\ t \in waiting
              /\ waiting' = waiting \ {t} /\ hands' = [hands EXCEPT ![h] = {t}]
              /\ UNCHANGED <<submitted, runs, phase>>

Begin(h, t) == /\ t \in hands[h]
               /\ hands' = [hands EXCEPT ![h] = {}] /\ runs' = Append(runs, t)
               /\ UNCHANGED <<submitted, waiting, phase>>

Abandon == /\ phase \in {"halted", "over"}
           /\ \E lost \in SUBSET waiting : waiting' = waiting \ lost
           /\ UNCHANGED <<submitted, hands, runs, phase>>

Close == /\ phase = "open" /\ phase' = "closed"
         /\ UNCHANGED <<submitted, waiting, hands, runs>>

Halt == /\ phase = "closed" /\ phase' = "halted"
        /\ UNCHANGED <<submitted, waiting, hands, runs>>

Finish == /\ phase = "halted" /\ \A h \in Threads : hands[h] = {}
          /\ phase' = "over"
          /\ UNCHANGED <<submitted, waiting, hands, runs>>

Next == \/ \E t \in Tasks : \/ Accept(t) \/ Refuse(t)
                            \/ \E h \in Threads : Pick(h, t) \/ Begin(h, t)
        \/ Abandon \/ Close \/ Halt \/ Finish

Spec == Init /\ [][Next]_vars
=============================================================================
