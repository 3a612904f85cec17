----------------------------- MODULE ThreadPool -----------------------------
(***************************************************************************)
(* ThreadPool (InDepthCpp11/ch9.cpp) over its bounded SyncQueue            *)
(* (syncqueue.h): producers put tasks and wait while the queue is full,    *)
(* workers take all of them at once and wait while it is empty, and Stop   *)
(* wakes everybody and joins the workers.                                  *)
(*                                                                         *)
(* What a thread does between locking m_mutex and unlocking it, or waiting *)
(* on a condition variable, is one step.  A wait may end for no reason.    *)
(* A task is a model value that ends; it calls nothing of the pool.        *)
(***************************************************************************)
EXTENDS Naturals, Sequences, SequencesExt

CONSTANTS Workers, Producers,
          MaxSize,      \* SyncQueue::m_maxSize
          MaxTasks      \* bound: tasks a producer adds

(* The thread count defaults to hardware_concurrency(), taken not to be 0. *)
ASSUME PoolAssumption == MaxSize \in Nat \ {0} /\ MaxTasks \in Nat /\ Workers # {}

Tasks == Producers \X (1..MaxTasks)
WorkerSteps == {"loop", "take", "wait", "run", "start", "done"}
ProducerSteps == {"idle", "put", "wait"}

VARIABLES
  queue, needStop,  \* SyncQueue::m_queue and m_needStop
  running,          \* ThreadPool::m_running
  wpc, list,        \* per worker: step, and the tasks it took
  ppc, added,       \* per producer: step, and how many tasks it has added
  stop,             \* step of StopThreadGroup
  ran               \* history: the tasks started

vars == <<queue, needStop, running, wpc, list, ppc, added, stop, ran>>

Init ==
  /\ queue = <<>> /\ needStop = FALSE /\ running = TRUE
  /\ wpc = [w \in Workers |-> "loop"] /\ list = [w \in Workers |-> <<>>]
  /\ ppc = [p \in Producers |-> "idle"] /\ added = [p \in Producers |-> 0]
  /\ stop = "no" /\ ran = <<>>

(* notify_one: one of the sleepers among the threads of pc, if any, goes   *)
(* back to step.                                                           *)
NotifyOne(pc, pcNext, step) ==
  \/ \E x \in DOMAIN pc : pc[x] = "wait" /\ pcNext = [pc EXCEPT ![x] = step]
  \/ (\A x \in DOMAIN pc : pc[x] # "wait") /\ pcNext = pc

NotifyAll(pc, step) == [x \in DOMAIN pc |-> IF pc[x] = "wait" THEN step ELSE pc[x]]

-----------------------------------------------------------------------------
(* Producers.                                                              *)

AddTask(p) ==
  /\ ppc[p] = "idle" /\ added[p] < MaxTasks
  /\ ppc' = [ppc EXCEPT ![p] = "put"]
  /\ added' = [added EXCEPT ![p] = @ + 1]
  /\ UNCHANGED <<queue, needStop, running, wpc, list, stop, ran>>

(* mutants: nobody is notified; a producer that was woken does not look    *)
(* again whether the queue is full.                                        *)
BugPutSilent(p) ==
  /\ ppc[p] = "put"
  /\ \/ /\ needStop
        /\ ppc' = [ppc EXCEPT ![p] = "idle"] /\ UNCHANGED <<queue, wpc>>
     \/ /\ ~needStop /\ Len(queue) < MaxSize
        /\ queue' = Append(queue, <<p, added[p]>>)
        /\ ppc' = [ppc EXCEPT ![p] = "idle"] /\ UNCHANGED wpc
     \/ /\ ~needStop /\ Len(queue) >= MaxSize
        /\ ppc' = [ppc EXCEPT ![p] = "wait"] /\ UNCHANGED <<queue, wpc>>
  /\ UNCHANGED <<needStop, running, list, added, stop, ran>>

BugPutAnyway(p) ==
  /\ ppc[p] = "put"
  /\ queue' = Append(queue, <<p, added[p]>>)
  /\ NotifyOne(wpc, wpc', "take")
  /\ ppc' = [ppc EXCEPT ![p] = "idle"]
  /\ UNCHANGED <<needStop, running, list, added, stop, ran>>

(* SyncQueue::Add: the task is dropped after Stop, else queued, or the     *)
(* producer waits on m_notFull.                                            *)
Put(p) ==
  /\ ppc[p] = "put"
  /\ \/ /\ needStop
        /\ ppc' = [ppc EXCEPT ![p] = "idle"]
        /\ UNCHANGED <<queue, wpc>>
     \/ /\ ~needStop /\ Len(queue) < MaxSize
        /\ queue' = Append(queue, <<p, added[p]>>)
        /\ NotifyOne(wpc, wpc', "take")
        /\ ppc' = [ppc EXCEPT ![p] = "idle"]
     \/ /\ ~needStop /\ Len(queue) >= MaxSize
        /\ ppc' = [ppc EXCEPT ![p] = "wait"]
        /\ UNCHANGED <<queue, wpc>>
  /\ UNCHANGED <<needStop, running, list, added, stop, ran>>

-----------------------------------------------------------------------------
(* Workers: RunInThread.                                                   *)

Loop(w) ==
  /\ wpc[w] = "loop"
  /\ wpc' = [wpc EXCEPT ![w] = IF running THEN "take" ELSE "done"]
  /\ UNCHANGED <<queue, needStop, running, list, ppc, added, stop, ran>>

(* mutant: nobody is notified.                                             *)
BugTakeSilent(w) ==
  /\ wpc[w] = "take"
  /\ \/ /\ ~needStop /\ queue # <<>>
        /\ list' = [list EXCEPT ![w] = queue] /\ queue' = <<>>
        /\ wpc' = [wpc EXCEPT ![w] = "run"]
     \/ /\ needStop \/ queue = <<>>
        /\ wpc' = [wpc EXCEPT ![w] = IF needStop THEN "loop" ELSE "wait"]
        /\ UNCHANGED <<queue, list>>
  /\ UNCHANGED <<needStop, running, ppc, added, stop, ran>>

(* SyncQueue::Take: nothing after Stop, else all that is queued, or the    *)
(* worker waits on m_notEmpty.  However much room it makes, it notifies    *)
(* one producer.                                                           *)
Take(w) ==
  /\ wpc[w] = "take"
  /\ \/ /\ needStop
        /\ wpc' = [wpc EXCEPT ![w] = "loop"]
        /\ UNCHANGED <<queue, list, ppc>>
     \/ /\ ~needStop /\ queue # <<>>
        /\ list' = [list EXCEPT ![w] = queue] /\ queue' = <<>>
        /\ NotifyOne(ppc, ppc', "put")
        /\ wpc' = [wpc EXCEPT ![w] = "run"]
     \/ /\ ~needStop /\ queue = <<>>
        /\ wpc' = [wpc EXCEPT ![w] = "wait"]
        /\ UNCHANGED <<queue, list, ppc>>
  /\ UNCHANGED <<needStop, running, added, stop, ran>>

(* mutant: m_running is looked at when a list is done, not for every task. *)
BugCheck(w) ==
  /\ wpc[w] = "run"
  /\ wpc' = [wpc EXCEPT ![w] = IF list[w] = <<>> THEN "loop" ELSE "start"]
  /\ UNCHANGED <<queue, needStop, running, list, ppc, added, stop, ran>>

(* The tasks of the list one by one: a look at m_running for each, on      *)
(* which the thread ends with what it has left of the list ...             *)
Check(w) ==
  /\ wpc[w] = "run"
  /\ \/ /\ list[w] # <<>> /\ running
        /\ wpc' = [wpc EXCEPT ![w] = "start"] /\ UNCHANGED list
     \/ /\ list[w] # <<>> /\ ~running
        /\ wpc' = [wpc EXCEPT ![w] = "done"] /\ list' = [list EXCEPT ![w] = <<>>]
     \/ /\ list[w] = <<>>
        /\ wpc' = [wpc EXCEPT ![w] = "loop"] /\ UNCHANGED list
  /\ UNCHANGED <<queue, needStop, running, ppc, added, stop, ran>>

(* ... and then the task, whatever m_running has become.                   *)
Start(w) ==
  /\ wpc[w] = "start" /\ wpc' = [wpc EXCEPT ![w] = "run"]
  /\ ran' = Append(ran, Head(list[w]))
  /\ list' = [list EXCEPT ![w] = Tail(@)]
  /\ UNCHANGED <<queue, needStop, running, ppc, added, stop>>

Spurious ==
  /\ \/ \E w \in Workers : /\ wpc[w] = "wait" /\ wpc' = [wpc EXCEPT ![w] = "take"]
                           /\ UNCHANGED ppc
     \/ \E p \in Producers : /\ ppc[p] = "wait" /\ ppc' = [ppc EXCEPT ![p] = "put"]
                             /\ UNCHANGED wpc
  /\ UNCHANGED <<queue, needStop, running, list, added, stop, ran>>

-----------------------------------------------------------------------------
(* StopThreadGroup, once: the queue's flag under its mutex; then, without  *)
(* it, notify_all for the producers and for the workers; then m_running;   *)
(* then the workers are joined.                                            *)

SetNeedStop ==
  /\ stop = "no" /\ stop' = "full" /\ needStop' = TRUE
  /\ UNCHANGED <<queue, running, wpc, list, ppc, added, ran>>

WakeProducers ==
  /\ stop = "full" /\ stop' = "empty" /\ ppc' = NotifyAll(ppc, "put")
  /\ UNCHANGED <<queue, needStop, running, wpc, list, added, ran>>

(* mutant: one worker is notified.                                         *)
BugWakeWorkers ==
  /\ stop = "empty" /\ stop' = "halt" /\ NotifyOne(wpc, wpc', "take")
  /\ UNCHANGED <<queue, needStop, running, list, ppc, added, ran>>

WakeWorkers ==
  /\ stop = "empty" /\ stop' = "halt" /\ wpc' = NotifyAll(wpc, "take")
  /\ UNCHANGED <<queue, needStop, running, list, ppc, added, ran>>

Halt ==
  /\ stop = "halt" /\ stop' = "join" /\ running' = FALSE
  /\ UNCHANGED <<queue, needStop, wpc, list, ppc, added, ran>>

Join ==
  /\ stop = "join" /\ (\A w \in Workers : wpc[w] = "done") /\ stop' = "joined"
  /\ UNCHANGED <<queue, needStop, running, wpc, list, ppc, added, ran>>

-----------------------------------------------------------------------------
Work(w) == Loop(w) \/ Take(w) \/ Check(w) \/ Start(w)
StopThreadGroup == SetNeedStop \/ WakeProducers \/ WakeWorkers \/ Halt \/ Join

Next == \/ \E p \in Producers : AddTask(p) \/ Put(p)
        \/ \E w \in Workers : Work(w)
        \/ StopThreadGroup \/ Spurious

(* Every thread gets to run; nobody has to add a task or to stop the pool, *)
(* and Stop, once begun, goes on.                                          *)
Fairness ==
  /\ \A p \in Producers : WF_vars(Put(p))
  /\ \A w \in Workers : WF_vars(Work(w))
  /\ WF_vars(WakeProducers \/ WakeWorkers \/ Halt \/ Join)

Spec == Init /\ [][Next]_vars /\ Fairness

-----------------------------------------------------------------------------
(* Properties.                                                             *)

TypeOK ==
  /\ queue \in Seq(Tasks) /\ Len(queue) <= MaxSize
  /\ needStop \in BOOLEAN /\ running \in BOOLEAN
  /\ wpc \in [Workers -> WorkerSteps]
  /\ list \in [Workers -> Seq(Tasks)]
  /\ ppc \in [Producers -> ProducerSteps]
  /\ added \in [Producers -> 0..MaxTasks]
  /\ stop \in {"no", "full", "empty", "halt", "join", "joined"}
  /\ ran \in Seq(Tasks)

(* A wake-up is never lost although every notification wakes one thread:   *)
(* while tasks are queued some worker is awake and will take them, and     *)
(* while a producer sleeps there is something to take or a producer about  *)
(* to put something, so that a later Take will wake it.                    *)
NoLostWakeup ==
  ~needStop =>
    /\ queue # <<>> => \E w \in Workers : wpc[w] \in {"loop", "take", "run", "start"}
    /\ (\E p \in Producers : ppc[p] = "wait") =>
          queue # <<>> \/ \E p \in Producers : ppc[p] = "put"

(* The tasks whose AddTask has returned; those a worker has checked        *)
(* m_running for and not started; those queued or further back in a list.  *)
Submitted == {t \in Tasks : t[2] < added[t[1]] \/ (t[2] = added[t[1]] /\ ppc[t[1]] = "idle")}
Hands == [w \in Workers |-> IF wpc[w] = "start" THEN {Head(list[w])} ELSE {}]
Rest(w) == IF wpc[w] = "start" THEN Tail(list[w]) ELSE list[w]
Waiting == ToSet(queue) \cup UNION {ToSet(Rest(w)) : w \in Workers}

Phase == IF stop = "joined" THEN "over"
         ELSE IF ~running THEN "halted" ELSE IF needStop THEN "closed" ELSE "open"

(* The pool implements its promise.                                        *)
Promise == INSTANCE TaskPool WITH
  Threads <- Workers, submitted <- Submitted, waiting <- Waiting, hands <- Hands,
  runs <- ran, phase <- Phase

(* Whichever threads race for it, a task is started once and only if it    *)
(* was accepted.  After Stop has set m_running to false a worker may still *)
(* start one task, the one it had looked at m_running for (ch9.cpp:60),    *)
(* and none starts once Stop has returned.                                 *)
KeepsPromise == Promise!Spec

(* A queued task is started, unless the pool is stopped meanwhile.         *)
QueuedTasksRun ==
  \A t \in Tasks : t \in ToSet(queue) ~> (t \in ToSet(ran) \/ needStop)

(* No producer waits for room for ever, stopped pool or not.               *)
PutsReturn == \A p \in Producers : ppc[p] # "idle" ~> ppc[p] = "idle"

(* Stop returns: every worker sees the flags and ends.                     *)
StopReturns == stop = "full" ~> stop = "joined"
=============================================================================
