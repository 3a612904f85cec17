----------------------------- MODULE TickQueue -----------------------------
(***************************************************************************)
(* The queue of ticks between CTP's thread and the threads that call       *)
(* md_queryRtnData: MdSm::ticks with ticks_mutex, ticks_cv, need_notify    *)
(* and quit_flag (mdapi.cpp, mdsm.cpp), and the part md_start and md_stop  *)
(* play in it.  md_stop raises quit_flag and wakes the waiters under the   *)
(* mutex, sleeps three seconds, and then resets and clears everything      *)
(* without the mutex; md_start stores the same flags without it, too.  One *)
(* thread calls md_start and md_stop.                                      *)
(*                                                                         *)
(* Time is abstract.  A wait of md_queryRtnData may expire at any moment,  *)
(* and the sleep of md_stop may end at any moment: it waits for nobody.    *)
(***************************************************************************)
EXTENDS Naturals, Sequences, SequencesExt

CONSTANTS Consumers,   \* threads that call md_queryRtnData
          Nobody,      \* the owner of a free mutex
          MaxTicks,    \* bound: ticks that arrive
          MaxSessions  \* bound: times md_start is called

ASSUME TickAssumption == /\ Nobody \notin Consumers
                         /\ MaxTicks \in Nat /\ MaxSessions \in Nat

(* idle; started was read (lock); inside the mutex (body); in wait_for;    *)
(* notified or expired, to take the mutex again; inside again (woken after *)
(* a notification, late after the time ran out).                           *)
Steps == {"idle", "lock", "body", "wait", "notified", "expired", "woken", "late"}
Inside == {"body", "woken", "late"}

VARIABLES
  started, quit_flag, need_notify,
  ticks,       \* MdSm::ticks; a tick is its number and the session it came in
  owner,       \* who holds ticks_mutex
  pc, ret,     \* per consumer: step, and what the last call returned
  live,        \* CTP's thread may call back
  control,     \* the thread of md_start and md_stop
  race,        \* the list was cleared under a consumer's hands
  session, arrived,    \* sessions opened so far, ticks so far
  popped, discarded,   \* history: ticks handed over, in order; ticks freed by md_stop
  early,       \* history: in wait_for when md_stop began, in that call while it sleeps
  overlapped,  \* history: in a call during which md_start or md_stop was at work
  outrun       \* history: asleep while another came out of wait_for, nobody lay down since

flags == <<started, quit_flag, need_notify>>
feed == <<session, arrived, popped, discarded>>
history == <<feed, early, overlapped, outrun>>
vars == <<flags, ticks, owner, pc, ret, live, control, race, history>>

(* Outside of both; md_start before :24 and before :25; md_stop asleep,    *)
(* before :47, :49 and :50, and in the loop that frees the ticks.          *)
Controls == {"idle", "lower", "open", "sleep", "down", "quit", "need", "free"}

Init ==
  /\ started = FALSE /\ quit_flag = FALSE /\ need_notify = FALSE
  /\ ticks = <<>> /\ owner = Nobody
  /\ pc = [c \in Consumers |-> "idle"] /\ ret = [c \in Consumers |-> "NONE"]
  /\ live = FALSE /\ control = "idle" /\ race = FALSE
  /\ session = 0 /\ arrived = 0 /\ popped = <<>> /\ discarded = {}
  /\ early = {} /\ overlapped = {} /\ outrun = {}

-----------------------------------------------------------------------------
(* md_queryRtnData.                                                        *)

Step(c, from, to) == ~race /\ pc[c] = from /\ pc' = [pc EXCEPT ![c] = to]

Query(c) ==
  /\ \/ /\ started /\ Step(c, "idle", "lock") /\ ret' = [ret EXCEPT ![c] = "NONE"]
        /\ overlapped' = IF control = "idle" THEN overlapped ELSE overlapped \cup {c}
     \/ /\ ~started /\ Step(c, "idle", "idle") /\ ret' = [ret EXCEPT ![c] = "STOPPED"]
        /\ UNCHANGED overlapped
  /\ UNCHANGED <<flags, ticks, owner, live, control, race, feed, early, outrun>>

Lock(c) ==
  /\ owner = Nobody /\ owner' = c
  /\ \/ Step(c, "lock", "body")
     \/ Step(c, "notified", "woken")
     \/ Step(c, "expired", "late")
  /\ UNCHANGED <<flags, ticks, ret, live, control, race, history>>

(* The mutex is released with the return.                                  *)
Return(c, s) ==
  /\ owner' = Nobody
  /\ pc' = [pc EXCEPT ![c] = "idle"]
  /\ ret' = [ret EXCEPT ![c] = s]
  /\ early' = early \ {c} /\ overlapped' = overlapped \ {c}

(* Mutant: the tick is read and left in the list.                          *)
BugWaitOrPop(c, flag) ==
  \/ /\ ticks = <<>>
     /\ need_notify' = TRUE
     /\ owner' = Nobody
     /\ pc' = [pc EXCEPT ![c] = "wait"]
     /\ UNCHANGED <<ticks, ret, popped, early, overlapped>>
  \/ /\ ticks # <<>>
     /\ need_notify' = flag
     /\ popped' = Append(popped, Head(ticks))
     /\ UNCHANGED ticks
     /\ Return(c, "OK")

(* Mutant: the last tick is handed over, the first one leaves the list.    *)
BugPopBack(c, flag) ==
  \/ /\ ticks = <<>>
     /\ need_notify' = TRUE
     /\ owner' = Nobody
     /\ pc' = [pc EXCEPT ![c] = "wait"]
     /\ UNCHANGED <<ticks, ret, popped, early, overlapped>>
  \/ /\ ticks # <<>>
     /\ need_notify' = flag
     /\ popped' = Append(popped, Last(ticks))
     /\ ticks' = Tail(ticks)
     /\ Return(c, "OK")

(* wait_for, with need_notify raised, when the list is empty; otherwise    *)
(* the front of the list is handed over.  flag is need_notify at that time.*)
WaitOrPop(c, flag) ==
  \/ /\ ticks = <<>>
     /\ need_notify' = TRUE
     /\ owner' = Nobody
     /\ pc' = [pc EXCEPT ![c] = "wait"]
     /\ UNCHANGED <<ticks, ret, popped, early, overlapped>>
  \/ /\ ticks # <<>>
     /\ need_notify' = flag
     /\ popped' = Append(popped, Head(ticks))
     /\ ticks' = Tail(ticks)
     /\ Return(c, "OK")

Sleepers == {c \in Consumers : pc[c] = "wait"}

Body(c) ==
  /\ ~race /\ pc[c] = "body" /\ control # "free"
  /\ WaitOrPop(c, need_notify)
  /\ outrun' = IF pc'[c] = "wait" THEN {} ELSE outrun
  /\ UNCHANGED <<started, quit_flag, live, control, race, session, arrived, discarded>>

Expire(c) ==
  /\ Step(c, "wait", "expired")
  /\ UNCHANGED <<flags, ticks, owner, ret, live, control, race, history>>

(* A condition variable may also wake up for no reason.                    *)
Spurious(c) ==
  /\ Step(c, "wait", "notified")
  /\ UNCHANGED <<flags, ticks, owner, ret, live, control, race, history>>

(* Mutant: an expired wait reports an empty queue.                         *)
BugAfterWaitEmpty(c) ==
  /\ ~race /\ pc[c] \in {"woken", "late"}
  /\ \/ /\ quit_flag \/ pc[c] = "late"
        /\ need_notify' = FALSE
        /\ Return(c, IF quit_flag THEN "QUIT" ELSE "EMPTY")
        /\ UNCHANGED <<ticks, popped>>
     \/ /\ ~quit_flag /\ pc[c] = "woken" /\ control # "free"
        /\ WaitOrPop(c, FALSE)
  /\ outrun' = IF pc'[c] = "wait" THEN {} ELSE Sleepers
  /\ UNCHANGED <<started, quit_flag, live, control, race, session, arrived, discarded>>

(* After wait_for: need_notify is lowered, then the loop ends or goes on.  *)
AfterWait(c) ==
  /\ ~race /\ pc[c] \in {"woken", "late"}
  /\ \/ /\ quit_flag
        /\ need_notify' = FALSE
        /\ Return(c, "QUIT")
        /\ UNCHANGED <<ticks, popped>>
     \/ /\ ~quit_flag /\ pc[c] = "late"
        /\ need_notify' = FALSE
        /\ Return(c, "TIMEOUT")
        /\ UNCHANGED <<ticks, popped>>
     \/ /\ ~quit_flag /\ pc[c] = "woken" /\ control # "free"
        /\ WaitOrPop(c, FALSE)
  /\ outrun' = IF pc'[c] = "wait" THEN {} ELSE Sleepers
  /\ UNCHANGED <<started, quit_flag, live, control, race, session, arrived, discarded>>

-----------------------------------------------------------------------------
(* OnRtnDepthMarketData: push_back under the mutex, and notify_one if a    *)
(* consumer said it waits.                                                 *)

(* Mutant: the tick is queued without a notification.                      *)
BugOnRtnDepthMarketData ==
  /\ ~race /\ live /\ owner = Nobody /\ arrived < MaxTicks
  /\ arrived' = arrived + 1
  /\ ticks' = Append(ticks, [n |-> arrived', s |-> session])
  /\ UNCHANGED <<flags, owner, pc, ret, live, control, race, session, popped, discarded,
                 early, overlapped, outrun>>

OnRtnDepthMarketData ==
  /\ ~race /\ live /\ owner = Nobody /\ arrived < MaxTicks
  /\ arrived' = arrived + 1
  /\ ticks' = Append(ticks, [n |-> arrived', s |-> session])
  /\ \/ /\ need_notify
        /\ \E c \in Sleepers : pc' = [pc EXCEPT ![c] = "notified"]
     \/ /\ ~need_notify \/ Sleepers = {}
        /\ UNCHANGED pc
  /\ UNCHANGED <<flags, owner, ret, live, control, race, session, popped, discarded,
                 early, overlapped, outrun>>

-----------------------------------------------------------------------------
(* md_start and md_stop: every store that a consumer can see is a step.    *)

Goes(from, to) == ~race /\ control = from /\ control' = to

Calling == {c \in Consumers : pc[c] # "idle"}

(* started, then need_notify, then quit_flag and CTP's Init.               *)
Start ==
  \/ /\ ~started /\ session < MaxSessions /\ Goes("idle", "lower")
     /\ started' = TRUE /\ overlapped' = Calling
     /\ UNCHANGED <<quit_flag, need_notify, ticks, owner, pc, ret, live, race, feed,
                    early, outrun>>
  \/ /\ Goes("lower", "open") /\ need_notify' = FALSE
     /\ UNCHANGED <<started, quit_flag, ticks, owner, pc, ret, live, race, history>>
  \/ /\ Goes("open", "idle") /\ quit_flag' = FALSE
     /\ live' = TRUE /\ session' = session + 1
     /\ UNCHANGED <<started, need_notify, ticks, owner, pc, ret, race, arrived, popped,
                    discarded, early, overlapped, outrun>>

(* Mutant: nobody is notified.                                             *)
BugStopQuit ==
  /\ started /\ owner = Nobody /\ Goes("idle", "sleep")
  /\ quit_flag' = TRUE
  /\ early' = {c \in Consumers : pc[c] \in {"wait", "notified", "expired"}}
  /\ overlapped' = Calling
  /\ UNCHANGED <<started, need_notify, ticks, owner, pc, ret, live, race, feed, outrun>>

(* quit_flag and notify_all, under the mutex.                              *)
StopQuit ==
  /\ started /\ owner = Nobody /\ Goes("idle", "sleep")
  /\ quit_flag' = TRUE
  /\ pc' = [c \in Consumers |-> IF pc[c] = "wait" THEN "notified" ELSE pc[c]]
  /\ early' = {c \in Consumers : pc[c] \in {"wait", "notified", "expired"}}
  /\ overlapped' = Calling
  /\ UNCHANGED <<started, need_notify, ticks, owner, ret, live, race, feed, outrun>>

(* The sleep ends; RegisterSpi(nullptr) and Release silence CTP's thread.  *)
StopRelease ==
  /\ Goes("sleep", "down")
  /\ live' = FALSE /\ early' = {}
  /\ UNCHANGED <<flags, ticks, owner, pc, ret, race, feed, overlapped, outrun>>

(* started, then quit_flag, then need_notify.                              *)
StopReset ==
  /\ \/ /\ Goes("down", "quit") /\ started' = FALSE
        /\ UNCHANGED <<quit_flag, need_notify>>
     \/ /\ Goes("quit", "need") /\ quit_flag' = FALSE
        /\ UNCHANGED <<started, need_notify>>
     \/ /\ Goes("need", "free") /\ need_notify' = FALSE
        /\ UNCHANGED <<started, quit_flag>>
  /\ UNCHANGED <<ticks, owner, pc, ret, live, race, history>>

(* Mutant: the old ticks are left for the next session.                   *)
BugStopClear ==
  /\ Goes("free", "idle")
  /\ UNCHANGED <<flags, ticks, owner, pc, ret, live, race, history>>

(* The ticks were freed and the list is empty.                             *)
StopClear ==
  /\ Goes("free", "idle")
  /\ discarded' = discarded \cup {t.n : t \in ToSet(ticks)}
  /\ ticks' = <<>>
  /\ UNCHANGED <<flags, owner, pc, ret, live, race, session, arrived, popped, early,
                 overlapped, outrun>>

(* md_stop frees and clears the list without the mutex.  A consumer that   *)
(* is in the list meanwhile, or comes to it, races with it: the model ends.*)
Collide ==
  /\ ~race /\ control = "free"
  /\ \E c \in Consumers : pc[c] = "body" \/ (pc[c] = "woken" /\ ~quit_flag)
  /\ race' = TRUE
  /\ UNCHANGED <<flags, ticks, owner, pc, ret, live, control, history>>

-----------------------------------------------------------------------------

Consume(c) == Query(c) \/ Lock(c) \/ Body(c) \/ Expire(c) \/ Spurious(c) \/ AfterWait(c)

Stop == StopQuit \/ StopRelease \/ StopReset \/ StopClear \/ Collide

Next == (\E c \in Consumers : Consume(c)) \/ OnRtnDepthMarketData \/ Start \/ Stop

(* Consumers run: a waiter for the mutex gets it, a holder lets go of it.  *)
(* Nothing makes a consumer call, a tick arrive, a wait expire or the      *)
(* sleep of md_stop end.                                                   *)
Fairness ==
  \A c \in Consumers : SF_vars(Lock(c)) /\ WF_vars(Body(c)) /\ WF_vars(AfterWait(c))

Spec == Init /\ [][Next]_vars /\ Fairness

-----------------------------------------------------------------------------
(* Properties.                                                             *)

Tick == [n : 1..MaxTicks, s : 1..MaxSessions]

TypeOK ==
  /\ started \in BOOLEAN /\ quit_flag \in BOOLEAN /\ need_notify \in BOOLEAN
  /\ ticks \in Seq(Tick) /\ owner \in Consumers \cup {Nobody}
  /\ pc \in [Consumers -> Steps]
  /\ ret \in [Consumers -> {"NONE", "OK", "QUIT", "TIMEOUT", "STOPPED"}]
  /\ live \in BOOLEAN /\ control \in Controls /\ race \in BOOLEAN
  /\ session \in 0..MaxSessions /\ arrived \in 0..MaxTicks
  /\ popped \in Seq(Tick) /\ discarded \subseteq 1..MaxTicks
  /\ early \subseteq Consumers /\ overlapped \subseteq Consumers /\ outrun \subseteq Consumers

(* Every tick that arrived is handed to one consumer, or still queued, or  *)
(* was freed by md_stop: never two of them, and the ticks leave the queue  *)
(* in the order in which they came.                                        *)
FifoExactlyOnce ==
  LET all == popped \o ticks
      seen == {t.n : t \in ToSet(all)}
  IN /\ \A i, j \in DOMAIN all : i < j => all[i].n < all[j].n
     /\ seen \cup discarded = 1..arrived
     /\ seen \cap discarded = {}

(* No consumer receives a tick of an earlier session, not even one that    *)
(* slept through the md_stop and the next md_start.                        *)
SessionClean == [][popped' # popped => Last(popped').s = session]_vars

(* Whatever the consumers, CTP's thread and md_stop do to the list and the *)
(* flags, in whatever order, what the consumers see of it is TickFifo.     *)
Feed == INSTANCE TickFifo WITH open <- live, waiting <- ticks, handed <- popped
FeedIsFifo == Feed!Spec

(* A consumer in wait_for when md_stop begins returns STATUS_QUIT, if the  *)
(* sleep of md_stop lets it: its fellows, late ticks and an expiry of its  *)
(* wait at that moment do not keep it from the mutex or change its answer. *)
EarlyWaitersQuit ==
  \A c \in Consumers : c \in early ~> (ret[c] = "QUIT" \/ control # "sleep")

(* A consumer sleeps beside a waiting tick only while another consumer was *)
(* notified and is on its way, or after another one came out of wait_for   *)
(* and lowered need_notify for both, or if md_start or md_stop was at work *)
(* during its call.  The only caller, in the middle of a session, never    *)
(* misses a notification.                                                  *)
WakeupOwed ==
  \A c \in Sleepers : ticks # <<>> =>
     \/ \E d \in Consumers : pc[d] \in {"notified", "woken"}
     \/ c \in outrun \/ c \in overlapped
=============================================================================
