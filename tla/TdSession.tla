----------------------------- MODULE TdSession -----------------------------
(***************************************************************************)
(* The trading half of easyctp: td_start, td_queryPosition,                *)
(* td_queryMarketData and td_stop (tdapi.cpp) over the CTP callback object *)
(* TdSm (tdsm.cpp).  The API turns CTP's asynchronous requests into        *)
(* synchronous calls with one shared word, sync_status: a call sets it to  *)
(* 1, sends its request and polls until a callback on CTP's own thread has *)
(* set it to 2, or until the poll times out.                               *)
(*                                                                         *)
(* The CTP front is external: it answers a request with a sequence of      *)
(* messages delivered in order, after any delay, and a broken connection   *)
(* loses what is under way.                                                *)
(***************************************************************************)
EXTENDS Naturals, Sequences

CONSTANTS Callers,      \* threads of the application that call the API
          MaxItems,     \* bound: items in the answer to one query
          MaxRequests,  \* bound: no new query once reqID has reached this
          MaxConnects   \* bound: times one session's front connects

ASSUME TdAssumption == /\ MaxItems \in Nat
                       /\ MaxRequests \in Nat
                       /\ MaxConnects \in Nat

Queries == {"queryPosition", "queryMarketData"}
Ops == Queries \cup {"start", "stop"}
Steps == {"idle", "check", "mark", "init", "send", "poll", "release", "reset"}
Statuses == {"NONE", "OK", "RUNNING", "STOPPED", "BUSY", "TIMEOUT"}

(* A message of the front: the callback it invokes, the request it         *)
(* answers, whether it carries an item, nothing or an error, and bIsLast.  *)
Message == [kind : Queries \cup {"login", "confirm"}, id : Nat,
            body : {"data", "empty", "error"}, last : BOOLEAN]

VARIABLES
  started, sync,        \* the atomics TdSm::started and TdSm::sync_status
  reqID,                \* TdSm::reqID
  api,                  \* TRUE while tdApi points to an API with its SPI registered
  snap,                 \* positionDetails and mdSnap: who each item was sent for
  pc, op, mine, status, items,  \* per caller: step, call, request id, result, list read
  online, wire,         \* the front: connection and messages under way
  finishing,            \* a query callback has yet to store sync_status = 2
  connects,             \* times the front connected in this session
  crashed,              \* a CHECK failed or tdApi was null: the process is gone
  want,                 \* history: items the front sends to the caller's request
  blame                 \* history: what went wrong since the last td_start

callerVars == <<pc, op, mine, status, items, want>>
frontVars == <<online, wire, finishing, connects>>
vars == <<started, sync, reqID, api, snap, callerVars, frontVars, crashed, blame>>

Init ==
  /\ started = FALSE /\ sync = 0 /\ reqID = 0 /\ api = FALSE
  /\ snap = [q \in Queries |-> <<>>]
  /\ pc = [c \in Callers |-> "idle"]
  /\ op = [c \in Callers |-> "stop"]
  /\ mine = [c \in Callers |-> 0]
  /\ status = [c \in Callers |-> "NONE"]
  /\ items = [c \in Callers |-> <<>>]
  /\ want = [c \in Callers |-> 0]
  /\ online = FALSE /\ wire = <<>> /\ finishing = FALSE /\ connects = 0
  /\ crashed = FALSE /\ blame = {}

-----------------------------------------------------------------------------
(* The calls.                                                              *)

(* The call o of caller c ends with status s, having read list l.          *)
Return(c, o, s, l) ==
  /\ pc' = [pc EXCEPT ![c] = "idle"]
  /\ op' = [op EXCEPT ![c] = o]
  /\ status' = [status EXCEPT ![c] = s]
  /\ items' = [items EXCEPT ![c] = l]
  /\ UNCHANGED <<mine, want>>

Goto(c, step) ==
  /\ pc' = [pc EXCEPT ![c] = step]
  /\ UNCHANGED <<op, mine, status, items, want>>

(* The guard of a call that goes on: no result yet.                        *)
Begin(c, o, step) ==
  /\ pc' = [pc EXCEPT ![c] = step]
  /\ op' = [op EXCEPT ![c] = o]
  /\ status' = [status EXCEPT ![c] = "NONE"]
  /\ items' = [items EXCEPT ![c] = <<>>]
  /\ mine' = [mine EXCEPT ![c] = 0]
  /\ want' = [want EXCEPT ![c] = 0]

At(c, step) == ~crashed /\ pc[c] = step

Crash == /\ crashed' = TRUE
         /\ UNCHANGED <<started, sync, reqID, api, snap, callerVars, frontVars, blame>>

CallStart(c) ==
  /\ At(c, "idle")
  /\ \/ started /\ Return(c, "start", "RUNNING", <<>>)
     \/ ~started /\ sync > 0 /\ Return(c, "start", "BUSY", <<>>)
     \/ ~started /\ sync = 0 /\ Begin(c, "start", "check")
  /\ UNCHANGED <<started, sync, reqID, api, snap, frontVars, crashed, blame>>

(* Mutant: the BUSY guard is missing.                                      *)
BugCallQuery(c, q) ==
  /\ At(c, "idle")
  /\ reqID < MaxRequests
  /\ \/ ~started /\ Return(c, q, "STOPPED", <<>>)
     \/ started /\ Begin(c, q, "check")
  /\ UNCHANGED <<started, sync, reqID, api, snap, frontVars, crashed, blame>>

CallQuery(c, q) ==
  /\ At(c, "idle")
  /\ reqID < MaxRequests
  /\ \/ ~started /\ Return(c, q, "STOPPED", <<>>)
     \/ started /\ sync > 0 /\ Return(c, q, "BUSY", <<>>)
     \/ started /\ sync = 0 /\ Begin(c, q, "check")
  /\ UNCHANGED <<started, sync, reqID, api, snap, frontVars, crashed, blame>>

CallStop(c) ==
  /\ At(c, "idle")
  /\ \/ ~started /\ Return(c, "stop", "STOPPED", <<>>)
     \/ started /\ Begin(c, "stop", "release")
  /\ UNCHANGED <<started, sync, reqID, api, snap, frontVars, crashed, blame>>

(* The CHECKs that open TdSm::start and the TdSm::query functions.         *)
CheckOk(c) == sync = 0 /\ (started <=> op[c] # "start")

Check(c) ==
  /\ At(c, "check")
  /\ \/ /\ CheckOk(c)
        /\ Goto(c, "mark")
        /\ UNCHANGED <<started, sync, reqID, api, snap, frontVars, crashed, blame>>
     \/ ~CheckOk(c) /\ Crash

MarkStart(c) ==
  /\ At(c, "mark") /\ op[c] = "start"
  /\ sync' = 1 /\ started' = TRUE /\ reqID' = 0
  /\ blame' = {}
  /\ Goto(c, "init")
  /\ UNCHANGED <<api, snap, frontVars, crashed>>

(* CreateFtdcTraderApi, RegisterSpi, RegisterFront and Init: from here on  *)
(* the front may connect.                                                  *)
InitApi(c) ==
  /\ At(c, "init")
  /\ api' = TRUE /\ connects' = 0
  /\ Goto(c, "poll")
  /\ UNCHANGED <<started, sync, reqID, snap, online, wire, finishing, crashed, blame>>

(* Mutant: the list of the previous query is kept.                         *)
BugMarkQuery(c) ==
  /\ At(c, "mark") /\ op[c] \in Queries
  /\ sync' = 1
  /\ Goto(c, "send")
  /\ UNCHANGED <<started, reqID, api, snap, frontVars, crashed, blame>>

(* sync_status = 1, then the old answers are freed under qryMutex.         *)
MarkQuery(c) ==
  /\ At(c, "mark") /\ op[c] \in Queries
  /\ sync' = 1
  /\ snap' = [snap EXCEPT ![op[c]] = <<>>]
  /\ Goto(c, "send")
  /\ UNCHANGED <<started, reqID, api, frontVars, crashed, blame>>

(* The n items the front answers query q with; no item makes one empty     *)
(* message, and a refusal one message with an error.                       *)
DataAnswer(q, id, n) ==
  IF n = 0 THEN <<[kind |-> q, id |-> id, body |-> "empty", last |-> TRUE]>>
  ELSE [i \in 1..n |-> [kind |-> q, id |-> id, body |-> "data", last |-> i = n]]

ErrorAnswer(k, id) == <<[kind |-> k, id |-> id, body |-> "error", last |-> TRUE]>>

(* flowControl has let the request go; its return code is only logged.     *)
SendQuery(c) ==
  /\ At(c, "send")
  /\ \/ /\ api
        /\ reqID' = reqID + 1
        /\ mine' = [mine EXCEPT ![c] = reqID']
        /\ \/ \E n \in 0..MaxItems :
                /\ online
                /\ wire' = wire \o DataAnswer(op[c], reqID', n)
                /\ want' = [want EXCEPT ![c] = n]
           \/ /\ online
              /\ wire' = wire \o ErrorAnswer(op[c], reqID')
              /\ UNCHANGED want
           \/ UNCHANGED <<wire, want>>
        /\ pc' = [pc EXCEPT ![c] = "poll"]
        /\ UNCHANGED <<started, sync, api, snap, op, status, items, online,
                       finishing, connects, crashed, blame>>
     \/ ~api /\ Crash

(* Mutant: the call ends without storing 0.                                *)
BugPollHit(c) ==
  /\ At(c, "poll") /\ sync = 2
  /\ Return(c, op[c], "OK", IF op[c] \in Queries THEN snap[op[c]] ELSE <<>>)
  /\ UNCHANGED <<started, sync, reqID, api, snap, frontVars, crashed, blame>>

(* checkStatus has seen 2: copy the list and store 0, under qryMutex.      *)
PollHit(c) ==
  /\ At(c, "poll") /\ sync = 2
  /\ sync' = 0
  /\ Return(c, op[c], "OK", IF op[c] \in Queries THEN snap[op[c]] ELSE <<>>)
  /\ UNCHANGED <<started, reqID, api, snap, frontVars, crashed, blame>>

(* Mutants: the poll has no bound; a timeout frees the session.            *)
BugPollForever(c) == FALSE /\ At(c, "poll") /\ UNCHANGED vars
BugPollTimeout(c) ==
  /\ At(c, "poll") /\ sync # 2
  /\ sync' = 0
  /\ Return(c, op[c], "TIMEOUT", <<>>)
  /\ blame' = blame \cup {"timeout"}
  /\ UNCHANGED <<started, reqID, api, snap, frontVars, crashed>>

(* checkStatus gives up: it may, whenever its last look did not see 2.     *)
PollTimeout(c) ==
  /\ At(c, "poll") /\ sync # 2
  /\ Return(c, op[c], "TIMEOUT", <<>>)
  /\ blame' = blame \cup {"timeout"}
  /\ UNCHANGED <<started, sync, reqID, api, snap, frontVars, crashed>>

(* RegisterSpi(nullptr) and Release, which waits for a running callback.   *)
Release(c) ==
  /\ At(c, "release")
  /\ \/ /\ api /\ ~finishing
        /\ api' = FALSE /\ online' = FALSE /\ wire' = <<>>
        /\ Goto(c, "reset")
        /\ UNCHANGED <<started, sync, reqID, snap, finishing, connects, crashed, blame>>
     \/ ~api /\ Crash

Reset(c) ==
  /\ At(c, "reset")
  /\ started' = FALSE /\ reqID' = 0 /\ sync' = 0
  /\ Return(c, "stop", "OK", <<>>)
  /\ UNCHANGED <<api, snap, frontVars, crashed, blame>>

-----------------------------------------------------------------------------
(* CTP's thread.                                                           *)

CtpRuns == ~crashed /\ api /\ ~finishing

(* OnFrontConnected and login.                                             *)
OnFrontConnected ==
  /\ CtpRuns /\ ~online /\ connects < MaxConnects
  /\ online' = TRUE /\ connects' = connects + 1
  /\ reqID' = reqID + 1
  /\ \/ \E b \in {"empty", "error"} :
          wire' = <<[kind |-> "login", id |-> reqID', body |-> b, last |-> TRUE]>>
     \/ wire' = <<>>
  /\ UNCHANGED <<started, sync, api, snap, callerVars, finishing, crashed, blame>>

OnFrontDisconnected ==
  /\ CtpRuns /\ online
  /\ online' = FALSE /\ wire' = <<>>
  /\ UNCHANGED <<started, sync, reqID, api, snap, callerVars, finishing, connects,
                 crashed, blame>>

Arrives(k) == CtpRuns /\ wire # <<>> /\ Head(wire).kind = k

(* OnRspUserLogin: without an error, settlementConfirm sends its request.  *)
OnRspUserLogin ==
  /\ Arrives("login")
  /\ \/ /\ Head(wire).body = "error"
        /\ wire' = Tail(wire)
        /\ UNCHANGED reqID
     \/ /\ Head(wire).body # "error"
        /\ reqID' = reqID + 1
        /\ \/ \E b \in {"empty", "error"} :
                wire' = Append(Tail(wire), [kind |-> "confirm", id |-> reqID',
                                            body |-> b, last |-> TRUE])
           \/ wire' = Tail(wire)
  /\ UNCHANGED <<started, sync, api, snap, callerVars, online, finishing, connects,
                 crashed, blame>>

(* Nobody waits for a settlement confirmation: this login is a late one or *)
(* a re-login after a broken connection.                                   *)
Unexpected == \A c \in Callers : ~(op[c] = "start" /\ pc[c] = "poll")

OnRspSettlementInfoConfirm ==
  /\ Arrives("confirm")
  /\ wire' = Tail(wire)
  /\ \/ /\ Head(wire).body # "error"
        /\ sync' = 2
        /\ blame' = IF Unexpected THEN blame \cup {"relogin"} ELSE blame
     \/ /\ Head(wire).body = "error"
        /\ UNCHANGED <<sync, blame>>
  /\ UNCHANGED <<started, reqID, api, snap, callerVars, online, finishing, connects,
                 crashed>>

(* OnRspQryDepthMarketData and OnRspQryInvestorPositionDetail: an item is  *)
(* stored under qryMutex, whatever request it answers ...                  *)
OnRspQuery(q) ==
  /\ Arrives(q)
  /\ wire' = Tail(wire)
  /\ \/ /\ Head(wire).body = "data"
        /\ snap' = [snap EXCEPT ![q] = Append(@, Head(wire).id)]
        /\ finishing' = Head(wire).last
        /\ UNCHANGED sync
     \/ /\ Head(wire).body # "data"
        /\ sync' = IF Head(wire).last THEN 2 ELSE sync
        /\ UNCHANGED <<snap, finishing>>
  /\ UNCHANGED <<started, reqID, api, callerVars, online, connects, crashed, blame>>

(* Mutant: the callback counts sync_status up instead of storing 2.        *)
BugFinishQuery ==
  /\ ~crashed /\ finishing
  /\ sync' = sync + 1 /\ finishing' = FALSE
  /\ UNCHANGED <<started, reqID, api, snap, callerVars, online, wire, connects,
                 crashed, blame>>

(* ... and, after the mutex is released, the last message ends the call.   *)
FinishQuery ==
  /\ ~crashed /\ finishing
  /\ sync' = 2 /\ finishing' = FALSE
  /\ UNCHANGED <<started, reqID, api, snap, callerVars, online, wire, connects,
                 crashed, blame>>

-----------------------------------------------------------------------------

Continue(c) == \/ Check(c) \/ MarkStart(c) \/ InitApi(c) \/ MarkQuery(c)
               \/ SendQuery(c) \/ PollHit(c) \/ PollTimeout(c)
               \/ Release(c) \/ Reset(c)

Call(c) == CallStart(c) \/ CallStop(c) \/ \E q \in Queries : CallQuery(c, q)

Ctp == \/ OnFrontConnected \/ OnFrontDisconnected
       \/ OnRspUserLogin \/ OnRspSettlementInfoConfirm
       \/ \E q \in Queries : OnRspQuery(q)
       \/ FinishQuery

Next == (\E c \in Callers : Call(c) \/ Continue(c)) \/ Ctp

(* A thread inside a call keeps running, and a callback that has started   *)
(* ends; the front owes nothing, and the application need not call.        *)
Fairness == (\A c \in Callers : WF_vars(Continue(c))) /\ WF_vars(FinishQuery)

Spec == Init /\ [][Next]_vars /\ Fairness

-----------------------------------------------------------------------------
(* Properties.                                                             *)

TypeOK ==
  /\ started \in BOOLEAN /\ sync \in 0..2 /\ reqID \in Nat /\ api \in BOOLEAN
  /\ snap \in [Queries -> Seq(Nat)]
  /\ pc \in [Callers -> Steps] /\ op \in [Callers -> Ops]
  /\ mine \in [Callers -> Nat] /\ status \in [Callers -> Statuses]
  /\ items \in [Callers -> Seq(Nat)] /\ want \in [Callers -> Nat]
  /\ online \in BOOLEAN /\ wire \in Seq(Message) /\ finishing \in BOOLEAN
  /\ connects \in Nat /\ crashed \in BOOLEAN
  /\ blame \subseteq {"timeout", "relogin"}

(* A query that returns STATUS_OK hands over exactly the items the front   *)
(* sent for that very request, although no callback compares request ids:  *)
(* what protects the list is that a timed-out call keeps sync_status busy  *)
(* until td_stop has silenced the old session.  Only a settlement          *)
(* confirmation nobody waited for can end a query early.                   *)
OkIsComplete ==
  \A c \in Callers :
    (pc[c] = "idle" /\ op[c] \in Queries /\ status[c] = "OK")
      => \/ items[c] = [i \in 1..want[c] |-> mine[c]]
         \/ "relogin" \in blame

(* Between calls sync_status is 0, so the next call is served, unless a    *)
(* call timed out or an unexpected login was confirmed in this session.    *)
BusyHasCause ==
  (~crashed /\ \A c \in Callers : pc[c] = "idle") => (sync = 0 \/ blame # {})

(* With a single caller the CHECKs of tdsm.cpp and the use of tdApi can    *)
(* only fail when a login was confirmed between a call's guard and its     *)
(* CHECK.                                                                  *)
CrashNeedsRelogin == crashed => "relogin" \in blame

(* Once a call has timed out, nothing but td_stop succeeds until td_stop   *)
(* has ended the session: no query is answered from the wreckage.          *)
DeadUntilStop ==
  [][\A c \in Callers :
       ("timeout" \in blame /\ status[c] # "OK" /\ status'[c] = "OK")
         => op'[c] = "stop"]_vars

(* Every call returns: the poll is bounded and td_stop waits for nothing   *)
(* but a callback that is already running.                                 *)
CallReturns == \A c \in Callers : pc[c] # "idle" ~> (pc[c] = "idle" \/ crashed)

(* tdsm.cpp:213 says that after a broken connection the API reconnects by  *)
(* itself and the client need not do anything.  So without a timed-out     *)
(* call an idle session stays free to serve the next one.                  *)
ReconnectNeedsNothing ==
  (~crashed /\ "timeout" \notin blame /\ \A c \in Callers : pc[c] = "idle") => sync = 0
=============================================================================
