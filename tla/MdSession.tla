----------------------------- MODULE MdSession -----------------------------
(***************************************************************************)
(* The market-data half of easyctp: md_start, md_subscribe, md_unsubscribe *)
(* and md_stop (mdapi.cpp) over the CTP callback object MdSm (mdsm.cpp).   *)
(* As in TdSession one word, sync_status, joins a polling caller and CTP's *)
(* thread, but here the callbacks store different values: a login stores   *)
(* 0, a subscription 2, an unsubscription nothing; and the login callback  *)
(* itself issues requests, to subscribe again to the pool of instruments.  *)
(* The queue of ticks, the other half of MdSm, is module TickQueue.        *)
(*                                                                         *)
(* The CTP front is external: it keeps the subscriptions of the logged-in  *)
(* connection, forgets them when the connection breaks, and answers a      *)
(* request in order, after any delay, or refuses it.                       *)
(***************************************************************************)
EXTENDS Naturals, Sequences, SequencesExt

CONSTANTS Callers,      \* threads of the application that call the API
          Instruments,  \* instruments the application subscribes to
          MaxConnects   \* bound: times one session's front connects

ASSUME MdAssumption == MaxConnects \in Nat

Steps == {"idle", "check", "mark", "init", "send", "poll", "release", "reset"}
Requests == {"subscribe", "unsubscribe"}
Ops == Requests \cup {"start", "stop"}
Statuses == {"NONE", "OK", "RUNNING", "STOPPED", "BUSY", "TIMEOUT"}

Message == [kind : {"login"}, ok : BOOLEAN]
             \cup [kind : Requests, inst : Instruments, ok : BOOLEAN]

VARIABLES
  started, sync,        \* the atomics MdSm::started and MdSm::sync_status
  api,                  \* TRUE while mdApi points to an API with its SPI registered
  subPool,              \* MdSm::subPool
  pc, op, inst, status, \* per caller: step, call, its instrument, result
  todo,                 \* what the running login callback has yet to subscribe to
  online, logged,       \* the front: connected; logged in on this connection
  frontSubs, wire,      \* the front: its subscriptions, its messages under way
  connects,             \* times the front connected in this session
  abort,                \* the CHECK that ended the process: "none", "call", "relogin"
  greeted,              \* history: the login of this connection was handled
  refused,              \* history: instruments the front or the API turned down
  blame                 \* history: what went wrong since the last md_start

callerVars == <<pc, op, inst, status>>
frontVars == <<online, logged, frontSubs, wire, connects>>
history == <<greeted, refused, blame>>
vars == <<started, sync, api, subPool, callerVars, todo, frontVars, abort, history>>

Init ==
  /\ started = FALSE /\ sync = 0 /\ api = FALSE /\ subPool = <<>>
  /\ pc = [c \in Callers |-> "idle"]
  /\ op = [c \in Callers |-> "stop"]
  /\ inst \in [Callers -> Instruments]
  /\ status = [c \in Callers |-> "NONE"]
  /\ todo = <<>>
  /\ online = FALSE /\ logged = FALSE /\ frontSubs = {} /\ wire = <<>> /\ connects = 0
  /\ abort = "none" /\ greeted = FALSE /\ refused = {} /\ blame = {}

-----------------------------------------------------------------------------
(* Requests to the front.                                                  *)

(* Request r for instrument i goes out over mdApi: it is taken, refused,   *)
(* or the API fails to send it, which the code only logs.                  *)
Request(r, i) ==
  \/ /\ online /\ logged
     /\ frontSubs' = IF r = "subscribe" THEN frontSubs \cup {i} ELSE frontSubs \ {i}
     /\ wire' = Append(wire, [kind |-> r, inst |-> i, ok |-> TRUE])
     /\ refused' = refused \ {i}
  \/ /\ online
     /\ wire' = Append(wire, [kind |-> r, inst |-> i, ok |-> FALSE])
     /\ refused' = refused \cup {i}
     /\ UNCHANGED frontSubs
  \/ /\ refused' = refused \cup {i}
     /\ UNCHANGED <<frontSubs, wire>>

-----------------------------------------------------------------------------
(* The calls.                                                              *)

Return(c, o, i, s) ==
  /\ pc' = [pc EXCEPT ![c] = "idle"]
  /\ op' = [op EXCEPT ![c] = o]
  /\ inst' = [inst EXCEPT ![c] = i]
  /\ status' = [status EXCEPT ![c] = s]

Begin(c, o, i, step) ==
  /\ pc' = [pc EXCEPT ![c] = step]
  /\ op' = [op EXCEPT ![c] = o]
  /\ inst' = [inst EXCEPT ![c] = i]
  /\ status' = [status EXCEPT ![c] = "NONE"]

Goto(c, step) == pc' = [pc EXCEPT ![c] = step] /\ UNCHANGED <<op, inst, status>>

At(c, step) == abort = "none" /\ pc[c] = step

Abort(who) ==
  /\ abort' = who
  /\ UNCHANGED <<started, sync, api, subPool, callerVars, todo, frontVars, history>>

SessionUnchanged == UNCHANGED <<started, sync, api, subPool, todo, frontVars, abort, history>>

CallStart(c) ==
  /\ At(c, "idle")
  /\ \/ started /\ Return(c, "start", inst[c], "RUNNING")
     \/ ~started /\ sync > 0 /\ Return(c, "start", inst[c], "BUSY")
     \/ ~started /\ sync = 0 /\ Begin(c, "start", inst[c], "check")
  /\ SessionUnchanged

CallSubscribe(c, i) ==
  /\ At(c, "idle")
  /\ \/ ~started /\ Return(c, "subscribe", i, "STOPPED")
     \/ started /\ sync > 0 /\ Return(c, "subscribe", i, "BUSY")
     \/ started /\ sync = 0 /\ Begin(c, "subscribe", i, "check")
  /\ SessionUnchanged

(* Unlike md_subscribe it does not ask whether a request is under way.     *)
CallUnsubscribe(c, i) ==
  /\ At(c, "idle")
  /\ \/ ~started /\ Return(c, "unsubscribe", i, "STOPPED")
     \/ started /\ Begin(c, "unsubscribe", i, "check")
  /\ SessionUnchanged

CallStop(c) ==
  /\ At(c, "idle")
  /\ \/ ~started /\ Return(c, "stop", inst[c], "STOPPED")
     \/ started /\ Begin(c, "stop", inst[c], "release")
  /\ SessionUnchanged

(* The CHECKs that open MdSm::start, subscribe and unsubscribe.            *)
CheckOk(c) == sync = 0 /\ (started <=> op[c] # "start")

Check(c) ==
  /\ At(c, "check")
  /\ \/ CheckOk(c) /\ Goto(c, "mark") /\ SessionUnchanged
     \/ ~CheckOk(c) /\ Abort("call")

MarkStart(c) ==
  /\ At(c, "mark") /\ op[c] = "start"
  /\ sync' = 1 /\ started' = TRUE /\ blame' = {}
  /\ Goto(c, "init")
  /\ UNCHANGED <<api, subPool, todo, frontVars, abort, greeted, refused>>

InitApi(c) ==
  /\ At(c, "init")
  /\ api' = TRUE /\ connects' = 0
  /\ Goto(c, "poll")
  /\ UNCHANGED <<started, sync, subPool, todo, online, logged, frontSubs, wire, abort,
                 history>>

MarkRequest(c) ==
  /\ At(c, "mark") /\ op[c] \in Requests
  /\ sync' = 1
  /\ Goto(c, "send")
  /\ UNCHANGED <<started, api, subPool, todo, frontVars, abort, history>>

(* flowControl has let the request go.                                     *)
Send(c) ==
  /\ At(c, "send")
  /\ \/ /\ api
        /\ Request(op[c], inst[c])
        /\ Goto(c, "poll")
        /\ UNCHANGED <<started, sync, api, subPool, todo, online, logged, connects,
                       abort, greeted, blame>>
     \/ ~api /\ Abort("call")

(* Mutants: the 2 is left for every call; the poll has no bound.           *)
BugPollHit(c) ==
  /\ At(c, "poll") /\ sync = 2
  /\ Return(c, op[c], inst[c], "OK")
  /\ UNCHANGED <<started, sync, api, subPool, todo, frontVars, abort, history>>

BugPollForever(c) == FALSE /\ At(c, "poll") /\ UNCHANGED vars

(* checkStatus has seen 2.  md_start and md_subscribe store 0, the other   *)
(* two leave the 2 where it is.                                            *)
PollHit(c) ==
  /\ At(c, "poll") /\ sync = 2
  /\ sync' = IF op[c] \in {"start", "subscribe"} THEN 0 ELSE sync
  /\ Return(c, op[c], inst[c], "OK")
  /\ UNCHANGED <<started, api, subPool, todo, frontVars, abort, history>>

(* checkStatus gave up.  It always does in md_start, whose login stores 0: *)
(* that is to blame only if the login has not been answered by then.       *)
PollTimeout(c) ==
  /\ At(c, "poll") /\ sync # 2
  /\ Return(c, op[c], inst[c], "TIMEOUT")
  /\ blame' = blame \cup (IF op[c] # "start" THEN {"timeout"}
                         ELSE IF sync # 0 THEN {"start"} ELSE {})
  /\ UNCHANGED <<started, sync, api, subPool, todo, frontVars, abort, greeted, refused>>

(* The quit flag and the wait of MdSm::stop are TickQueue's; then come     *)
(* RegisterSpi(nullptr) and Release, which waits for a running callback.   *)
Release(c) ==
  /\ At(c, "release")
  /\ \/ /\ api /\ todo = <<>>
        /\ api' = FALSE /\ online' = FALSE /\ logged' = FALSE
        /\ frontSubs' = {} /\ wire' = <<>> /\ greeted' = FALSE /\ refused' = {}
        /\ Goto(c, "reset")
        /\ UNCHANGED <<started, sync, subPool, todo, connects, abort, blame>>
     \/ ~api /\ Abort("call")

(* subPool is kept, and md_stop goes on to wait for a 2 it has just erased.*)
Reset(c) ==
  /\ At(c, "reset")
  /\ sync' = 0 /\ started' = FALSE
  /\ Goto(c, "poll")
  /\ UNCHANGED <<api, subPool, todo, frontVars, abort, history>>

-----------------------------------------------------------------------------
(* CTP's thread.                                                           *)

CtpRuns == abort = "none" /\ api /\ todo = <<>>

(* OnFrontConnected and login; the front takes the login or refuses it,    *)
(* or the API fails to send it.                                            *)
OnFrontConnected ==
  /\ CtpRuns /\ ~online /\ connects < MaxConnects
  /\ online' = TRUE /\ connects' = connects + 1
  /\ \/ \E ok \in BOOLEAN : logged' = ok /\ wire' = <<[kind |-> "login", ok |-> ok]>>
     \/ logged' = FALSE /\ wire' = <<>>
  /\ UNCHANGED <<started, sync, api, subPool, callerVars, todo, frontSubs, abort, history>>

OnFrontDisconnected ==
  /\ CtpRuns /\ online
  /\ online' = FALSE /\ logged' = FALSE /\ frontSubs' = {} /\ wire' = <<>>
  /\ greeted' = FALSE /\ refused' = {}
  /\ UNCHANGED <<started, sync, api, subPool, callerVars, todo, connects, abort, blame>>

Arrives(k) == CtpRuns /\ wire # <<>> /\ Head(wire).kind = k

(* Mutant: a re-login does not subscribe again.                            *)
BugOnRspUserLogin ==
  /\ Arrives("login")
  /\ wire' = Tail(wire)
  /\ sync' = IF Head(wire).ok THEN 0 ELSE sync
  /\ greeted' = (greeted \/ Head(wire).ok)
  /\ UNCHANGED <<started, api, subPool, callerVars, todo, online, logged, frontSubs,
                 connects, abort, refused, blame>>

(* sync_status becomes 0, whoever holds it, and the pool is subscribed to  *)
(* again from inside the callback.                                         *)
OnRspUserLogin ==
  /\ Arrives("login")
  /\ wire' = Tail(wire)
  /\ \/ /\ Head(wire).ok
        /\ sync' = 0 /\ todo' = subPool /\ greeted' = TRUE
        /\ blame' = (blame \ {"start"}) \cup (IF subPool = <<>> THEN {} ELSE {"relogin"})
     \/ /\ ~Head(wire).ok
        /\ UNCHANGED <<sync, todo, greeted, blame>>
  /\ UNCHANGED <<started, api, subPool, callerVars, online, logged, frontSubs, connects,
                 abort, refused>>

(* MdSm::subscribe called by the login callback.                           *)
Resubscribe ==
  /\ abort = "none" /\ todo # <<>>
  /\ \/ /\ started /\ sync = 0
        /\ sync' = 1
        /\ todo' = Tail(todo)
        /\ Request("subscribe", Head(todo))
        /\ UNCHANGED <<started, api, subPool, callerVars, online, logged, connects,
                       abort, greeted, blame>>
     \/ ~(started /\ sync = 0) /\ Abort("relogin")

(* Mutants: the pool is not extended; sync_status is counted up.           *)
BugPoolKept ==
  /\ Arrives("subscribe")
  /\ wire' = Tail(wire)
  /\ sync' = IF Head(wire).ok THEN 2 ELSE sync
  /\ UNCHANGED <<started, api, subPool, callerVars, todo, online, logged, frontSubs,
                 connects, abort, history>>

BugSyncCounts ==
  /\ Arrives("subscribe")
  /\ wire' = Tail(wire)
  /\ sync' = IF Head(wire).ok THEN sync + 1 ELSE sync
  /\ UNCHANGED <<started, api, subPool, callerVars, todo, online, logged, frontSubs,
                 connects, abort, history>>

OnRspSubMarketData ==
  /\ Arrives("subscribe")
  /\ wire' = Tail(wire)
  /\ \/ /\ Head(wire).ok
        /\ subPool' = IF Contains(subPool, Head(wire).inst) THEN subPool
                      ELSE Append(subPool, Head(wire).inst)
        /\ sync' = 2
     \/ /\ ~Head(wire).ok
        /\ UNCHANGED <<subPool, sync>>
  /\ UNCHANGED <<started, api, callerVars, todo, online, logged, frontSubs, connects,
                 abort, history>>

(* find and erase.  (No instrument is there twice.)                        *)
Erased(s, i) ==
  IF Contains(s, i) THEN RemoveAt(s, CHOOSE k \in DOMAIN s : s[k] = i) ELSE s

OnRspUnSubMarketData ==
  /\ Arrives("unsubscribe")
  /\ wire' = Tail(wire)
  /\ subPool' = IF Head(wire).ok THEN Erased(subPool, Head(wire).inst) ELSE subPool
  /\ UNCHANGED <<started, sync, api, callerVars, todo, online, logged, frontSubs,
                 connects, abort, history>>

-----------------------------------------------------------------------------

Continue(c) == \/ Check(c) \/ MarkStart(c) \/ InitApi(c) \/ MarkRequest(c) \/ Send(c)
               \/ PollHit(c) \/ PollTimeout(c) \/ Release(c) \/ Reset(c)

Call(c) == \/ CallStart(c) \/ CallStop(c)
           \/ \E i \in Instruments : CallSubscribe(c, i) \/ CallUnsubscribe(c, i)

Ctp == \/ OnFrontConnected \/ OnFrontDisconnected \/ OnRspUserLogin \/ Resubscribe
       \/ OnRspSubMarketData \/ OnRspUnSubMarketData

Next == (\E c \in Callers : Call(c) \/ Continue(c)) \/ Ctp

(* A thread inside a call keeps running, and a callback that has started   *)
(* ends; the front owes nothing, and the application need not call.        *)
Fairness == (\A c \in Callers : WF_vars(Continue(c))) /\ WF_vars(Resubscribe)

Spec == Init /\ [][Next]_vars /\ Fairness
-----------------------------------------------------------------------------
(* Properties.                                                             *)

TypeOK ==
  /\ started \in BOOLEAN /\ sync \in 0..2 /\ api \in BOOLEAN
  /\ subPool \in Seq(Instruments) /\ todo \in Seq(Instruments)
  /\ pc \in [Callers -> Steps] /\ op \in [Callers -> Ops]
  /\ inst \in [Callers -> Instruments] /\ status \in [Callers -> Statuses]
  /\ online \in BOOLEAN /\ logged \in BOOLEAN /\ frontSubs \subseteq Instruments
  /\ wire \in Seq(Message) /\ connects \in Nat
  /\ abort \in {"none", "call", "relogin"} /\ greeted \in BOOLEAN
  /\ refused \subseteq Instruments /\ blame \subseteq {"start", "timeout", "relogin"}

Pending(r, i) == \E k \in DOMAIN wire : wire[k].kind = r /\ wire[k].inst = i /\ wire[k].ok

(* After every login, the first or a re-login, the pool the code believes  *)
(* in and the front's subscriptions agree: an instrument of the pool is    *)
(* fed by the front (or was turned down, or its removal is on its way      *)
(* back), and one the front feeds is in the pool or about to enter it.     *)
PoolMatchesFront ==
  (abort = "none" /\ greeted /\ todo = <<>>) =>
     /\ \A i \in ToSet(subPool) :
           i \in frontSubs \/ i \in refused \/ Pending("unsubscribe", i)
     /\ \A i \in frontSubs : i \in ToSet(subPool) \/ Pending("subscribe", i)

(* md_subscribe returns STATUS_OK only with its instrument in the pool,    *)
(* unless in this session a request timed out (a login frees the word and  *)
(* the late answer then ends the next call) or a login callback subscribed *)
(* to the pool (the answer to the callback's request ends the caller's).   *)
OkMeansSubscribed ==
  [][\A c \in Callers :
       (pc[c] = "poll" /\ op[c] = "subscribe" /\ pc'[c] = "idle" /\ status'[c] = "OK")
         => (inst[c] \in ToSet(subPool) \/ blame \cap {"timeout", "relogin"} # {})]_vars

(* A CHECK can fail only after an earlier request of this session timed    *)
(* out, between a time-out of md_start and the answer to the login that is *)
(* still due, or when a login callback subscribed to a pool.               *)
AbortHasCause == abort # "none" => blame # {}

(* Every call returns: the polls are bounded and md_stop waits for nothing *)
(* but a callback that is already running.                                 *)
CallReturns == \A c \in Callers : pc[c] # "idle" ~> (pc[c] = "idle" \/ abort # "none")

(* mdsm.cpp:176: after a reconnection the pool has to be subscribed to     *)
(* again.  A loop over the pool that got past its first instrument gets to *)
(* its last.  (At the first one it may die of a caller's request that      *)
(* stores 1 after the login's 0: AbortHasCause covers that race.)          *)
ReloginSurvives == abort = "relogin" => todo = subPool

(* datareceiver.cpp:65 checks that stopping a running session returns OK.  *)
StopReturnsOk == \A c \in Callers : (op[c] = "stop" => status[c] # "TIMEOUT")
=============================================================================
