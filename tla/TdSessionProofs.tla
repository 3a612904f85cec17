-------------------------- MODULE TdSessionProofs --------------------------
(***************************************************************************)
(* Proofs about TdSession: its types for any number of callers, and, for   *)
(* the one thread that uses the API, what STATUS_OK, STATUS_BUSY, a        *)
(* timeout and a failed CHECK mean, for any bounds.                        *)
(***************************************************************************)
EXTENDS TdSession, SequenceTheorems, TLAPS

-----------------------------------------------------------------------------
(* Types.                                                                  *)

LEMMA InitTypes == Init => TypeOK
<1> SUFFICES ASSUME Init PROVE TypeOK
  OBVIOUS
<1>1. <<>> \in Seq(Nat) /\ <<>> \in Seq(Message)
  BY EmptySeq
<1>2. wire \in Seq(Message)
  BY <1>1 DEF Init
<1>3. snap \in [Queries -> Seq(Nat)] /\ items \in [Callers -> Seq(Nat)]
  BY <1>1 DEF Init
<1>4. /\ pc \in [Callers -> Steps] /\ op \in [Callers -> Ops]
      /\ status \in [Callers -> Statuses]
      /\ mine \in [Callers -> Nat] /\ want \in [Callers -> Nat]
  BY DEF Init, Steps, Ops, Statuses
<1>5. sync \in 0..2 /\ reqID \in Nat /\ connects \in Nat
  BY DEF Init
<1>6. /\ started \in BOOLEAN /\ api \in BOOLEAN /\ online \in BOOLEAN
      /\ finishing \in BOOLEAN /\ crashed \in BOOLEAN
  BY DEF Init
<1>7. blame \subseteq {"timeout", "relogin"}
  BY DEF Init
<1> QED
  BY <1>2, <1>3, <1>4, <1>5, <1>6, <1>7 DEF TypeOK

(* The answers of the front are sequences of messages.                     *)
LEMMA DataAnswerType ==
  ASSUME NEW q \in Queries, NEW id \in Nat, NEW n \in Nat
  PROVE  /\ DataAnswer(q, id, n) \in Seq(Message)
         /\ Len(DataAnswer(q, id, n)) = IF n = 0 THEN 1 ELSE n
         /\ n = 0 => DataAnswer(q, id, n)[1] =
                       [kind |-> q, id |-> id, body |-> "empty", last |-> TRUE]
         /\ \A i \in 1..n : DataAnswer(q, id, n)[i] =
                       [kind |-> q, id |-> id, body |-> "data", last |-> i = n]
<1>1. CASE n = 0
  <2> DEFINE m == [kind |-> q, id |-> id, body |-> "empty", last |-> TRUE]
  <2>1. m \in Message
    BY DEF Message
  <2>2. DataAnswer(q, id, n) = <<m>>
    BY <1>1 DEF DataAnswer
  <2> HIDE DEF m
  <2>3. <<m>> \in Seq(Message) /\ Len(<<m>>) = 1 /\ <<m>>[1] = m
    BY <2>1
  <2>4. 1..n = {}
    BY <1>1
  <2>5. /\ DataAnswer(q, id, n) \in Seq(Message) /\ Len(DataAnswer(q, id, n)) = 1
        /\ DataAnswer(q, id, n)[1] = m
    BY <2>2, <2>3
  <2> QED
    BY <1>1, <2>4, <2>5 DEF m
<1>2. CASE n # 0
  <2> DEFINE m(i) == [kind |-> q, id |-> id, body |-> "data", last |-> i = n]
             s == [i \in 1..n |-> m(i)]
  <2>1. \A i \in 1..n : m(i) \in Message
    BY DEF Message
  <2>2. DataAnswer(q, id, n) = s
    BY <1>2 DEF DataAnswer
  <2> HIDE DEF m
  <2>3. s \in [1..n -> Message] /\ \A i \in 1..n : s[i] = m(i)
    BY <2>1
  <2> HIDE DEF s
  <2>4. s \in Seq(Message) /\ Len(s) = n
    BY <2>3, IsASeq, SeqDef, LenProperties
  <2> QED
    BY <1>2, <2>2, <2>3, <2>4 DEF m
<1> QED
  BY <1>1, <1>2

LEMMA ErrorAnswerType ==
  ASSUME NEW k \in Queries, NEW id \in Nat
  PROVE  /\ ErrorAnswer(k, id) \in Seq(Message) /\ Len(ErrorAnswer(k, id)) = 1
         /\ ErrorAnswer(k, id)[1] =
              [kind |-> k, id |-> id, body |-> "error", last |-> TRUE]
<1> DEFINE m == [kind |-> k, id |-> id, body |-> "error", last |-> TRUE]
<1>1. m \in Message
  BY DEF Message
<1>2. ErrorAnswer(k, id) = <<m>>
  BY DEF ErrorAnswer
<1> HIDE DEF m
<1>3. <<m>> \in Seq(Message) /\ Len(<<m>>) = 1 /\ <<m>>[1] = m
  BY <1>1
<1> QED
  BY <1>2, <1>3 DEF m

(* The parts of TypeOK that the two threads change: a step that keeps them *)
(* and leaves the rest alone keeps TypeOK.                                 *)
CallerTypes ==
  /\ pc \in [Callers -> Steps] /\ op \in [Callers -> Ops]
  /\ status \in [Callers -> Statuses] /\ items \in [Callers -> Seq(Nat)]
  /\ mine \in [Callers -> Nat] /\ want \in [Callers -> Nat]

LEMMA CallerMoves ==
  ASSUME CallerTypes, NEW c \in Callers, NEW o \in Ops, NEW step \in Steps,
         NEW st \in Statuses, NEW l \in Seq(Nat),
         Return(c, o, st, l) \/ Goto(c, step) \/ Begin(c, o, step)
  PROVE  CallerTypes'
<1>1. <<>> \in Seq(Nat)
  BY EmptySeq
<1>2. CASE Return(c, o, st, l)
  BY <1>2 DEF Return, CallerTypes, Steps
<1>3. CASE Goto(c, step)
  BY <1>3 DEF Goto, CallerTypes
<1>4. CASE Begin(c, o, step)
  BY <1>1, <1>4 DEF Begin, CallerTypes, Statuses
<1> QED
  BY <1>2, <1>3, <1>4

LEMMA CallTypes ==
  ASSUME TypeOK, NEW c \in Callers, Call(c)
  PROVE  TypeOK'
<1>1. <<>> \in Seq(Nat) /\ CallerTypes
  BY EmptySeq DEF TypeOK, CallerTypes
<1>2. CallerTypes'
  <2>1. CASE CallStart(c)
    BY <1>1, <2>1, CallerMoves DEF CallStart, Ops, Steps, Statuses
  <2>2. CASE CallStop(c)
    BY <1>1, <2>2, CallerMoves DEF CallStop, Ops, Steps, Statuses
  <2>3. ASSUME NEW q \in Queries, CallQuery(c, q) PROVE CallerTypes'
    BY <1>1, <2>3, CallerMoves DEF CallQuery, Ops, Steps, Statuses
  <2> QED
    BY <2>1, <2>2, <2>3 DEF Call
<1>3. UNCHANGED <<started, sync, reqID, api, snap, frontVars, crashed, blame>>
  BY DEF Call, CallStart, CallStop, CallQuery
<1> QED
  BY <1>2, <1>3 DEF TypeOK, CallerTypes, frontVars

(* Only a query sends: the message it sends names its query.               *)
Sending == \A c \in Callers : pc[c] = "send" => op[c] \in Queries

LEMMA ContinueTypes ==
  ASSUME TypeOK, Sending, NEW c \in Callers, Continue(c)
  PROVE  TypeOK'
<1>1. /\ <<>> \in Seq(Nat) /\ <<>> \in Seq(Message)
      /\ CallerTypes /\ op[c] \in Ops
  BY EmptySeq DEF TypeOK, CallerTypes
<1>2. CASE Crash
  BY <1>2 DEF Crash, TypeOK, callerVars, frontVars
<1>3. CASE Check(c) /\ ~Crash
  <2>1. CallerTypes'
    BY <1>1, <1>3, CallerMoves DEF Check, Steps, Statuses
  <2> QED
    BY <1>3, <2>1 DEF Check, TypeOK, CallerTypes, frontVars
<1>4. CASE MarkStart(c)
  <2>1. CallerTypes'
    BY <1>1, <1>4, CallerMoves DEF MarkStart, Steps, Statuses
  <2> QED
    BY <1>4, <2>1 DEF MarkStart, TypeOK, CallerTypes, frontVars
<1>5. CASE InitApi(c)
  <2>1. CallerTypes'
    BY <1>1, <1>5, CallerMoves DEF InitApi, Steps, Statuses
  <2> QED
    BY <1>5, <2>1 DEF InitApi, TypeOK, CallerTypes
<1>6. CASE MarkQuery(c)
  <2>1. CallerTypes'
    BY <1>1, <1>6, CallerMoves DEF MarkQuery, Steps, Statuses
  <2>2. snap' \in [Queries -> Seq(Nat)]
    BY <1>1, <1>6 DEF MarkQuery, TypeOK
  <2> QED
    BY <1>6, <2>1, <2>2 DEF MarkQuery, TypeOK, CallerTypes, frontVars
<1>7. CASE SendQuery(c) /\ ~Crash
  <2>1. op[c] \in Queries /\ reqID' \in Nat /\ reqID' = reqID + 1
    BY <1>7 DEF SendQuery, At, TypeOK, Sending
  <2>2. wire' \in Seq(Message) /\ want' \in [Callers -> Nat]
    <3>1. ASSUME NEW n \in 0..MaxItems, wire' = wire \o DataAnswer(op[c], reqID', n),
                 want' = [want EXCEPT ![c] = n]
          PROVE  wire' \in Seq(Message) /\ want' \in [Callers -> Nat]
      <4>1. n \in Nat
        BY TdAssumption
      <4>2. DataAnswer(op[c], reqID', n) \in Seq(Message)
        BY <2>1, <4>1, DataAnswerType
      <4>3. wire' \in Seq(Message)
        BY <3>1, <4>2, ConcatProperties DEF TypeOK
      <4> QED
        BY <3>1, <4>1, <4>3 DEF TypeOK
    <3>2. ASSUME wire' = wire \o ErrorAnswer(op[c], reqID')
          PROVE  wire' \in Seq(Message)
      BY <2>1, <3>2, ErrorAnswerType, ConcatProperties DEF TypeOK
    <3>3. \/ \E n \in 0..MaxItems : /\ wire' = wire \o DataAnswer(op[c], reqID', n)
                                     /\ want' = [want EXCEPT ![c] = n]
          \/ wire' = wire \o ErrorAnswer(op[c], reqID') /\ UNCHANGED want
          \/ UNCHANGED <<wire, want>>
      BY <1>7 DEF SendQuery
    <3> QED
      BY <3>1, <3>2, <3>3 DEF TypeOK
  <2>3. CallerTypes'
    <3>1. /\ mine' = [mine EXCEPT ![c] = reqID'] /\ pc' = [pc EXCEPT ![c] = "poll"]
          /\ UNCHANGED <<op, status, items>>
      BY <1>7 DEF SendQuery
    <3>2. mine' \in [Callers -> Nat] /\ pc' \in [Callers -> Steps]
      BY <2>1, <3>1 DEF TypeOK, Steps
    <3> QED
      BY <2>2, <3>1, <3>2 DEF TypeOK, CallerTypes
  <2> QED
    BY <1>7, <2>1, <2>2, <2>3 DEF SendQuery, TypeOK, CallerTypes
<1>8. CASE PollHit(c)
  <2>1. (IF op[c] \in Queries THEN snap[op[c]] ELSE <<>>) \in Seq(Nat)
    BY <1>1 DEF TypeOK
  <2>2. CallerTypes'
    BY <1>1, <1>8, <2>1, CallerMoves DEF PollHit, Steps, Statuses
  <2> QED
    BY <1>8, <2>2 DEF PollHit, TypeOK, CallerTypes, frontVars
<1>9. CASE PollTimeout(c)
  <2>1. CallerTypes'
    BY <1>1, <1>9, CallerMoves DEF PollTimeout, Steps, Statuses
  <2> QED
    BY <1>9, <2>1 DEF PollTimeout, TypeOK, CallerTypes, frontVars
<1>10. CASE Release(c) /\ ~Crash
  <2>1. CallerTypes'
    BY <1>1, <1>10, CallerMoves DEF Release, Steps, Statuses
  <2> QED
    BY <1>1, <1>10, <2>1 DEF Release, TypeOK, CallerTypes
<1>11. CASE Reset(c)
  <2>1. CallerTypes'
    BY <1>1, <1>11, CallerMoves DEF Reset, Steps, Statuses, Ops
  <2>2. reqID' = 0 /\ sync' = 0 /\ started' = FALSE
    BY <1>11 DEF Reset
  <2>3. reqID' \in Nat /\ sync' \in 0..2
    BY <2>2
  <2> QED
    BY <1>11, <2>1, <2>2, <2>3 DEF Reset, TypeOK, CallerTypes, frontVars
<1> QED
  BY <1>2, <1>3, <1>4, <1>5, <1>6, <1>7, <1>8, <1>9, <1>10, <1>11 DEF Continue

LEMMA CtpTypes ==
  ASSUME TypeOK, Ctp
  PROVE  TypeOK'
<1>1. <<>> \in Seq(Message) /\ reqID + 1 \in Nat
  BY EmptySeq DEF TypeOK
<1>2. ASSUME NEW k, Arrives(k)
      PROVE  Head(wire) \in Message /\ Tail(wire) \in Seq(Message)
  BY <1>2, HeadTailProperties DEF Arrives, TypeOK
<1>3. CASE OnFrontConnected
  <2>1. ASSUME NEW b \in {"empty", "error"}
        PROVE  <<[kind |-> "login", id |-> reqID', body |-> b, last |-> TRUE]>>
                 \in Seq(Message)
    <3>1. [kind |-> "login", id |-> reqID', body |-> b, last |-> TRUE] \in Message
      BY <1>1, <1>3, <2>1 DEF OnFrontConnected, Message
    <3> QED
      BY <3>1
  <2>2. wire' \in Seq(Message)
    BY <1>1, <1>3, <2>1 DEF OnFrontConnected
  <2>3. connects' \in Nat /\ reqID' \in Nat
    BY <1>1, <1>3 DEF OnFrontConnected, TypeOK
  <2> QED
    BY <1>3, <2>2, <2>3 DEF OnFrontConnected, TypeOK, callerVars
<1>4. CASE OnFrontDisconnected
  BY <1>1, <1>4 DEF OnFrontDisconnected, TypeOK, callerVars
<1>5. CASE OnRspUserLogin
  <2>1. Tail(wire) \in Seq(Message)
    BY <1>2, <1>5 DEF OnRspUserLogin
  <2>2. ASSUME NEW b \in {"empty", "error"}, reqID' \in Nat
        PROVE  Append(Tail(wire), [kind |-> "confirm", id |-> reqID', body |-> b,
                                   last |-> TRUE]) \in Seq(Message)
    <3>1. [kind |-> "confirm", id |-> reqID', body |-> b, last |-> TRUE] \in Message
      BY <2>2 DEF Message
    <3> QED
      BY <2>1, <3>1, AppendProperties
  <2>3. reqID' \in Nat
    BY <1>1, <1>5 DEF OnRspUserLogin, TypeOK
  <2>4. wire' \in Seq(Message)
    BY <1>5, <2>1, <2>2, <2>3 DEF OnRspUserLogin
  <2> QED
    BY <1>5, <2>3, <2>4 DEF OnRspUserLogin, TypeOK, callerVars
<1>6. CASE OnRspSettlementInfoConfirm
  <2>1. Tail(wire) \in Seq(Message)
    BY <1>2, <1>6 DEF OnRspSettlementInfoConfirm
  <2>2. sync' \in 0..2
    BY <1>6 DEF OnRspSettlementInfoConfirm, TypeOK
  <2>3. blame' \subseteq {"timeout", "relogin"}
    BY <1>6 DEF OnRspSettlementInfoConfirm, TypeOK
  <2> QED
    BY <1>6, <2>1, <2>2, <2>3 DEF OnRspSettlementInfoConfirm, TypeOK, callerVars
<1>7. ASSUME NEW q \in Queries, OnRspQuery(q) PROVE TypeOK'
  <2>1. Head(wire) \in Message /\ Tail(wire) \in Seq(Message)
    BY <1>2, <1>7 DEF OnRspQuery
  <2>2. Head(wire).id \in Nat /\ Head(wire).last \in BOOLEAN
    BY <2>1 DEF Message
  <2>3. snap' \in [Queries -> Seq(Nat)]
    <3>1. Append(snap[q], Head(wire).id) \in Seq(Nat)
      BY <2>2, AppendProperties DEF TypeOK
    <3>2. snap' = snap \/ snap' = [snap EXCEPT ![q] = Append(snap[q], Head(wire).id)]
      BY <1>7 DEF OnRspQuery
    <3> QED
      BY <3>1, <3>2 DEF TypeOK
  <2>4. finishing' \in BOOLEAN
    BY <1>7, <2>2 DEF OnRspQuery, TypeOK
  <2>5. sync' \in 0..2
    BY <1>7 DEF OnRspQuery, TypeOK
  <2> QED
    BY <1>7, <2>1, <2>3, <2>4, <2>5 DEF OnRspQuery, TypeOK, callerVars
<1>8. CASE FinishQuery
  <2>1. sync' \in 0..2 /\ finishing' = FALSE
    BY <1>8 DEF FinishQuery
  <2> QED
    BY <1>8, <2>1 DEF FinishQuery, TypeOK, callerVars
<1> QED
  BY <1>3, <1>4, <1>5, <1>6, <1>7, <1>8 DEF Ctp

LEMMA SendingStep ==
  ASSUME TypeOK, Sending, Next
  PROVE  Sending'
<1>1. ASSUME NEW c \in Callers, Call(c) PROVE Sending'
  BY <1>1 DEF Call, CallStart, CallQuery, CallStop, Begin, Return, TypeOK, Sending
<1>2. ASSUME NEW c \in Callers, Continue(c) PROVE Sending'
  <2>1. CASE Check(c) \/ Release(c)
    BY <2>1 DEF Check, Release, Crash, Goto, callerVars, TypeOK, Sending
  <2>2. CASE MarkStart(c) \/ InitApi(c) \/ MarkQuery(c)
    BY <2>2 DEF MarkStart, InitApi, MarkQuery, Goto, TypeOK, Sending
  <2>3. CASE SendQuery(c)
    BY <2>3 DEF SendQuery, Crash, callerVars, TypeOK, Sending
  <2>4. CASE PollHit(c) \/ PollTimeout(c) \/ Reset(c)
    BY <2>4 DEF PollHit, PollTimeout, Reset, Return, TypeOK, Sending
  <2> QED
    BY <1>2, <2>1, <2>2, <2>3, <2>4 DEF Continue
<1>3. CASE Ctp
  <2>1. UNCHANGED callerVars
    BY <1>3 DEF Ctp, OnFrontConnected, OnFrontDisconnected, OnRspUserLogin,
                OnRspSettlementInfoConfirm, OnRspQuery, FinishQuery
  <2> QED
    BY <2>1 DEF callerVars, Sending
<1> QED
  BY <1>1, <1>2, <1>3 DEF Next

LEMMA TypesStep == TypeOK /\ Sending /\ [Next]_vars => TypeOK' /\ Sending'
<1> SUFFICES ASSUME TypeOK, Sending, [Next]_vars PROVE TypeOK' /\ Sending'
  OBVIOUS
<1>1. CASE Next
  BY <1>1, CallTypes, ContinueTypes, CtpTypes, SendingStep DEF Next
<1>2. CASE UNCHANGED vars
  BY <1>2 DEF vars, callerVars, frontVars, TypeOK, Sending
<1> QED
  BY <1>1, <1>2

LEMMA InitSending == Init => Sending
  BY DEF Init, Sending

(* The shape of the session, for any callers and bounds.                   *)
THEOREM TypeCorrect == Spec => []TypeOK
<1> QED
  BY InitTypes, InitSending, TypesStep, PTL DEF Spec

-----------------------------------------------------------------------------
(* One thread uses the API.                                                *)

OneCaller == \E c : Callers = {c}

(* CTP's thread lives while tdApi does, and a stopped session is free.     *)
Session ==
  /\ api => started
  /\ ~api => ~online /\ wire = <<>> /\ ~finishing
  /\ ~started => sync = 0

(* How the steps of the call follow started, tdApi and sync_status; and    *)
(* that after a timeout the session admits no call but td_stop.            *)
LifeOf(c) ==
  /\ pc[c] \in {"init", "reset"} <=> started /\ ~api
  /\ pc[c] = "init" => op[c] = "start"
  /\ pc[c] \in {"release", "reset"} => op[c] = "stop" /\ started
  /\ pc[c] \in {"check", "mark"} => op[c] # "stop" /\ (started <=> op[c] # "start")
  /\ pc[c] \in {"send", "poll"} => op[c] # "stop" /\ started
  /\ pc[c] \in {"init", "send", "poll"} => sync # 0
  /\ pc[c] \in {"check", "mark", "init", "send"} => want[c] = 0
  /\ "timeout" \in blame /\ started =>
       sync # 0 /\ pc[c] \in {"idle", "release", "reset"}

Life == TypeOK /\ Sending /\ Session /\ \A c \in Callers : LifeOf(c)

LEMMA InitLife == Init => Life
<1> SUFFICES ASSUME Init PROVE Life
  OBVIOUS
<1>1. TypeOK /\ Sending
  BY InitTypes, InitSending
<1>2. Session
  BY DEF Init, Session
<1>3. ASSUME NEW c \in Callers PROVE LifeOf(c)
  BY DEF Init, LifeOf
<1> QED
  BY <1>1, <1>2, <1>3 DEF Life

LEMMA SessionStep == Life /\ Next => Session'
<1> SUFFICES ASSUME Life, Next PROVE Session'
  OBVIOUS
<1> USE DEF Life, Session, frontVars
<1>1. ASSUME NEW c \in Callers, Call(c) PROVE Session'
  BY <1>1 DEF Call, CallStart, CallQuery, CallStop
<1>2. ASSUME NEW c \in Callers, Continue(c) PROVE Session'
  <2> USE DEF At
  <2>0. LifeOf(c)
    OBVIOUS
  <2>1. CASE Crash
    BY <2>1 DEF Crash
  <2>2. CASE Check(c) /\ ~Crash
    BY <2>2 DEF Check
  <2>3. CASE MarkStart(c)
    BY <2>0, <2>3 DEF MarkStart, LifeOf
  <2>4. CASE InitApi(c)
    BY <2>0, <2>4 DEF InitApi, LifeOf
  <2>5. CASE MarkQuery(c)
    BY <2>0, <2>5 DEF MarkQuery, LifeOf, Queries
  <2>6. CASE SendQuery(c) /\ ~Crash
    BY <2>0, <2>6 DEF SendQuery, LifeOf
  <2>7. CASE PollHit(c) \/ PollTimeout(c)
    BY <2>0, <2>7 DEF PollHit, PollTimeout, LifeOf
  <2>8. CASE Release(c) /\ ~Crash
    BY <2>0, <2>8 DEF Release, LifeOf
  <2>9. CASE Reset(c)
    BY <2>0, <2>9 DEF Reset, LifeOf
  <2> QED
    BY <1>2, <2>1, <2>2, <2>3, <2>4, <2>5, <2>6, <2>7, <2>8, <2>9 DEF Continue
<1>3. CASE Ctp
  BY <1>3 DEF Ctp, OnFrontConnected, OnFrontDisconnected, OnRspUserLogin,
              OnRspSettlementInfoConfirm, OnRspQuery, FinishQuery, CtpRuns, Arrives
<1> QED
  BY <1>1, <1>2, <1>3 DEF Next

LEMMA LifeStep ==
  ASSUME OneCaller, NEW c \in Callers, Life, Next
  PROVE  LifeOf(c)'
<1> USE DEF frontVars
<1>1. /\ TypeOK /\ Session /\ Sending /\ LifeOf(c)
      /\ pc[c] \in Steps /\ op[c] \in Ops
  BY DEF Life, TypeOK
<1>2. CASE Call(c)
  <2>1. CASE CallStart(c)
    BY <1>1, <2>1 DEF CallStart, Begin, Return, At, LifeOf, Session, TypeOK, Ops, Queries
  <2>2. ASSUME NEW q \in Queries, CallQuery(c, q) PROVE LifeOf(c)'
    BY <1>1, <2>2 DEF CallQuery, Begin, Return, At, LifeOf, Session, TypeOK, Ops, Queries
  <2>3. CASE CallStop(c)
    BY <1>1, <2>3 DEF CallStop, Begin, Return, At, LifeOf, Session, TypeOK, Ops, Queries
  <2> QED
    BY <1>2, <2>1, <2>2, <2>3 DEF Call
<1>3. CASE Continue(c)
  <2> USE DEF At
  <2>1. CASE Crash
    BY <1>1, <2>1 DEF Crash, callerVars, LifeOf
  <2>2. CASE Check(c) /\ ~Crash
    BY <1>1, <2>2 DEF Check, Goto, LifeOf, TypeOK
  <2>3. CASE MarkStart(c)
    BY <1>1, <2>3 DEF MarkStart, Goto, LifeOf, Session, TypeOK
  <2>4. CASE InitApi(c)
    BY <1>1, <2>4 DEF InitApi, Goto, LifeOf, TypeOK
  <2>5. CASE MarkQuery(c)
    BY <1>1, <2>5 DEF MarkQuery, Goto, LifeOf, TypeOK, Queries
  <2>6. CASE SendQuery(c) /\ ~Crash
    BY <1>1, <2>6 DEF SendQuery, LifeOf, Sending, TypeOK, Queries
  <2>7. CASE PollHit(c)
    BY <1>1, <2>7 DEF PollHit, Return, LifeOf, TypeOK
  <2>8. CASE PollTimeout(c)
    BY <1>1, <2>8 DEF PollTimeout, Return, LifeOf, TypeOK
  <2>9. CASE Release(c) /\ ~Crash
    BY <1>1, <2>9 DEF Release, Goto, LifeOf, TypeOK
  <2>10. CASE Reset(c)
    BY <1>1, <2>10 DEF Reset, Return, LifeOf, TypeOK
  <2> QED
    BY <1>3, <2>1, <2>2, <2>3, <2>4, <2>5, <2>6, <2>7, <2>8, <2>9, <2>10 DEF Continue
<1>4. CASE Ctp
  BY <1>1, <1>4 DEF Ctp, OnFrontConnected, OnFrontDisconnected, OnRspUserLogin,
              OnRspSettlementInfoConfirm, OnRspQuery, FinishQuery, CtpRuns, Arrives,
              LifeOf, Session, callerVars
<1> QED
  BY <1>2, <1>3, <1>4 DEF Next, OneCaller

LEMMA LifeNext == OneCaller /\ Life /\ [Next]_vars => Life'
<1> SUFFICES ASSUME OneCaller, Life, [Next]_vars PROVE Life'
  OBVIOUS
<1>1. TypeOK' /\ Sending'
  BY TypesStep DEF Life
<1>2. CASE Next
  BY <1>1, <1>2, SessionStep, LifeStep DEF Life
<1>3. CASE UNCHANGED vars
  BY <1>1, <1>3 DEF vars, callerVars, frontVars, Life, Session, LifeOf
<1> QED
  BY <1>2, <1>3

-----------------------------------------------------------------------------
(* The answer to the query under way.                                      *)

(* Nothing of a query is on the wire, or in a callback.                    *)
NoneOnWire == \A k \in 1..Len(wire) : wire[k].kind \notin Queries
Quiet == ~finishing /\ NoneOnWire

(* The messages of queries on the wire are the last n of the answer to     *)
(* request id of query q: of an answer with items, or the one message that *)
(* carries none.                                                           *)
Rest(q, id, d, n) ==
  /\ d + n <= Len(wire)
  /\ \A k \in 1..Len(wire) : wire[k].kind \in Queries <=> (d < k /\ k <= d + n)
  /\ \A k \in d + 1 .. d + n : wire[k].kind = q /\ wire[k].id = id
                              /\ (wire[k].last <=> k = d + n)

Underway(c) ==
  \E d \in Nat, n \in Nat \ {0} :
    /\ Rest(op[c], mine[c], d, n)
    /\ \/ /\ \A k \in d + 1 .. d + n : wire[k].body = "data"
          /\ Len(snap[op[c]]) + n = want[c]
       \/ /\ n = 1 /\ wire[d + 1].body # "data"
          /\ want[c] = 0 /\ Len(snap[op[c]]) = 0

(* The list holds items of the caller's request only, and it is complete,  *)
(* about to be, or the answer was lost and sync_status stays 1.            *)
Answer(c) ==
  /\ \A i \in 1..Len(snap[op[c]]) : snap[op[c]][i] = mine[c]
  /\ \/ Quiet /\ sync = 1
     \/ Quiet /\ sync = 2 /\ Len(snap[op[c]]) = want[c]
     \/ finishing /\ NoneOnWire /\ sync = 1 /\ Len(snap[op[c]]) = want[c]
     \/ ~finishing /\ sync = 1 /\ Underway(c)

Complete(c) == /\ Len(items[c]) = want[c]
               /\ \A i \in 1..Len(items[c]) : items[c][i] = mine[c]

GoodOf(c) ==
  /\ pc[c] \in {"check", "mark"} => sync = 0
  /\ pc[c] = "idle" /\ "timeout" \notin blame => sync = 0
  /\ "timeout" \notin blame /\ (pc[c] # "poll" \/ op[c] = "start") => Quiet
  /\ pc[c] = "send" => sync = 1 /\ Len(snap[op[c]]) = 0
  /\ pc[c] = "poll" /\ op[c] \in Queries => Answer(c)
  /\ pc[c] = "idle" /\ op[c] \in Queries /\ status[c] = "OK" => Complete(c)

Good == /\ Life
        /\ "relogin" \in blame \/ (~crashed /\ \A c \in Callers : GoodOf(c))

LEMMA GoodParts ==
  ASSUME OneCaller, Good
  PROVE  OkIsComplete /\ BusyHasCause /\ CrashNeedsRelogin
<1>1. CASE "relogin" \in blame
  BY <1>1 DEF OkIsComplete, BusyHasCause, CrashNeedsRelogin
<1>2. CASE ~crashed /\ \A c \in Callers : GoodOf(c)
  <2>1. CrashNeedsRelogin
    BY <1>2 DEF CrashNeedsRelogin
  <2>2. BusyHasCause
    BY <1>2 DEF OneCaller, GoodOf, BusyHasCause
  <2>3. OkIsComplete
    <3>1. ASSUME NEW c \in Callers, Complete(c)
          PROVE  items[c] = [i \in 1..want[c] |-> mine[c]]
      <4>1. items[c] \in Seq(Nat) /\ DOMAIN items[c] = 1..Len(items[c])
        BY LenProperties DEF Good, Life, TypeOK
      <4> QED
        BY <3>1, <4>1, LenProperties DEF Complete
    <3> QED
      BY <1>2, <3>1 DEF GoodOf, OkIsComplete
  <2> QED
    BY <2>1, <2>2, <2>3
<1> QED
  BY <1>1, <1>2 DEF Good

LEMMA InitGood == Init => Good
<1> SUFFICES ASSUME Init PROVE Good
  OBVIOUS
<1>1. Life
  BY InitLife
<1>2. wire = <<>> /\ Len(wire) = 0
  BY EmptySeq DEF Init
<1>3. Quiet
  BY <1>2 DEF Init, Quiet, NoneOnWire
<1>4. ASSUME NEW c \in Callers PROVE GoodOf(c)
  BY <1>3 DEF Init, GoodOf, Queries
<1> QED
  BY <1>1, <1>4 DEF Init, Good

(* The first message has left the wire, and what came in belongs to no     *)
(* query.                                                                  *)
Shifted ==
  /\ Len(wire) \in Nat \ {0} /\ Len(wire') \in Nat /\ Len(wire') >= Len(wire) - 1
  /\ \A k \in 1..Len(wire) - 1 : wire'[k] = wire[k + 1]
  /\ \A k \in Len(wire)..Len(wire') : wire'[k].kind \notin Queries

LEMMA TailShifts ==
  ASSUME wire \in Seq(Message), wire # <<>>, NEW m \in Message, m.kind \notin Queries,
         wire' = Tail(wire) \/ wire' = Append(Tail(wire), m)
  PROVE  Shifted /\ Head(wire) = wire[1] /\ wire[1] \in Message
<1>1. /\ Len(wire) \in Nat \ {0} /\ Tail(wire) \in Seq(Message)
      /\ Len(Tail(wire)) = Len(wire) - 1
      /\ \A k \in 1..Len(wire) - 1 : Tail(wire)[k] = wire[k + 1]
  BY EmptySeq, HeadTailProperties
<1>2. Head(wire) = wire[1] /\ wire[1] \in Message
  BY <1>1, ElementOfSeq
<1>3. CASE wire' = Tail(wire)
  BY <1>1, <1>3 DEF Shifted
<1>4. CASE wire' = Append(Tail(wire), m)
  <2>1. /\ Len(wire') = Len(wire)
        /\ \A k \in 1..Len(wire) - 1 : wire'[k] = wire[k + 1]
        /\ wire'[Len(wire)] = m
    BY <1>1, <1>4, AppendProperties
  <2> QED
    BY <1>1, <2>1 DEF Shifted
<1> QED
  BY <1>2, <1>3, <1>4

LEMMA NoneShifts ==
  ASSUME Shifted, NoneOnWire
  PROVE  NoneOnWire'
<1> SUFFICES ASSUME NEW k \in 1..Len(wire') PROVE wire'[k].kind \notin Queries
  BY DEF NoneOnWire
<1>1. CASE k <= Len(wire) - 1
  BY <1>1 DEF Shifted, NoneOnWire
<1>2. CASE k >= Len(wire)
  BY <1>2 DEF Shifted
<1> QED
  BY <1>1, <1>2 DEF Shifted

(* The rest of an answer moves up by one place.                            *)
LEMMA RestShifts ==
  ASSUME Shifted, NEW q, NEW id, NEW d \in Nat \ {0}, NEW n \in Nat, Rest(q, id, d, n)
  PROVE  /\ Rest(q, id, d - 1, n)'
         /\ \A k \in d .. d - 1 + n : wire'[k] = wire[k + 1]
<1> DEFINE e == d - 1
<1>1. e \in Nat /\ d = e + 1
  OBVIOUS
<1>2. /\ d + n <= Len(wire)
      /\ \A k \in 1..Len(wire) : wire[k].kind \in Queries <=> (d < k /\ k <= d + n)
      /\ \A k \in d + 1 .. d + n : wire[k].kind = q /\ wire[k].id = id
                                  /\ (wire[k].last <=> k = d + n)
  BY DEF Rest
<1> HIDE DEF e
<1>3. e + n <= Len(wire')
  BY <1>1, <1>2 DEF Shifted
<1>4. ASSUME NEW k \in 1..Len(wire')
      PROVE  wire'[k].kind \in Queries <=> (e < k /\ k <= e + n)
  <2>1. CASE k <= Len(wire) - 1
    <3>1. k + 1 \in 1..Len(wire) /\ wire'[k] = wire[k + 1]
      BY <2>1 DEF Shifted
    <3>2. wire[k + 1].kind \in Queries <=> (d < k + 1 /\ k + 1 <= d + n)
      BY <1>2, <3>1
    <3> QED
      BY <1>1, <3>1, <3>2
  <2>2. CASE k >= Len(wire)
    <3>1. wire'[k].kind \notin Queries
      BY <2>2 DEF Shifted
    <3>2. ~(k <= e + n)
      BY <1>1, <1>2, <2>2 DEF Shifted
    <3> QED
      BY <3>1, <3>2
  <2> QED
    BY <2>1, <2>2 DEF Shifted
<1>5. ASSUME NEW k \in e + 1 .. e + n
      PROVE  /\ wire'[k].kind = q /\ wire'[k].id = id
             /\ (wire'[k].last <=> k = e + n) /\ wire'[k] = wire[k + 1]
  <2>1. k + 1 \in d + 1 .. d + n /\ k \in 1..Len(wire) - 1
    BY <1>1, <1>2 DEF Shifted
  <2>2. wire'[k] = wire[k + 1]
    BY <2>1 DEF Shifted
  <2>3. /\ wire[k + 1].kind = q /\ wire[k + 1].id = id
        /\ (wire[k + 1].last <=> k + 1 = d + n)
    BY <1>2, <2>1
  <2>4. k + 1 = d + n <=> k = e + n
    BY <1>1
  <2> QED
    BY <2>2, <2>3, <2>4
<1>6. Rest(q, id, e, n)'
  BY <1>3, <1>4, <1>5 DEF Rest
<1> QED
  BY <1>1, <1>5, <1>6 DEF e

LEMMA UnderwayShifts ==
  ASSUME Shifted, NEW c, Underway(c), wire[1].kind \notin Queries,
         UNCHANGED <<op, mine, snap, want>>
  PROVE  Underway(c)'
<1>1. PICK d \in Nat, n \in Nat \ {0} :
        /\ Rest(op[c], mine[c], d, n)
        /\ \/ /\ \A k \in d + 1 .. d + n : wire[k].body = "data"
              /\ Len(snap[op[c]]) + n = want[c]
           \/ /\ n = 1 /\ wire[d + 1].body # "data"
              /\ want[c] = 0 /\ Len(snap[op[c]]) = 0
  BY DEF Underway
<1>2. d # 0
  BY <1>1 DEF Rest, Shifted
<1>3. /\ Rest(op[c], mine[c], d - 1, n)'
      /\ \A k \in d .. d - 1 + n : wire'[k] = wire[k + 1]
  <2>1. PICK q, id : q = op[c] /\ id = mine[c]
    OBVIOUS
  <2>2. Rest(q, id, d, n)
    BY <1>1, <2>1 DEF Rest
  <2>3. /\ Rest(q, id, d - 1, n)'
        /\ \A k \in d .. d - 1 + n : wire'[k] = wire[k + 1]
    <3>1. d \in Nat \ {0} /\ n \in Nat
      BY <1>2
    <3> QED
      BY <2>2, <3>1, RestShifts
  <2>4. q = op'[c] /\ id = mine'[c]
    BY <2>1
  <2> QED
    BY <2>3, <2>4 DEF Rest
<1>4. \/ /\ \A k \in d - 1 + 1 .. d - 1 + n : wire'[k].body = "data"
         /\ Len(snap'[op'[c]]) + n = want'[c]
      \/ /\ n = 1 /\ wire'[d - 1 + 1].body # "data"
         /\ want'[c] = 0 /\ Len(snap'[op'[c]]) = 0
  <2>1. CASE /\ \A k \in d + 1 .. d + n : wire[k].body = "data"
             /\ Len(snap[op[c]]) + n = want[c]
    <3>1. ASSUME NEW k \in d .. d - 1 + n PROVE wire'[k].body = "data"
      <4>1. k + 1 \in d + 1 .. d + n
        OBVIOUS
      <4> QED
        BY <1>3, <2>1, <4>1
    <3>2. d - 1 + 1 = d
      OBVIOUS
    <3>3. Len(snap'[op'[c]]) + n = want'[c]
      BY <2>1
    <3> QED
      BY <3>1, <3>2, <3>3
  <2>2. CASE /\ n = 1 /\ wire[d + 1].body # "data"
             /\ want[c] = 0 /\ Len(snap[op[c]]) = 0
    <3>1. d - 1 + 1 = d /\ wire'[d] = wire[d + 1]
      BY <1>3, <2>2
    <3> QED
      BY <2>2, <3>1
  <2> QED
    BY <1>1, <2>1, <2>2
<1>5. d - 1 \in Nat
  BY <1>2
<1> QED
  BY <1>3, <1>4, <1>5 DEF Underway

(* What the caller does, while no login was confirmed that nobody waited   *)
(* for.                                                                    *)
LEMMA CallGood ==
  ASSUME Life, ~crashed, NEW c \in Callers, GoodOf(c), Call(c)
  PROVE  GoodOf(c)' /\ ~crashed'
<1> USE DEF Life, TypeOK, frontVars, Quiet, NoneOnWire
<1>1. CASE CallStart(c)
  BY <1>1 DEF CallStart, Return, Begin, At, GoodOf, Queries
<1>2. ASSUME NEW q \in Queries, CallQuery(c, q) PROVE GoodOf(c)' /\ ~crashed'
  BY <1>2 DEF CallQuery, Return, Begin, At, GoodOf
<1>3. CASE CallStop(c)
  BY <1>3 DEF CallStop, Return, Begin, At, GoodOf, Queries
<1> QED
  BY <1>1, <1>2, <1>3 DEF Call

(* a is the whole answer of w items to request id of query q.               *)
Whole(a, q, id, w) ==
  /\ a \in Seq(Message) /\ Len(a) \in Nat \ {0}
  /\ \A i \in 1..Len(a) : /\ a[i].kind = q /\ a[i].id = id
                          /\ (a[i].last <=> i = Len(a))
  /\ \/ (\A i \in 1..Len(a) : a[i].body = "data") /\ w = Len(a)
     \/ Len(a) = 1 /\ a[1].body # "data" /\ w = 0

LEMMA DataIsWhole ==
  ASSUME NEW q \in Queries, NEW id \in Nat, NEW n \in Nat
  PROVE  Whole(DataAnswer(q, id, n), q, id, n)
<1>1. PICK a : a = DataAnswer(q, id, n)
  OBVIOUS
<1>2. /\ a \in Seq(Message) /\ Len(a) = (IF n = 0 THEN 1 ELSE n)
      /\ n = 0 => a[1] = [kind |-> q, id |-> id, body |-> "empty", last |-> TRUE]
      /\ \A i \in 1..n : a[i] = [kind |-> q, id |-> id, body |-> "data", last |-> i = n]
  BY <1>1, DataAnswerType
<1>3. CASE n = 0
  <2>1. /\ a \in Seq(Message) /\ Len(a) = 1 /\ a[1].kind = q /\ a[1].id = id
        /\ a[1].last /\ a[1].body # "data"
    BY <1>2, <1>3
  <2>2. \A i \in 1..Len(a) : i = 1 /\ i = Len(a)
    BY <2>1
  <2>3. \A i \in 1..Len(a) : /\ a[i].kind = q /\ a[i].id = id
                            /\ (a[i].last <=> i = Len(a))
    BY <2>1, <2>2, Zenon
  <2>4. Len(a) \in Nat \ {0} /\ (Len(a) = 1 /\ a[1].body # "data" /\ n = 0)
    BY <1>3, <2>1
  <2> QED
    BY <1>1, <2>1, <2>3, <2>4, Zenon DEF Whole
<1>4. CASE n # 0
  <2>1. ASSUME NEW i \in 1..n
        PROVE  /\ a[i].kind = q /\ a[i].id = id /\ a[i].body = "data"
               /\ (a[i].last <=> i = n)
    <3>1. PICK b \in BOOLEAN : b <=> i = n
      OBVIOUS
    <3>2. a[i] = [kind |-> q, id |-> id, body |-> "data", last |-> b]
      BY <1>2, <3>1
    <3>3. a[i].kind = q /\ a[i].id = id /\ a[i].body = "data" /\ a[i].last = b
      BY <3>2
    <3> QED
      BY <3>1, <3>3
  <2>2. Len(a) = n /\ Len(a) \in Nat \ {0} /\ a \in Seq(Message)
    BY <1>2, <1>4
  <2> QED
    BY <1>1, <2>1, <2>2 DEF Whole
<1> QED
  BY <1>3, <1>4

LEMMA ErrorIsWhole ==
  ASSUME NEW q \in Queries, NEW id \in Nat
  PROVE  Whole(ErrorAnswer(q, id), q, id, 0)
<1>1. PICK a : a = ErrorAnswer(q, id)
  OBVIOUS
<1>2. /\ a \in Seq(Message) /\ Len(a) = 1
      /\ a[1] = [kind |-> q, id |-> id, body |-> "error", last |-> TRUE]
  BY <1>1, ErrorAnswerType
<1>3. a[1].kind = q /\ a[1].id = id /\ a[1].last /\ a[1].body # "data"
  BY <1>2
<1>4. \A i \in 1..1 : i = 1
  OBVIOUS
<1> QED
  BY <1>1, <1>2, <1>3, <1>4 DEF Whole

(* The request goes out and the front sends an answer, or none.            *)
LEMMA SendGood ==
  ASSUME Life, ~crashed, NEW c \in Callers, GoodOf(c), SendQuery(c)
  PROVE  GoodOf(c)' /\ ~crashed'
<1> USE DEF Life
<1>1. /\ pc[c] = "send" /\ op[c] \in Queries /\ started /\ api /\ sync = 1
      /\ want[c] = 0 /\ Len(snap[op[c]]) = 0 /\ "timeout" \notin blame
  BY DEF SendQuery, At, LifeOf, GoodOf, Sending
<1>2. /\ reqID' \in Nat /\ mine' = [mine EXCEPT ![c] = reqID']
      /\ pc' = [pc EXCEPT ![c] = "poll"]
      /\ UNCHANGED <<started, sync, api, snap, op, status, items, online,
                     finishing, connects, crashed, blame>>
  BY <1>1 DEF SendQuery, TypeOK
<1>3. mine'[c] = reqID' /\ pc'[c] = "poll" /\ op'[c] = op[c]
  BY <1>2 DEF TypeOK
<1>4. Quiet
  BY <1>1 DEF GoodOf
<1>5. wire \in Seq(Message) /\ Len(wire) \in Nat
  BY LenProperties DEF TypeOK
<1>6. \A i \in 1..Len(snap'[op'[c]]) : snap'[op'[c]][i] = mine'[c]
  BY <1>1, <1>2
<1>7. CASE UNCHANGED <<wire, want>>
  BY <1>1, <1>2, <1>3, <1>4, <1>6, <1>7 DEF GoodOf, Answer, Quiet, NoneOnWire
<1>8. PICK L \in Nat : L = Len(wire)
  BY <1>5
<1>9. ASSUME NEW a, wire' = wire \o a, Whole(a, op[c], reqID', want'[c])
      PROVE  GoodOf(c)'
  <2>0. PICK n \in Nat \ {0} :
          /\ a \in Seq(Message) /\ Len(a) = n
          /\ \A i \in 1..n : /\ a[i].kind = op[c] /\ a[i].id = reqID'
                            /\ (a[i].last <=> i = n)
          /\ \/ (\A i \in 1..n : a[i].body = "data") /\ want'[c] = n
             \/ n = 1 /\ a[1].body # "data" /\ want'[c] = 0
    BY <1>9 DEF Whole
  <2>1. /\ Len(wire') = L + n
        /\ \A k \in 1..L : wire'[k] = wire[k]
        /\ \A k \in L + 1 .. L + n : wire'[k] = a[k - L]
    <3>1. /\ Len(wire \o a) = Len(wire) + Len(a)
          /\ \A k \in 1..Len(wire) + Len(a) :
               (wire \o a)[k] = IF k <= Len(wire) THEN wire[k] ELSE a[k - Len(wire)]
      <4>1. wire \in Seq(Message) /\ a \in Seq(Message)
        BY <1>5, <2>0
      <4> HIDE DEF Life
      <4> QED
        BY <4>1, ConcatProperties
    <3>2. /\ Len(wire') = L + n
          /\ \A k \in 1..L + n : wire'[k] = IF k <= L THEN wire[k] ELSE a[k - L]
      BY <1>8, <1>9, <2>0, <3>1
    <3> QED
      BY <3>2
  <2>2. \A k \in L + 1 .. L + n : /\ wire'[k].kind = op[c] /\ wire'[k].id = reqID'
                                 /\ (wire'[k].last <=> k = L + n)
    <3>1. ASSUME NEW k \in L + 1 .. L + n
          PROVE  /\ wire'[k].kind = op[c] /\ wire'[k].id = reqID'
                 /\ (wire'[k].last <=> k = L + n)
      <4>1. k - L \in 1..n /\ (k - L = n <=> k = L + n)
        OBVIOUS
      <4>2. wire'[k] = a[k - L]
        BY <2>1
      <4> QED
        BY <2>0, <4>1, <4>2
    <3> QED
      BY <3>1
  <2>3. \A k \in 1..L + n : wire'[k].kind \in Queries <=> (L < k /\ k <= L + n)
    <3>1. ASSUME NEW k \in 1..L PROVE wire'[k].kind \notin Queries
      BY <1>4, <1>8, <2>1 DEF Quiet, NoneOnWire
    <3> QED
      BY <1>1, <2>2, <3>1
  <2>4. Rest(op[c], mine[c], L, n)'
    BY <1>3, <2>1, <2>2, <2>3 DEF Rest
  <2>5. \/ /\ \A k \in L + 1 .. L + n : wire'[k].body = "data"
           /\ Len(snap'[op'[c]]) + n = want'[c]
        \/ /\ n = 1 /\ wire'[L + 1].body # "data"
           /\ want'[c] = 0 /\ Len(snap'[op'[c]]) = 0
    <3>1. CASE (\A i \in 1..n : a[i].body = "data") /\ want'[c] = n
      <4>1. ASSUME NEW k \in L + 1 .. L + n PROVE wire'[k].body = "data"
        <5>1. k - L \in 1..n /\ wire'[k] = a[k - L]
          BY <2>1
        <5> QED
          BY <3>1, <5>1
      <4> QED
        BY <1>1, <1>2, <3>1, <4>1
    <3>2. CASE n = 1 /\ a[1].body # "data" /\ want'[c] = 0
      <4>1. wire'[L + 1] = a[1]
        BY <2>1, <3>2
      <4> QED
        BY <1>1, <1>2, <3>2, <4>1
    <3> QED
      BY <2>0, <3>1, <3>2
  <2>6. Underway(c)'
    BY <2>4, <2>5 DEF Underway
  <2>7. Answer(c)'
    BY <1>1, <1>2, <1>4, <1>6, <2>6 DEF Answer, Quiet
  <2> QED
    BY <1>1, <1>3, <2>7 DEF GoodOf, Queries
<1>10. ASSUME NEW n \in 0..MaxItems, wire' = wire \o DataAnswer(op[c], reqID', n),
              want' = [want EXCEPT ![c] = n]
       PROVE  GoodOf(c)'
  <2>1. n \in Nat /\ want'[c] = n
    BY <1>10, TdAssumption DEF TypeOK
  <2>2. Whole(DataAnswer(op[c], reqID', n), op[c], reqID', n)
    BY <1>1, <1>2, <2>1, DataIsWhole
  <2> QED
    BY <1>9, <1>10, <2>1, <2>2
<1>11. ASSUME wire' = wire \o ErrorAnswer(op[c], reqID'), UNCHANGED want
       PROVE  GoodOf(c)'
  <2>1. want'[c] = 0
    BY <1>1, <1>11
  <2>2. Whole(ErrorAnswer(op[c], reqID'), op[c], reqID', 0)
    BY <1>1, <1>2, ErrorIsWhole
  <2> QED
    BY <1>9, <1>11, <2>1, <2>2
<1>12. \/ \E n \in 0..MaxItems : /\ wire' = wire \o DataAnswer(op[c], reqID', n)
                                 /\ want' = [want EXCEPT ![c] = n]
       \/ wire' = wire \o ErrorAnswer(op[c], reqID') /\ UNCHANGED want
       \/ UNCHANGED <<wire, want>>
  BY <1>1 DEF SendQuery
<1> QED
  BY <1>2, <1>7, <1>10, <1>11, <1>12

(* td_start marks a new session: whatever ended the last one, nothing of   *)
(* it is on the wire.                                                      *)
LEMMA MarkGood ==
  ASSUME Life, NEW c \in Callers, MarkStart(c)
  PROVE  GoodOf(c)' /\ ~crashed'
<1>1. Quiet
  <2>1. ~started /\ ~api
    BY DEF Life, Session, LifeOf, MarkStart, At
  <2>2. wire = <<>> /\ ~finishing
    BY <2>1 DEF Life, Session
  <2>3. Len(wire) = 0
    BY <2>2, EmptySeq
  <2> QED
    BY <2>2, <2>3 DEF Quiet, NoneOnWire
<1>2. Quiet'
  BY <1>1 DEF MarkStart, frontVars, Quiet, NoneOnWire
<1>3. pc'[c] = "init" /\ op'[c] = "start"
  BY DEF MarkStart, Goto, Life, TypeOK, At
<1> QED
  BY <1>2, <1>3 DEF MarkStart, At, GoodOf

LEMMA ContinueGood ==
  ASSUME Life, ~crashed, NEW c \in Callers, GoodOf(c), Continue(c)
  PROVE  GoodOf(c)' /\ ~crashed'
<1>1. ASSUME UNCHANGED <<wire, finishing>> PROVE Quiet' <=> Quiet
  BY <1>1 DEF Quiet, NoneOnWire
<1>2. CASE Check(c)
  <2>1. CheckOk(c)
    BY <1>2 DEF Check, At, CheckOk, GoodOf, Life, LifeOf
  <2>2. /\ pc[c] = "check" /\ sync = 0 /\ pc'[c] = "mark"
        /\ UNCHANGED <<started, sync, op, wire, finishing, crashed, blame>>
    BY <1>2, <2>1 DEF Check, At, CheckOk, Goto, frontVars, Life, TypeOK
  <2> QED
    BY <1>1, <2>2 DEF GoodOf
<1>3. CASE InitApi(c)
  <2>1. /\ pc[c] = "init" /\ pc'[c] = "poll" /\ op'[c] = "start"
        /\ UNCHANGED <<wire, finishing, crashed, blame>>
    BY <1>3 DEF InitApi, At, Goto, Life, TypeOK, LifeOf
  <2> QED
    BY <1>1, <2>1 DEF GoodOf, Queries
<1>4. CASE MarkQuery(c)
  <2>1. /\ pc[c] = "mark" /\ op[c] \in Queries /\ pc'[c] = "send" /\ sync' = 1
        /\ snap' = [snap EXCEPT ![op[c]] = <<>>]
        /\ UNCHANGED <<op, wire, finishing, crashed, blame>>
    BY <1>4 DEF MarkQuery, At, Goto, frontVars, Life, TypeOK
  <2>2. Len(snap'[op'[c]]) = 0
    <3>1. snap'[op'[c]] = <<>>
      BY <2>1 DEF Life, TypeOK
    <3> QED
      BY <3>1, EmptySeq
  <2> QED
    BY <1>1, <2>1, <2>2 DEF GoodOf, Queries
<1>5. CASE PollHit(c)
  <2>1. /\ pc[c] = "poll" /\ sync = 2 /\ sync' = 0 /\ pc'[c] = "idle" /\ op'[c] = op[c]
        /\ op[c] \in Queries => items'[c] = snap[op[c]]
        /\ UNCHANGED <<wire, finishing, crashed, blame, mine, want>>
    BY <1>5 DEF PollHit, At, Return, frontVars, Life, TypeOK
  <2>2. CASE op[c] \in Queries
    <3>1. Quiet /\ Len(snap[op[c]]) = want[c]
          /\ \A i \in 1..Len(snap[op[c]]) : snap[op[c]][i] = mine[c]
      BY <2>1, <2>2 DEF GoodOf, Answer
    <3>2. Complete(c)'
      BY <2>1, <2>2, <3>1 DEF Complete
    <3> QED
      BY <1>1, <2>1, <3>1, <3>2 DEF GoodOf
  <2>3. CASE op[c] \notin Queries
    <3>1. op[c] = "start" /\ "timeout" \notin blame
      BY <2>1, <2>3 DEF Life, LifeOf, TypeOK, Ops
    <3> QED
      BY <1>1, <2>1, <2>3, <3>1 DEF GoodOf
  <2> QED
    BY <2>2, <2>3
<1>6. CASE PollTimeout(c)
  <2>1. /\ pc'[c] = "idle" /\ status'[c] = "TIMEOUT" /\ "timeout" \in blame'
        /\ UNCHANGED crashed
    BY <1>6 DEF PollTimeout, Return, Life, TypeOK
  <2> QED
    BY <2>1 DEF GoodOf
<1>7. CASE Release(c)
  <2>1. /\ pc[c] = "release" /\ api
    BY <1>7 DEF Release, At, Life, LifeOf
  <2>2. /\ pc'[c] = "reset" /\ ~finishing' /\ wire' = <<>> /\ UNCHANGED crashed
    BY <1>7, <2>1 DEF Release, Goto, Life, TypeOK
  <2>3. Quiet'
    BY <2>2, EmptySeq DEF Quiet, NoneOnWire
  <2> QED
    BY <2>2, <2>3 DEF GoodOf
<1>8. CASE Reset(c)
  <2>1. /\ pc[c] = "reset" /\ pc'[c] = "idle" /\ op'[c] = "stop" /\ sync' = 0
        /\ UNCHANGED <<wire, finishing, crashed, blame>>
    BY <1>8 DEF Reset, At, Return, frontVars, Life, TypeOK
  <2> QED
    BY <1>1, <2>1 DEF GoodOf, Queries
<1> QED
  BY <1>2, <1>3, <1>4, <1>5, <1>6, <1>7, <1>8, MarkGood, SendGood DEF Continue

(* What the front and the callbacks do.                                    *)

(* Messages that belong to no query come and go.                           *)
LEMMA FrontGood ==
  ASSUME NEW c, GoodOf(c), NoneOnWire => NoneOnWire',
         Underway(c) => Underway(c)' \/ NoneOnWire',
         UNCHANGED <<callerVars, sync, snap, finishing, blame>>
  PROVE  GoodOf(c)'
<1>1. Quiet => Quiet'
  BY DEF Quiet
<1>2. UNCHANGED <<pc, op, mine, status, items, want>>
  BY DEF callerVars
<1>3. Answer(c) => Answer(c)'
  BY <1>1, <1>2 DEF Answer, Quiet
<1>4. Complete(c) => Complete(c)'
  BY <1>2 DEF Complete
<1> QED
  BY <1>1, <1>2, <1>3, <1>4 DEF GoodOf

(* When a message of a query is on the wire or in a callback, a call waits *)
(* for it, or a timeout has ended the use of this session.                 *)
LEMMA Waiting ==
  ASSUME Life, NEW c \in Callers, GoodOf(c), api, ~Quiet
  PROVE  \/ "timeout" \in blame /\ pc[c] \in {"idle", "release", "reset"}
         \/ pc[c] = "poll" /\ op[c] \in Queries /\ Answer(c)
<1>1. started
  BY DEF Life, Session
<1>2. CASE "timeout" \in blame
  BY <1>1, <1>2 DEF Life, LifeOf
<1>3. CASE "timeout" \notin blame
  <2>1. pc[c] = "poll" /\ op[c] # "start"
    BY <1>3 DEF GoodOf
  <2>2. op[c] \in Queries
    BY <2>1 DEF Life, LifeOf, TypeOK, Ops
  <2> QED
    BY <2>1, <2>2 DEF GoodOf
<1> QED
  BY <1>2, <1>3

LEMMA QueryGood ==
  ASSUME Life, NEW c \in Callers, GoodOf(c), NEW q \in Queries, OnRspQuery(q)
  PROVE  GoodOf(c)'
<1>1. /\ api /\ ~finishing /\ wire \in Seq(Message) /\ wire # <<>>
      /\ Head(wire).kind = q /\ wire' = Tail(wire)
  BY DEF OnRspQuery, Arrives, CtpRuns, Life, TypeOK
<1>2. /\ Len(wire) \in Nat \ {0} /\ Len(wire') = Len(wire) - 1
      /\ \A k \in 1..Len(wire) - 1 : wire'[k] = wire[k + 1]
      /\ Head(wire) = wire[1] /\ wire[1] \in Message
  BY <1>1, EmptySeq, HeadTailProperties, ElementOfSeq
<1>3. ~Quiet
  BY <1>1, <1>2 DEF Quiet, NoneOnWire
<1>4. UNCHANGED <<pc, op, mine, status, items, want, blame>>
  BY DEF OnRspQuery, callerVars
<1>5. CASE "timeout" \in blame /\ pc[c] \in {"idle", "release", "reset"}
  BY <1>4, <1>5 DEF GoodOf, Complete
<1>6. CASE pc[c] = "poll" /\ op[c] \in Queries /\ Answer(c)
  <2>1. /\ \A i \in 1..Len(snap[op[c]]) : snap[op[c]][i] = mine[c]
        /\ sync = 1 /\ Underway(c)
    BY <1>1, <1>3, <1>6 DEF Answer
  <2>2. PICK d \in Nat, n \in Nat \ {0} :
          /\ Rest(op[c], mine[c], d, n)
          /\ \/ /\ \A k \in d + 1 .. d + n : wire[k].body = "data"
                /\ Len(snap[op[c]]) + n = want[c]
             \/ /\ n = 1 /\ wire[d + 1].body # "data"
                /\ want[c] = 0 /\ Len(snap[op[c]]) = 0
    BY <2>1 DEF Underway
  <2>3. d = 0
    BY <1>1, <1>2, <2>2 DEF Rest
  <2>4. /\ n <= Len(wire)
        /\ \A k \in 1..Len(wire) : wire[k].kind \in Queries <=> k <= n
        /\ \A k \in 1..n : wire[k].kind = op[c] /\ wire[k].id = mine[c]
                          /\ (wire[k].last <=> k = n)
    BY <2>2, <2>3 DEF Rest
  <2>5. q = op[c] /\ wire[1].id = mine[c] /\ (wire[1].last <=> n = 1)
    BY <1>1, <1>2, <2>4
  <2>6. SUFFICES Answer(c)'
    BY <1>4, <1>6 DEF GoodOf, Queries
  <2>7. ASSUME n = 1 PROVE NoneOnWire'
    <3> SUFFICES ASSUME NEW k \in 1..Len(wire') PROVE wire'[k].kind \notin Queries
      BY DEF NoneOnWire
    <3>1. k + 1 \in 1..Len(wire) /\ wire'[k] = wire[k + 1] /\ ~(k + 1 <= n)
      BY <1>2, <2>7
    <3> QED
      BY <2>4, <3>1
  <2>8. CASE wire[1].body = "data"
    <3>1. /\ snap' = [snap EXCEPT ![op[c]] = Append(snap[op[c]], mine[c])]
          /\ finishing' = wire[1].last /\ UNCHANGED sync
      BY <1>2, <2>5, <2>8 DEF OnRspQuery
    <3>2. PICK s, m, l : s = snap[op[c]] /\ m = mine[c] /\ l = Append(s, m)
      OBVIOUS
    <3>3. s \in Seq(Nat) /\ m \in Nat
      BY <1>6, <3>2 DEF Life, TypeOK
    <3>4. Len(s) \in Nat /\ \A i \in 1..Len(s) : s[i] = m
      BY <2>1, <3>2, <3>3, LenProperties
    <3>5. Len(l) = Len(s) + 1 /\ \A i \in 1..Len(l) : l[i] = m
      BY <3>2, <3>3, <3>4, AppendProperties
    <3>6. snap'[op'[c]] = l /\ mine'[c] = m
      BY <1>4, <1>6, <3>1, <3>2 DEF Life, TypeOK
    <3>7. /\ \A k \in 1..n : wire[k].body = "data"
          /\ Len(s) + n = want[c]
      BY <2>2, <2>3, <2>8, <3>2
    <3>8. finishing' <=> n = 1
      BY <2>5, <3>1, Zenon
    <3>9. CASE n = 1
      <4>1. Len(l) = want'[c]
        BY <1>4, <3>4, <3>5, <3>7, <3>9
      <4> QED
        BY <2>1, <2>7, <3>1, <3>5, <3>6, <3>8, <3>9, <4>1 DEF Answer
    <3>10. CASE n # 1
      <4>1. PICK r \in Nat \ {0} : n = r + 1
        <5>1. n - 1 \in Nat \ {0} /\ n = n - 1 + 1
          BY <3>10
        <5> QED
          BY <5>1
      <4>2. r <= Len(wire')
        BY <1>2, <2>4, <4>1
      <4>3. ASSUME NEW k \in 1..Len(wire')
            PROVE  /\ wire'[k].kind \in Queries <=> k <= r
                   /\ k <= r => /\ wire'[k].kind = op[c] /\ wire'[k].id = mine[c]
                                /\ (wire'[k].last <=> k = r)
                                /\ wire'[k].body = "data"
        <5>1. k + 1 \in 1..Len(wire) /\ wire'[k] = wire[k + 1]
          BY <1>2
        <5>2. (k <= r <=> k + 1 <= n) /\ (k = r <=> k + 1 = n)
          BY <4>1
        <5>3. k <= r => k + 1 \in 1..n
          BY <5>2
        <5> QED
          BY <2>4, <3>7, <5>1, <5>2, <5>3
      <4>4. Rest(op[c], mine[c], 0, r)'
        <5>1. /\ 0 + r <= Len(wire')
              /\ \A k \in 1..Len(wire') : wire'[k].kind \in Queries <=> (0 < k /\ k <= 0 + r)
          BY <4>2, <4>3
        <5>2. \A k \in 0 + 1 .. 0 + r : /\ wire'[k].kind = op[c] /\ wire'[k].id = mine[c]
                                        /\ (wire'[k].last <=> k = 0 + r)
          BY <1>2, <4>2, <4>3
        <5> QED
          BY <1>4, <5>1, <5>2 DEF Rest
      <4>5. /\ \A k \in 0 + 1 .. 0 + r : wire'[k].body = "data"
            /\ Len(snap'[op'[c]]) + r = want'[c]
        <5>1. \A k \in 0 + 1 .. 0 + r : wire'[k].body = "data"
          BY <1>2, <4>2, <4>3
        <5>2. Len(l) + r = want[c]
          BY <3>4, <3>5, <3>7, <4>1
        <5> QED
          BY <1>4, <3>6, <5>1, <5>2
      <4>6. Underway(c)'
        BY <4>4, <4>5 DEF Underway
      <4> QED
        BY <2>1, <3>1, <3>5, <3>6, <3>8, <3>10, <4>6 DEF Answer
    <3> QED
      BY <3>9, <3>10
  <2>9. CASE wire[1].body # "data"
    <3>1. n = 1 /\ want[c] = 0 /\ Len(snap[op[c]]) = 0
      BY <2>2, <2>3, <2>9
    <3>2. sync' = 2 /\ UNCHANGED <<snap, finishing>>
      BY <1>2, <2>5, <2>9, <3>1 DEF OnRspQuery
    <3> QED
      BY <1>1, <1>4, <2>1, <2>7, <3>1, <3>2 DEF Answer, Quiet
  <2> QED
    BY <2>8, <2>9
<1> QED
  BY <1>1, <1>3, <1>5, <1>6, Waiting

(* Only a confirmation nobody waited for can spoil the answer under way.   *)
LEMMA CtpGood ==
  ASSUME Life, NEW c \in Callers, Callers = {c}, ~crashed, GoodOf(c), Ctp
  PROVE  ~crashed' /\ ("relogin" \in blame' \/ GoodOf(c)')
<1>1. ~crashed' /\ UNCHANGED callerVars
  BY DEF Ctp, OnFrontConnected, OnFrontDisconnected, OnRspUserLogin,
         OnRspSettlementInfoConfirm, OnRspQuery, FinishQuery
<1>2. wire \in Seq(Message) /\ reqID + 1 \in Nat
  BY DEF Life, TypeOK
<1>3. UNCHANGED <<pc, op, mine, status, items, want>>
  BY <1>1 DEF callerVars
<1>4. CASE OnFrontConnected
  <2>1. NoneOnWire'
    <3>1. CASE wire' = <<>>
      BY <3>1, EmptySeq DEF NoneOnWire
    <3>2. ASSUME NEW m, wire' = <<m>>, m.kind = "login" PROVE NoneOnWire'
      <4>1. Len(<<m>>) = 1 /\ <<m>>[1] = m
        OBVIOUS
      <4> QED
        BY <3>2, <4>1 DEF NoneOnWire, Queries
    <3>3. ASSUME NEW b \in {"empty", "error"},
                 wire' = <<[kind |-> "login", id |-> reqID', body |-> b, last |-> TRUE]>>
          PROVE  NoneOnWire'
      BY <3>2, <3>3
    <3> QED
      BY <1>4, <3>1, <3>3 DEF OnFrontConnected
  <2>2. UNCHANGED <<callerVars, sync, snap, finishing, blame>>
    BY <1>4 DEF OnFrontConnected
  <2> QED
    BY <1>1, <2>1, <2>2, FrontGood
<1>5. CASE OnFrontDisconnected
  <2>1. NoneOnWire'
    BY <1>5, EmptySeq DEF OnFrontDisconnected, NoneOnWire
  <2>2. UNCHANGED <<callerVars, sync, snap, finishing, blame>>
    BY <1>5 DEF OnFrontDisconnected
  <2> QED
    BY <1>1, <2>1, <2>2, FrontGood
<1>6. ASSUME NEW m \in Message, m.kind \notin Queries, wire # <<>>,
             wire' = Tail(wire) \/ wire' = Append(Tail(wire), m),
             Head(wire).kind \notin Queries
      PROVE  /\ NoneOnWire => NoneOnWire'
             /\ Underway(c) /\ UNCHANGED <<op, mine, snap, want>> => Underway(c)'
  <2>1. Shifted /\ wire[1].kind \notin Queries
    BY <1>2, <1>6, TailShifts
  <2> QED
    BY <2>1, NoneShifts, UnderwayShifts
<1>7. CASE OnRspUserLogin
  <2>1. /\ wire # <<>> /\ Head(wire).kind \notin Queries
        /\ UNCHANGED <<callerVars, sync, snap, finishing, blame>>
    BY <1>7 DEF OnRspUserLogin, Arrives, Queries
  <2>2. PICK m \in Message : /\ m.kind \notin Queries
                             /\ wire' = Tail(wire) \/ wire' = Append(Tail(wire), m)
    <3>1. CASE wire' = Tail(wire)
      <4>1. Head(wire) \in Message
        BY <1>2, <2>1, HeadTailProperties
      <4> QED
        BY <2>1, <3>1, <4>1
    <3>2. ASSUME NEW b \in {"empty", "error"}, reqID' = reqID + 1,
                 wire' = Append(Tail(wire), [kind |-> "confirm", id |-> reqID',
                                             body |-> b, last |-> TRUE])
          PROVE  \E m \in Message : m.kind \notin Queries /\ wire' = Append(Tail(wire), m)
      <4> DEFINE m == [kind |-> "confirm", id |-> reqID', body |-> b, last |-> TRUE]
      <4>1. m \in Message
        BY <1>2, <3>2 DEF Message
      <4>2. m.kind \notin Queries
        BY DEF Queries
      <4> QED
        BY <3>2, <4>1, <4>2
    <3> QED
      BY <1>7, <3>1, <3>2 DEF OnRspUserLogin
  <2> QED
    BY <1>1, <1>3, <1>6, <2>1, <2>2, FrontGood
<1>8. CASE OnRspSettlementInfoConfirm
  <2>1. /\ wire # <<>> /\ Head(wire).kind \notin Queries /\ wire' = Tail(wire)
        /\ UNCHANGED <<callerVars, snap, finishing>>
    BY <1>8 DEF OnRspSettlementInfoConfirm, Arrives, Queries
  <2>2. Head(wire) \in Message
    BY <1>2, <2>1, HeadTailProperties
  <2>3. /\ NoneOnWire => NoneOnWire'
        /\ Underway(c) => Underway(c)'
    BY <1>3, <1>6, <2>1, <2>2
  <2>4. CASE Head(wire).body = "error"
    <3>1. UNCHANGED <<sync, blame>>
      BY <1>8, <2>4 DEF OnRspSettlementInfoConfirm
    <3> QED
      BY <1>1, <2>1, <2>3, <3>1, FrontGood
  <2>5. CASE Head(wire).body # "error" /\ Unexpected
    BY <1>1, <1>8, <2>5 DEF OnRspSettlementInfoConfirm
  <2>6. CASE Head(wire).body # "error" /\ ~Unexpected
    <3>1. UNCHANGED blame
      BY <1>8, <2>6 DEF OnRspSettlementInfoConfirm
    <3>2. op[c] = "start" /\ pc[c] = "poll"
      BY <2>6 DEF Unexpected
    <3>3. "timeout" \notin blame => Quiet'
      BY <2>1, <2>3, <3>2 DEF GoodOf, Quiet
    <3> QED
      BY <1>1, <1>3, <3>1, <3>2, <3>3 DEF GoodOf, Queries
  <2> QED
    BY <2>4, <2>5, <2>6
<1>9. CASE \E q \in Queries : OnRspQuery(q)
  BY <1>1, <1>9, QueryGood
<1>10. CASE FinishQuery
  <2>1. finishing /\ sync' = 2 /\ ~finishing' /\ UNCHANGED <<wire, snap, blame>>
    BY <1>10 DEF FinishQuery
  <2>2. api /\ ~Quiet
    BY <2>1 DEF Life, Session, Quiet
  <2>3. CASE "timeout" \in blame /\ pc[c] \in {"idle", "release", "reset"}
    BY <1>1, <1>3, <2>1, <2>3 DEF GoodOf, Complete
  <2>4. CASE pc[c] = "poll" /\ op[c] \in Queries /\ Answer(c)
    <3>1. /\ \A i \in 1..Len(snap[op[c]]) : snap[op[c]][i] = mine[c]
          /\ NoneOnWire /\ Len(snap[op[c]]) = want[c]
      BY <2>1, <2>2, <2>4 DEF Answer
    <3>2. NoneOnWire'
      BY <2>1, <3>1 DEF NoneOnWire
    <3>3. Answer(c)'
      BY <1>3, <2>1, <3>1, <3>2 DEF Answer, Quiet
    <3> QED
      BY <1>1, <1>3, <2>4, <3>3 DEF GoodOf, Queries
  <2> QED
    BY <2>2, <2>3, <2>4, Waiting
<1> QED
  BY <1>4, <1>5, <1>7, <1>8, <1>9, <1>10 DEF Ctp

LEMMA GoodNext == OneCaller /\ Good /\ [Next]_vars => Good'
<1> SUFFICES ASSUME OneCaller, Good, [Next]_vars PROVE Good'
  OBVIOUS
<1>1. Life /\ Life'
  BY LifeNext DEF Good
<1>2. PICK c \in Callers : Callers = {c}
  BY DEF OneCaller
<1>3. SUFFICES "relogin" \in blame' \/ (~crashed' /\ GoodOf(c)')
  BY <1>1, <1>2 DEF Good
<1>4. CASE MarkStart(c)
  BY <1>1, <1>4, MarkGood
<1>5. CASE "relogin" \in blame /\ ~MarkStart(c)
  <2>1. CASE Call(c)
    BY <1>5, <2>1 DEF Call, CallStart, CallQuery, CallStop
  <2>2. CASE Continue(c)
    BY <1>5, <2>2 DEF Continue, Check, InitApi, MarkQuery, SendQuery, PollHit,
                      PollTimeout, Release, Reset, Crash
  <2>3. CASE Ctp
    BY <1>5, <2>3 DEF Ctp, OnFrontConnected, OnFrontDisconnected, OnRspUserLogin,
                      OnRspSettlementInfoConfirm, OnRspQuery, FinishQuery
  <2>4. CASE UNCHANGED vars
    BY <1>5, <2>4 DEF vars
  <2> QED
    BY <1>2, <2>1, <2>2, <2>3, <2>4 DEF Next
<1>6. CASE ~crashed /\ GoodOf(c)
  <2>1. CASE Call(c)
    BY <1>1, <1>6, <2>1, CallGood
  <2>2. CASE Continue(c)
    BY <1>1, <1>6, <2>2, ContinueGood
  <2>3. CASE Ctp
    BY <1>1, <1>2, <1>6, <2>3, CtpGood
  <2>4. CASE UNCHANGED vars
    <3>1. UNCHANGED <<callerVars, sync, snap, finishing, blame, wire, crashed>>
      BY <2>4 DEF vars, frontVars
    <3>2. (NoneOnWire => NoneOnWire') /\ (Underway(c) => Underway(c)')
      BY <3>1 DEF NoneOnWire, Underway, Rest, callerVars
    <3> QED
      BY <1>6, <3>1, <3>2, FrontGood
  <2> QED
    BY <1>2, <2>1, <2>2, <2>3, <2>4 DEF Next
<1> QED
  BY <1>2, <1>4, <1>5, <1>6 DEF Good

(* A query that returns STATUS_OK hands over exactly the answer to its own *)
(* request, unless a login was confirmed that nobody waited for: for any   *)
(* number of items, requests and connections.                              *)
THEOREM AnswersAreComplete == ASSUME OneCaller PROVE Spec => []OkIsComplete
<1>1. Good => OkIsComplete
  BY GoodParts
<1> QED
  BY <1>1, InitGood, GoodNext, PTL DEF Spec

(* Between calls sync_status is 0, unless a call timed out or such a login *)
(* was confirmed in this session.                                          *)
THEOREM BusyIsExplained == ASSUME OneCaller PROVE Spec => []BusyHasCause
<1>1. Good => BusyHasCause
  BY GoodParts
<1> QED
  BY <1>1, InitGood, GoodNext, PTL DEF Spec

(* The CHECKs that open a call and the use of tdApi fail only after such a *)
(* login.                                                                  *)
THEOREM CrashesAreExplained == ASSUME OneCaller PROVE Spec => []CrashNeedsRelogin
<1>1. Good => CrashNeedsRelogin
  BY GoodParts
<1> QED
  BY <1>1, InitGood, GoodNext, PTL DEF Spec

(* After a timeout no call but td_stop returns STATUS_OK, whatever was     *)
(* confirmed in between.                                                   *)
SucceedsByStop ==
  \A c \in Callers : ("timeout" \in blame /\ status[c] # "OK" /\ status'[c] = "OK")
                       => op'[c] = "stop"

LEMMA TimeoutStep == OneCaller /\ Life /\ [Next]_vars => [SucceedsByStop]_vars
<1> SUFFICES ASSUME OneCaller, Life, Next,
                    NEW c \in Callers, "timeout" \in blame,
                    status[c] # "OK", status'[c] = "OK"
             PROVE  op'[c] = "stop"
  BY DEF SucceedsByStop
<1>1. TypeOK /\ LifeOf(c) /\ Session
  BY DEF Life
<1>2. CASE Call(c)
  BY <1>1, <1>2 DEF Call, CallStart, CallQuery, CallStop, Return, Begin, TypeOK
<1>3. CASE Continue(c)
  <2>1. CASE Check(c) \/ Release(c)
    BY <1>1, <2>1 DEF Check, Release, Crash, Goto, callerVars
  <2>2. CASE MarkStart(c) \/ InitApi(c) \/ MarkQuery(c)
    BY <2>2 DEF MarkStart, InitApi, MarkQuery, Goto
  <2>3. CASE SendQuery(c)
    BY <2>3 DEF SendQuery, Crash, callerVars
  <2>4. CASE PollHit(c)
    BY <1>1, <2>4 DEF PollHit, At, LifeOf
  <2>5. CASE PollTimeout(c)
    BY <1>1, <2>5 DEF PollTimeout, Return, TypeOK
  <2>6. CASE Reset(c)
    BY <1>1, <2>6 DEF Reset, Return, TypeOK
  <2> QED
    BY <1>3, <2>1, <2>2, <2>3, <2>4, <2>5, <2>6 DEF Continue
<1>4. CASE Ctp
  BY <1>4 DEF Ctp, OnFrontConnected, OnFrontDisconnected, OnRspUserLogin,
              OnRspSettlementInfoConfirm, OnRspQuery, FinishQuery, callerVars
<1> QED
  BY <1>2, <1>3, <1>4 DEF Next, OneCaller

THEOREM TimeoutsAreFatal == ASSUME OneCaller PROVE Spec => DeadUntilStop
<1>1. [SucceedsByStop]_vars <=>
      [\A c \in Callers :
         ("timeout" \in blame /\ status[c] # "OK" /\ status'[c] = "OK")
           => op'[c] = "stop"]_vars
  BY DEF SucceedsByStop
<1> QED
  BY <1>1, InitLife, LifeNext, TimeoutStep, PTL DEF Spec, DeadUntilStop
=============================================================================
