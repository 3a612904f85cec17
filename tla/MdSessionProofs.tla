-------------------------- MODULE MdSessionProofs --------------------------
(***************************************************************************)
(* Proofs about MdSession: its types and that the pool and the front       *)
(* agree, for any number of callers; and, for the one thread that uses the *)
(* API, what a failed CHECK and STATUS_OK of md_subscribe mean.            *)
(***************************************************************************)
EXTENDS MdSession, SequenceTheorems, TLAPS

-----------------------------------------------------------------------------
(* The elements of the pool when it grows.                                 *)

(* No element is there twice.                                              *)
Distinct(s) == \A i, j \in 1..Len(s) : s[i] = s[j] => i = j

(* The empty sequence has none.                                            *)
LEMMA ElementsOfEmpty == ToSet(<<>>) = {} /\ Distinct(<<>>)
  BY EmptySeq DEF ToSet, Distinct

(* Append adds its element.                                                *)
LEMMA ElementsOfAppend ==
  ASSUME NEW S, NEW s \in Seq(S), NEW e \in S
  PROVE  /\ ToSet(Append(s, e)) = ToSet(s) \cup {e}
         /\ Distinct(s) /\ e \notin ToSet(s) => Distinct(Append(s, e))
<1> DEFINE r == Append(s, e)
<1>1. /\ r \in Seq(S) /\ Len(r) = Len(s) + 1 /\ Len(s) \in Nat
      /\ \A i \in 1..Len(s) : r[i] = s[i]
      /\ r[Len(s) + 1] = e
  BY AppendProperties, LenProperties
<1>2. DOMAIN r = 1..Len(s) + 1 /\ DOMAIN s = 1..Len(s)
  BY <1>1, LenProperties
<1> HIDE DEF r
<1>3. ToSet(r) = ToSet(s) \cup {e}
  BY <1>1, <1>2 DEF ToSet
<1>4. ASSUME Distinct(s), e \notin ToSet(s) PROVE Distinct(r)
  BY <1>1, <1>2, <1>4 DEF Distinct, ToSet
<1> QED
  BY <1>3, <1>4 DEF r


-----------------------------------------------------------------------------
(* The pool: find and erase.                                               *)

(* Erasing takes one element away and leaves the others.                   *)
LEMMA ErasedProperties ==
  ASSUME NEW S, NEW s \in Seq(S), NEW i \in S, Distinct(s)
  PROVE  /\ Erased(s, i) \in Seq(S) /\ Distinct(Erased(s, i))
         /\ ToSet(Erased(s, i)) = ToSet(s) \ {i}
<1>1. Len(s) \in Nat /\ DOMAIN s = 1..Len(s)
  BY LenProperties
<1>2. CASE ~Contains(s, i)
  BY <1>1, <1>2 DEF Erased, Contains, ToSet
<1>3. CASE Contains(s, i)
  <2> DEFINE k == CHOOSE j \in DOMAIN s : s[j] = i
             r == RemoveAt(s, k)
  <2>1. k \in 1..Len(s) /\ s[k] = i /\ Erased(s, i) = r
    BY <1>1, <1>3 DEF Erased, Contains
  <2> HIDE DEF k
  <2> DEFINE a == SubSeq(s, 1, k - 1)
             b == SubSeq(s, k + 1, Len(s))
  <2>2. /\ a \in Seq(S) /\ Len(a) = k - 1
        /\ \A j \in 1..k - 1 : a[j] = s[j]
    <3>1. \A j \in 1..k - 1 : s[j] \in S
      BY <1>1, <2>1, ElementOfSeq
    <3>2. Len(a) = IF 1 <= k - 1 THEN k - 1 ELSE 0
      BY <1>1, <2>1, SubSeqProperties
    <3>3. \A j \in 1..k - 1 - 1 + 1 : a[j] = s[1 + j - 1]
      BY <1>1, <2>1, <3>1, SubSeqProperties
    <3>4. a \in Seq(S)
      BY <1>1, <2>1, <3>1, SubSeqProperties
    <3> QED
      BY <2>1, <3>2, <3>3, <3>4
  <2>3. /\ b \in Seq(S) /\ Len(b) = Len(s) - k
        /\ \A j \in 1..Len(s) - k : b[j] = s[k + j]
    <3>1. \A j \in k + 1 .. Len(s) : s[j] \in S
      BY <1>1, <2>1, ElementOfSeq
    <3>2. k + 1 \in 1..Len(s) + 1 /\ Len(s) \in 0..Len(s)
      BY <1>1, <2>1
    <3>3. Len(b) = IF k + 1 <= Len(s) THEN Len(s) - (k + 1) + 1 ELSE 0
      BY <1>1, <2>1, SubSeqProperties
    <3>4. \A j \in 1..Len(s) - (k + 1) + 1 : b[j] = s[k + 1 + j - 1]
      BY <1>1, <2>1, <3>1, SubSeqProperties
    <3>5. b \in Seq(S)
      BY <1>1, <2>1, <3>1, SubSeqProperties
    <3> HIDE DEF b
    <3>6. Len(b) = Len(s) - k
      <4>1. CASE k + 1 <= Len(s)
        BY <1>1, <2>1, <3>3, <4>1
      <4>2. CASE ~(k + 1 <= Len(s))
        <5>1. k \in Int /\ k <= Len(s) /\ Len(s) \in Int
          BY <1>1, <2>1
        <5>2. Len(s) = k /\ Len(s) - k = 0
          BY <4>2, <5>1
        <5>3. Len(b) = 0
          BY <3>3, <4>2
        <5> QED
          BY <5>2, <5>3
      <4> QED
        BY <4>1, <4>2
    <3>7. ASSUME NEW j \in 1..Len(s) - k PROVE b[j] = s[k + j]
      <4>1. j \in 1..Len(s) - (k + 1) + 1 /\ k + 1 + j - 1 = k + j
        BY <1>1, <2>1
      <4> QED
        BY <3>4, <4>1
    <3> QED
      BY <3>5, <3>6, <3>7
  <2> HIDE DEF a, b
  <2>4. /\ r \in Seq(S) /\ Len(r) = Len(s) - 1
        /\ \A j \in 1..k - 1 : r[j] = s[j]
        /\ \A j \in k..Len(s) - 1 : r[j] = s[j + 1]
    <3>1. r = a \o b
      BY DEF RemoveAt, a, b
    <3>2. a \o b \in Seq(S) /\ Len(a \o b) = Len(a) + Len(b)
      BY <2>2, <2>3, ConcatProperties
    <3>3. \A j \in 1..Len(s) - 1 :
             (a \o b)[j] = IF j <= Len(a) THEN a[j] ELSE b[j - Len(a)]
      BY <1>1, <2>1, <2>2, <2>3, ConcatProperties
    <3> HIDE DEF r
    <3>4. \A j \in 1..k - 1 : r[j] = s[j]
      BY <1>1, <2>1, <2>2, <3>1, <3>3
    <3>5. ASSUME NEW j \in k..Len(s) - 1 PROVE r[j] = s[j + 1]
      <4>1. j \in 1..Len(s) - 1 /\ ~(j <= k - 1) /\ j - (k - 1) \in 1..Len(s) - k
        BY <1>1, <2>1
      <4>2. r[j] = b[j - (k - 1)]
        BY <2>2, <3>1, <3>3, <4>1
      <4>3. b[j - (k - 1)] = s[k + (j - (k - 1))] /\ k + (j - (k - 1)) = j + 1
        BY <1>1, <2>1, <2>3, <4>1
      <4> QED
        BY <4>2, <4>3
    <3> QED
      BY <1>1, <2>1, <2>2, <2>3, <3>1, <3>2, <3>4, <3>5
  <2>5. DOMAIN r = 1..Len(s) - 1
    BY <2>4, LenProperties
  <2> HIDE DEF r
  <2>6. Distinct(r)
    BY <1>1, <2>1, <2>4 DEF Distinct
  <2>7. ToSet(r) \subseteq ToSet(s) \ {i}
    <3>1. ASSUME NEW j \in 1..Len(s) - 1 PROVE r[j] \in ToSet(s) /\ r[j] # i
      <4>1. CASE j <= k - 1
        <5>1. j \in 1..Len(s) /\ j # k /\ r[j] = s[j]
          BY <1>1, <2>1, <2>4, <4>1
        <5> QED
          BY <1>1, <2>1, <5>1 DEF Distinct, ToSet
      <4>2. CASE j >= k
        <5>1. j + 1 \in 1..Len(s) /\ j + 1 # k /\ r[j] = s[j + 1]
          BY <1>1, <2>1, <2>4, <4>2
        <5> QED
          BY <1>1, <2>1, <5>1 DEF Distinct, ToSet
      <4> QED
        BY <1>1, <2>1, <4>1, <4>2
    <3> QED
      BY <2>5, <3>1 DEF ToSet
  <2>8. ToSet(s) \ {i} \subseteq ToSet(r)
    <3>1. ASSUME NEW j \in 1..Len(s), s[j] # i PROVE s[j] \in ToSet(r)
      <4>1. CASE j <= k - 1
        <5>1. j \in 1..Len(s) - 1 /\ r[j] = s[j]
          BY <1>1, <2>1, <2>4, <4>1
        <5> QED
          BY <2>5, <5>1 DEF ToSet
      <4>2. CASE j >= k + 1
        <5>1. j - 1 \in 1..Len(s) - 1 /\ j - 1 \in k..Len(s) - 1 /\ r[j - 1] = s[j]
          BY <1>1, <2>1, <2>4, <4>2
        <5> QED
          BY <2>5, <5>1 DEF ToSet
      <4> QED
        BY <1>1, <2>1, <3>1, <4>1, <4>2
    <3> QED
      BY <1>1, <3>1 DEF ToSet
  <2> QED
    BY <2>1, <2>4, <2>6, <2>7, <2>8
<1> QED
  BY <1>2, <1>3

-----------------------------------------------------------------------------
(* Types.                                                                  *)

LEMMA InitTypes == Init => TypeOK
<1> SUFFICES ASSUME Init PROVE TypeOK
  OBVIOUS
<1>1. <<>> \in Seq(Instruments) /\ <<>> \in Seq(Message)
  BY EmptySeq
<1>2. wire \in Seq(Message)
  BY <1>1 DEF Init
<1>3. subPool \in Seq(Instruments) /\ todo \in Seq(Instruments)
  BY <1>1 DEF Init
<1>4. /\ pc \in [Callers -> Steps] /\ op \in [Callers -> Ops]
      /\ inst \in [Callers -> Instruments] /\ status \in [Callers -> Statuses]
  BY DEF Init, Steps, Ops, Statuses
<1>5. sync \in 0..2 /\ connects \in Nat
  BY DEF Init
<1>6. /\ started \in BOOLEAN /\ api \in BOOLEAN /\ online \in BOOLEAN
      /\ logged \in BOOLEAN /\ greeted \in BOOLEAN
      /\ abort \in {"none", "call", "relogin"}
  BY DEF Init
<1>7. /\ frontSubs \subseteq Instruments /\ refused \subseteq Instruments
      /\ blame \subseteq {"start", "timeout", "relogin"}
  BY DEF Init
<1> QED
  BY <1>2, <1>3, <1>4, <1>5, <1>6, <1>7 DEF TypeOK

(* What a request does to the front's side.                                *)
LEMMA RequestTypes ==
  ASSUME wire \in Seq(Message), frontSubs \subseteq Instruments,
         refused \subseteq Instruments,
         NEW r \in Requests, NEW i \in Instruments, Request(r, i)
  PROVE  /\ wire' \in Seq(Message) /\ frontSubs' \subseteq Instruments
         /\ refused' \subseteq Instruments
<1>1. ASSUME NEW b \in BOOLEAN
      PROVE  Append(wire, [kind |-> r, inst |-> i, ok |-> b]) \in Seq(Message)
  <2>1. [kind |-> r, inst |-> i, ok |-> b] \in Message
    BY <1>1 DEF Message
  <2> QED
    BY <2>1, AppendProperties
<1>2. wire' \in Seq(Message)
  BY <1>1 DEF Request
<1>3. frontSubs' \subseteq Instruments /\ refused' \subseteq Instruments
  BY DEF Request
<1> QED
  BY <1>2, <1>3

(* A step of a caller that keeps the types of its own variables.           *)
CallerTypes ==
  /\ pc \in [Callers -> Steps] /\ op \in [Callers -> Ops]
  /\ inst \in [Callers -> Instruments] /\ status \in [Callers -> Statuses]

LEMMA CallerMoves ==
  ASSUME CallerTypes, NEW c \in Callers, NEW o \in Ops, NEW step \in Steps,
         NEW i \in Instruments, NEW st \in Statuses,
         Return(c, o, i, st) \/ Goto(c, step) \/ Begin(c, o, i, step)
  PROVE  CallerTypes'
<1>1. CASE Return(c, o, i, st)
  BY <1>1 DEF Return, CallerTypes, Steps
<1>2. CASE Goto(c, step)
  BY <1>2 DEF Goto, CallerTypes
<1>3. CASE Begin(c, o, i, step)
  BY <1>3 DEF Begin, CallerTypes, Statuses
<1> QED
  BY <1>1, <1>2, <1>3

LEMMA CallTypes ==
  ASSUME TypeOK, NEW c \in Callers, Call(c)
  PROVE  TypeOK'
<1>1. CallerTypes /\ inst[c] \in Instruments
  BY DEF TypeOK, CallerTypes
<1>2. CallerTypes'
  <2>1. CASE CallStart(c)
    BY <1>1, <2>1, CallerMoves DEF CallStart, Ops, Steps, Statuses
  <2>2. CASE CallStop(c)
    BY <1>1, <2>2, CallerMoves DEF CallStop, Ops, Steps, Statuses
  <2>3. ASSUME NEW i \in Instruments, CallSubscribe(c, i) PROVE CallerTypes'
    BY <1>1, <2>3, CallerMoves DEF CallSubscribe, Ops, Requests, Steps, Statuses
  <2>4. ASSUME NEW i \in Instruments, CallUnsubscribe(c, i) PROVE CallerTypes'
    BY <1>1, <2>4, CallerMoves DEF CallUnsubscribe, Ops, Requests, Steps, Statuses
  <2> QED
    BY <2>1, <2>2, <2>3, <2>4 DEF Call
<1>3. SessionUnchanged
  BY DEF Call, CallStart, CallStop, CallSubscribe, CallUnsubscribe
<1> QED
  BY <1>2, <1>3 DEF TypeOK, CallerTypes, SessionUnchanged, frontVars, history

(* Only a request is sent.                                                 *)
Sending == \A c \in Callers : pc[c] = "send" => op[c] \in Requests

(* A failed CHECK changes abort alone.                                     *)
LEMMA AbortTypes ==
  ASSUME TypeOK, NEW who \in {"call", "relogin"}, Abort(who)
  PROVE  TypeOK'
BY DEF Abort, TypeOK, callerVars, frontVars, history

LEMMA ContinueTypes ==
  ASSUME TypeOK, Sending, NEW c \in Callers, Continue(c)
  PROVE  TypeOK'
<1>1. CallerTypes /\ op[c] \in Ops /\ inst[c] \in Instruments
  BY DEF TypeOK, CallerTypes
<1>2. CASE Abort("call")
  BY <1>2, AbortTypes
<1>3. CASE Check(c) /\ ~Abort("call")
  <2>1. CallerTypes'
    BY <1>1, <1>3, CallerMoves DEF Check, Steps, Statuses
  <2> QED
    BY <1>3, <2>1 DEF Check, SessionUnchanged, TypeOK, CallerTypes, frontVars, history
<1>4. CASE MarkStart(c)
  <2>1. CallerTypes'
    BY <1>1, <1>4, CallerMoves DEF MarkStart, Steps, Statuses
  <2> QED
    BY <1>4, <2>1 DEF MarkStart, TypeOK, CallerTypes, frontVars
<1>5. CASE InitApi(c)
  <2>1. CallerTypes'
    BY <1>1, <1>5, CallerMoves DEF InitApi, Steps, Statuses
  <2> QED
    BY <1>5, <2>1 DEF InitApi, TypeOK, CallerTypes, history
<1>6. CASE MarkRequest(c)
  <2>1. CallerTypes'
    BY <1>1, <1>6, CallerMoves DEF MarkRequest, Steps, Statuses
  <2> QED
    BY <1>6, <2>1 DEF MarkRequest, TypeOK, CallerTypes, frontVars, history
<1>7. CASE Send(c) /\ ~Abort("call")
  <2>1. op[c] \in Requests /\ Request(op[c], inst[c])
    BY <1>7 DEF Send, At, Sending
  <2>2. /\ wire' \in Seq(Message) /\ frontSubs' \subseteq Instruments
        /\ refused' \subseteq Instruments
    BY <1>1, <2>1, RequestTypes DEF TypeOK
  <2>3. CallerTypes'
    BY <1>1, <1>7, CallerMoves DEF Send, Steps, Statuses
  <2> QED
    BY <1>7, <2>2, <2>3 DEF Send, TypeOK, CallerTypes
<1>8. CASE PollHit(c)
  <2>1. CallerTypes'
    BY <1>1, <1>8, CallerMoves DEF PollHit, Steps, Statuses
  <2>2. sync' \in 0..2
    BY <1>8 DEF PollHit, TypeOK
  <2> QED
    BY <1>8, <2>1, <2>2 DEF PollHit, TypeOK, CallerTypes, frontVars, history
<1>9. CASE PollTimeout(c)
  <2>1. CallerTypes'
    BY <1>1, <1>9, CallerMoves DEF PollTimeout, Steps, Statuses
  <2>2. blame' \subseteq {"start", "timeout", "relogin"}
    BY <1>9 DEF PollTimeout, TypeOK
  <2> QED
    BY <1>9, <2>1, <2>2 DEF PollTimeout, TypeOK, CallerTypes, frontVars
<1>10. CASE Release(c) /\ ~Abort("call")
  <2>1. CallerTypes'
    BY <1>1, <1>10, CallerMoves DEF Release, Steps, Statuses
  <2>2. <<>> \in Seq(Message)
    BY EmptySeq
  <2> QED
    BY <1>10, <2>1, <2>2 DEF Release, TypeOK, CallerTypes
<1>11. CASE Reset(c)
  <2>1. CallerTypes'
    BY <1>1, <1>11, CallerMoves DEF Reset, Steps, Statuses
  <2>2. sync' = 0 /\ started' = FALSE
    BY <1>11 DEF Reset
  <2>3. sync' \in 0..2
    BY <2>2
  <2> QED
    BY <1>11, <2>1, <2>2, <2>3 DEF Reset, TypeOK, CallerTypes, frontVars, history
<1> QED
  BY <1>2, <1>3, <1>4, <1>5, <1>6, <1>7, <1>8, <1>9, <1>10, <1>11 DEF Continue

(* The pool: no instrument is there twice, so erasing removes it.          *)
LEMMA CtpTypes ==
  ASSUME TypeOK, Distinct(subPool), Ctp
  PROVE  TypeOK' /\ Distinct(subPool')
<1>1. ASSUME NEW k, Arrives(k)
      PROVE  Head(wire) \in Message /\ Tail(wire) \in Seq(Message) /\ Head(wire).kind = k
  BY <1>1, HeadTailProperties DEF Arrives, TypeOK
<1>2. CASE OnFrontConnected
  <2>1. ASSUME NEW b \in BOOLEAN PROVE <<[kind |-> "login", ok |-> b]>> \in Seq(Message)
    <3>1. [kind |-> "login", ok |-> b] \in Message
      BY <2>1 DEF Message
    <3> QED
      BY <3>1
  <2>2. <<>> \in Seq(Message)
    BY EmptySeq
  <2>3. wire' \in Seq(Message) /\ logged' \in BOOLEAN
    BY <1>2, <2>1, <2>2 DEF OnFrontConnected
  <2> QED
    BY <1>2, <2>3 DEF OnFrontConnected, TypeOK, callerVars, history
<1>3. CASE OnFrontDisconnected
  <2>1. <<>> \in Seq(Message)
    BY EmptySeq
  <2> QED
    BY <1>3, <2>1 DEF OnFrontDisconnected, TypeOK, callerVars
<1>4. CASE OnRspUserLogin
  <2>1. Tail(wire) \in Seq(Message)
    BY <1>1, <1>4 DEF OnRspUserLogin
  <2>2. blame' \subseteq {"start", "timeout", "relogin"}
    BY <1>4 DEF OnRspUserLogin, TypeOK
  <2>3. greeted' \in BOOLEAN /\ sync' \in 0..2
    <3>1. sync' = 0 \/ sync' = sync
      BY <1>4 DEF OnRspUserLogin
    <3>2. sync' \in 0..2
      BY <3>1 DEF TypeOK
    <3>3. greeted' = TRUE \/ greeted' = greeted
      BY <1>4 DEF OnRspUserLogin
    <3>4. greeted' \in BOOLEAN
      BY <3>3, Zenon DEF TypeOK
    <3> QED
      BY <3>2, <3>4
  <2>4. todo' \in Seq(Instruments)
    BY <1>4 DEF OnRspUserLogin, TypeOK
  <2> QED
    BY <1>4, <2>1, <2>2, <2>3, <2>4 DEF OnRspUserLogin, TypeOK, callerVars
<1>5. CASE Resubscribe
  <2>1. CASE Abort("relogin")
    BY <2>1, AbortTypes DEF Abort
  <2>2. CASE ~Abort("relogin")
    <3>1. Head(todo) \in Instruments /\ Tail(todo) \in Seq(Instruments)
      BY <1>5, HeadTailProperties DEF Resubscribe, TypeOK
    <3>2. "subscribe" \in Requests /\ Request("subscribe", Head(todo))
      BY <1>5, <2>2 DEF Resubscribe, Requests
    <3>3. /\ wire' \in Seq(Message) /\ frontSubs' \subseteq Instruments
          /\ refused' \subseteq Instruments
      BY <3>1, <3>2, RequestTypes DEF TypeOK
    <3>4. sync' \in 0..2 /\ todo' \in Seq(Instruments)
      BY <1>5, <2>2, <3>1 DEF Resubscribe
    <3>5. UNCHANGED <<started, api, subPool, callerVars, online, logged, connects,
                      abort, greeted, blame>>
      BY <1>5, <2>2 DEF Resubscribe
    <3> QED
      BY <3>3, <3>4, <3>5 DEF TypeOK, callerVars
  <2> QED
    BY <2>1, <2>2
<1>6. CASE OnRspSubMarketData
  <2>1. /\ Tail(wire) \in Seq(Message) /\ Head(wire) \in Message
        /\ Head(wire).inst \in Instruments
    <3>1. Head(wire) \in Message /\ Head(wire).kind = "subscribe" /\ Tail(wire) \in Seq(Message)
      BY <1>1, <1>6 DEF OnRspSubMarketData
    <3> QED
      BY <3>1 DEF Message
  <2>2. /\ Append(subPool, Head(wire).inst) \in Seq(Instruments)
        /\ ~Contains(subPool, Head(wire).inst)
             => Distinct(Append(subPool, Head(wire).inst))
    <3>1. ~Contains(subPool, Head(wire).inst) => Head(wire).inst \notin ToSet(subPool)
      BY LenProperties DEF Contains, ToSet, TypeOK
    <3> QED
      BY <2>1, <3>1, AppendProperties, ElementsOfAppend DEF TypeOK
  <2>3. CASE Head(wire).ok
    <3>1. sync' \in 0..2
      BY <1>6, <2>3 DEF OnRspSubMarketData
    <3>2. subPool' = IF Contains(subPool, Head(wire).inst) THEN subPool
                     ELSE Append(subPool, Head(wire).inst)
      BY <1>6, <2>3 DEF OnRspSubMarketData
    <3>3. subPool' \in Seq(Instruments) /\ Distinct(subPool')
      BY <2>2, <3>2 DEF TypeOK
    <3> QED
      BY <1>6, <2>1, <3>1, <3>3 DEF OnRspSubMarketData, TypeOK, callerVars, history
  <2>4. CASE ~Head(wire).ok
    BY <1>6, <2>1, <2>4 DEF OnRspSubMarketData, TypeOK, callerVars, history
  <2> QED
    BY <2>3, <2>4
<1>7. CASE OnRspUnSubMarketData
  <2>1. Head(wire).inst \in Instruments /\ Tail(wire) \in Seq(Message)
    <3>1. /\ Head(wire) \in Message /\ Head(wire).kind = "unsubscribe"
          /\ Tail(wire) \in Seq(Message)
      BY <1>1, <1>7 DEF OnRspUnSubMarketData
    <3> QED
      BY <3>1 DEF Message
  <2>2. subPool' \in Seq(Instruments) /\ Distinct(subPool')
    BY <1>7, <2>1, ErasedProperties DEF OnRspUnSubMarketData, TypeOK
  <2> QED
    BY <1>7, <2>1, <2>2 DEF OnRspUnSubMarketData, TypeOK, callerVars, history
<1> QED
  BY <1>2, <1>3, <1>4, <1>5, <1>6, <1>7 DEF Ctp

LEMMA SendingStep ==
  ASSUME TypeOK, Sending, Next
  PROVE  Sending'
<1>1. ASSUME NEW c \in Callers, Call(c) PROVE Sending'
  BY <1>1 DEF Call, CallStart, CallSubscribe, CallUnsubscribe, CallStop, Begin, Return,
              TypeOK, Sending
<1>2. ASSUME NEW c \in Callers, Continue(c) PROVE Sending'
  <2>1. CASE Check(c) \/ Release(c)
    BY <2>1 DEF Check, Release, Abort, Goto, callerVars, TypeOK, Sending
  <2>2. CASE MarkStart(c) \/ InitApi(c) \/ MarkRequest(c)
    BY <2>2 DEF MarkStart, InitApi, MarkRequest, Goto, TypeOK, Sending
  <2>3. CASE Send(c)
    BY <2>3 DEF Send, Abort, Goto, callerVars, TypeOK, Sending
  <2>4. CASE PollHit(c) \/ PollTimeout(c) \/ Reset(c)
    BY <2>4 DEF PollHit, PollTimeout, Reset, Return, Goto, TypeOK, Sending
  <2> QED
    BY <1>2, <2>1, <2>2, <2>3, <2>4 DEF Continue
<1>3. CASE Ctp
  <2>1. UNCHANGED callerVars
    BY <1>3 DEF Ctp, OnFrontConnected, OnFrontDisconnected, OnRspUserLogin, Resubscribe,
                OnRspSubMarketData, OnRspUnSubMarketData, Abort
  <2> QED
    BY <2>1 DEF callerVars, Sending
<1> QED
  BY <1>1, <1>2, <1>3 DEF Next

(* What holds whatever happens, for any number of callers.                 *)
Shape == TypeOK /\ Sending /\ Distinct(subPool)

LEMMA InitShape == Init => Shape
<1> SUFFICES ASSUME Init PROVE Shape
  OBVIOUS
<1>1. Distinct(subPool)
  BY ElementsOfEmpty DEF Init
<1>2. Sending
  BY DEF Init, Sending
<1> QED
  BY <1>1, <1>2, InitTypes DEF Shape

LEMMA ShapeStep == Shape /\ [Next]_vars => Shape'
<1> SUFFICES ASSUME Shape, [Next]_vars PROVE Shape'
  OBVIOUS
<1> USE DEF Shape
<1>1. CASE Next
  <2>1. ASSUME NEW c \in Callers, Call(c) PROVE TypeOK' /\ UNCHANGED subPool
    BY <2>1, CallTypes DEF Call, CallStart, CallSubscribe, CallUnsubscribe, CallStop,
                           SessionUnchanged
  <2>2. ASSUME NEW c \in Callers, Continue(c) PROVE TypeOK' /\ UNCHANGED subPool
    BY <2>2, ContinueTypes DEF Continue, Check, MarkStart, InitApi, MarkRequest, Send,
                PollHit, PollTimeout, Release, Reset, Abort, SessionUnchanged
  <2>3. CASE Ctp
    BY <1>1, <2>3, CtpTypes, SendingStep
  <2> QED
    BY <1>1, <2>1, <2>2, <2>3, SendingStep DEF Next
<1>2. CASE UNCHANGED vars
  BY <1>2 DEF vars, callerVars, frontVars, history, TypeOK, Sending
<1> QED
  BY <1>1, <1>2

(* The shape of the session, for any callers, instruments and bounds.      *)
THEOREM TypeCorrect == Spec => []TypeOK
<1>1. Shape => TypeOK
  BY DEF Shape
<1> QED
  BY <1>1, InitShape, ShapeStep, PTL DEF Spec

-----------------------------------------------------------------------------
(* The pool and the front.                                                 *)

(* The k-th message under way: request r for i was taken.                  *)
Taken(r, i, k) == wire[k].kind = r /\ wire[k].inst = i /\ wire[k].ok

(* After each message that r was taken for i there is one that s was.      *)
Reversed(r, s, i) ==
  \A k \in 1..Len(wire) : Taken(r, i, k) => \E j \in 1..Len(wire) : j > k /\ Taken(s, i, j)

(* What the front feeds is in the pool or about to enter it, and the last  *)
(* word under way about an instrument is what the front does with it; after *)
(* a login, what is in the pool is fed, turned down, about to leave, or    *)
(* still to be asked for by the login callback.                            *)
FrontOf(i) ==
  /\ ~online => i \notin frontSubs
  /\ i \in frontSubs => i \in ToSet(subPool) \/ Pending("subscribe", i)
  /\ i \in frontSubs => Reversed("unsubscribe", "subscribe", i)
  /\ i \notin frontSubs => Reversed("subscribe", "unsubscribe", i)
  /\ abort = "none" /\ greeted /\ i \in ToSet(subPool) =>
       \/ i \in frontSubs \/ i \in refused \/ Pending("unsubscribe", i)
       \/ i \in ToSet(todo)

Agree == (~online => ~greeted /\ wire = <<>>) /\ \A i \in Instruments : FrontOf(i)

LEMMA PendingIsTaken ==
  ASSUME TypeOK, NEW r, NEW i
  PROVE  Pending(r, i) <=> \E k \in 1..Len(wire) : Taken(r, i, k)
<1>1. DOMAIN wire = 1..Len(wire)
  BY LenProperties DEF TypeOK
<1> QED
  BY <1>1 DEF Pending, Taken

(* Nothing is under way.                                                   *)
LEMMA NoneTaken ==
  ASSUME TypeOK', \A k \in 1..Len(wire') : wire'[k].kind = "login", NEW i
  PROVE  /\ ~Pending("subscribe", i)' /\ ~Pending("unsubscribe", i)'
         /\ Reversed("subscribe", "unsubscribe", i)'
         /\ Reversed("unsubscribe", "subscribe", i)'
<1>1. DOMAIN wire' = 1..Len(wire')
  BY LenProperties DEF TypeOK
<1> QED
  BY <1>1 DEF Pending, Taken, Reversed

(* The front answers.                                                      *)
LEMMA TakenAppends ==
  ASSUME TypeOK, NEW m, m \in Message, wire' = Append(wire, m), NEW i,
         NEW r, NEW s
  PROVE  /\ Pending(r, i) => Pending(r, i)'
         /\ m.kind = r /\ m.inst = i /\ m.ok =>
              (Pending(r, i)' /\ Reversed(s, r, i)') \/ r = s
         /\ ~(m.kind = r /\ m.inst = i /\ m.ok) /\ Reversed(r, s, i) => Reversed(r, s, i)'
<1>1. /\ Len(wire) \in Nat /\ Len(wire') = Len(wire) + 1
      /\ \A k \in 1..Len(wire) : wire'[k] = wire[k]
      /\ wire'[Len(wire) + 1] = m
      /\ DOMAIN wire = 1..Len(wire) /\ DOMAIN wire' = 1..Len(wire) + 1
  BY AppendProperties, LenProperties DEF TypeOK
<1>2. \A q : \A k \in 1..Len(wire) : Taken(q, i, k)' <=> Taken(q, i, k)
  BY <1>1 DEF Taken
<1> PICK n \in Nat : n = Len(wire) + 1
  BY <1>1
<1>3. \A q : Taken(q, i, n)' <=> m.kind = q /\ m.inst = i /\ m.ok
  BY <1>1 DEF Taken
<1>4. \A q : Pending(q, i)' <=> \E k \in 1..Len(wire') : Taken(q, i, k)'
  BY <1>1 DEF Pending, Taken
<1>5. Pending(r, i) => Pending(r, i)'
  BY <1>1, <1>2, <1>4, PendingIsTaken
<1>6. ASSUME m.kind = r, m.inst = i, m.ok, r # s
      PROVE  Pending(r, i)' /\ Reversed(s, r, i)'
  <2>1. n \in 1..Len(wire') /\ Taken(r, i, n)'
    BY <1>1, <1>3, <1>6
  <2>2. ASSUME NEW k \in 1..Len(wire'), Taken(s, i, k)' PROVE n > k
    <3>1. k # n
      BY <1>3, <1>6, <2>2
    <3> QED
      BY <1>1, <3>1
  <2> QED
    BY <1>4, <2>1, <2>2 DEF Reversed
<1>7. ASSUME ~(m.kind = r /\ m.inst = i /\ m.ok), Reversed(r, s, i)
      PROVE  Reversed(r, s, i)'
  <2> SUFFICES ASSUME NEW k \in 1..Len(wire'), Taken(r, i, k)'
               PROVE  \E j \in 1..Len(wire') : j > k /\ Taken(s, i, j)'
    BY DEF Reversed
  <2>1. k \in 1..Len(wire) /\ Taken(r, i, k)
    BY <1>1, <1>2, <1>3, <1>7
  <2>2. PICK j \in 1..Len(wire) : j > k /\ Taken(s, i, j)
    BY <1>7, <2>1 DEF Reversed
  <2> QED
    BY <1>1, <1>2, <2>2
<1> QED
  BY <1>5, <1>6, <1>7

(* A message is handled.                                                   *)
LEMMA TakenMovesUp ==
  ASSUME TypeOK, wire # <<>>, wire' = Tail(wire), NEW i, NEW r, NEW s
  PROVE  /\ Pending(r, i) /\ ~Taken(r, i, 1) => Pending(r, i)'
         /\ Taken(s, i, 1) /\ Reversed(s, r, i) => Pending(r, i)'
         /\ Reversed(r, s, i) => Reversed(r, s, i)'
<1>1. /\ Len(wire) \in Nat /\ Len(wire) # 0 /\ Len(wire') = Len(wire) - 1
      /\ \A k \in 1..Len(wire') : wire'[k] = wire[k + 1]
      /\ DOMAIN wire' = 1..Len(wire')
  BY HeadTailProperties, LenProperties, EmptySeq DEF TypeOK
<1>2. \A q : \A k \in 1..Len(wire') : Taken(q, i, k)' <=> Taken(q, i, k + 1)
  BY <1>1 DEF Taken
<1>3. \A q : \A k \in 2..Len(wire) : k - 1 \in 1..Len(wire') /\ (Taken(q, i, k) <=> Taken(q, i, k - 1)')
  <2>1. ASSUME NEW k \in 2..Len(wire) PROVE k - 1 \in 1..Len(wire') /\ k - 1 + 1 = k
    BY <1>1
  <2> QED
    BY <1>2, <2>1
<1>4. \A q : Pending(q, i)' <=> \E k \in 1..Len(wire') : Taken(q, i, k)'
  BY <1>1 DEF Pending, Taken
<1>5. ASSUME Pending(r, i), ~Taken(r, i, 1) PROVE Pending(r, i)'
  <2>1. PICK k \in 1..Len(wire) : Taken(r, i, k)
    BY <1>5, PendingIsTaken
  <2>2. k \in 2..Len(wire)
    BY <1>1, <1>5, <2>1
  <2> QED
    BY <1>3, <1>4, <2>1, <2>2
<1>6. ASSUME Taken(s, i, 1), Reversed(s, r, i) PROVE Pending(r, i)'
  <2>1. PICK k \in 1..Len(wire) : k > 1 /\ Taken(r, i, k)
    BY <1>1, <1>6 DEF Reversed
  <2>2. k \in 2..Len(wire)
    BY <1>1, <2>1
  <2> QED
    BY <1>3, <1>4, <2>1, <2>2
<1>7. ASSUME Reversed(r, s, i) PROVE Reversed(r, s, i)'
  <2> SUFFICES ASSUME NEW k \in 1..Len(wire'), Taken(r, i, k)'
               PROVE  \E j \in 1..Len(wire') : j > k /\ Taken(s, i, j)'
    BY DEF Reversed
  <2>1. k + 1 \in 1..Len(wire) /\ Taken(r, i, k + 1)
    BY <1>1, <1>2
  <2>2. PICK j \in 1..Len(wire) : j > k + 1 /\ Taken(s, i, j)
    BY <1>7, <2>1 DEF Reversed
  <2>3. j \in 2..Len(wire) /\ j - 1 > k
    BY <1>1, <2>2
  <2> QED
    BY <1>3, <2>2, <2>3
<1> QED
  BY <1>5, <1>6, <1>7

LEMMA ElementsOfRest ==
  ASSUME NEW S, NEW s \in Seq(S), s # <<>>
  PROVE  ToSet(s) \subseteq ToSet(Tail(s)) \cup {Head(s)}
<1> DEFINE t == Tail(s)
<1>1. /\ Len(s) \in Nat /\ Len(s) # 0 /\ Len(t) = Len(s) - 1
      /\ \A k \in 1..Len(t) : t[k] = s[k + 1]
      /\ DOMAIN t = 1..Len(t) /\ DOMAIN s = 1..Len(s) /\ Head(s) = s[1]
  BY HeadTailProperties, LenProperties, EmptySeq
<1> HIDE DEF t
<1>2. ASSUME NEW k \in 1..Len(s), k # 1 PROVE s[k] \in ToSet(t)
  <2>1. k - 1 \in 1..Len(t) /\ k - 1 + 1 = k
    BY <1>1, <1>2
  <2>2. t[k - 1] = s[k]
    BY <1>1, <2>1
  <2> QED
    BY <1>1, <2>1, <2>2 DEF ToSet
<1> QED
  BY <1>1, <1>2 DEF ToSet, t

(* A request is sent, by a call or by the login callback.                  *)
LEMMA RequestAgrees ==
  ASSUME Shape, Agree, NEW r \in Requests, NEW x \in Instruments, Request(r, x),
         UNCHANGED <<subPool, online, greeted, abort>>,
         ToSet(todo) \subseteq ToSet(todo') \cup {x}
  PROVE  Agree'
<1> SUFFICES ASSUME NEW i \in Instruments PROVE FrontOf(i)'
  BY DEF Agree, Request
<1> DEFINE m(b) == [kind |-> r, inst |-> x, ok |-> b]
<1>1. FrontOf(i) /\ TypeOK
  BY DEF Agree, Shape
<1>2. \A b \in BOOLEAN : /\ m(b) \in Message
                         /\ m(b).kind = r /\ m(b).inst = x /\ m(b).ok = b
  BY DEF Message
<1>3. \/ /\ online /\ logged
         /\ frontSubs' = IF r = "subscribe" THEN frontSubs \cup {x} ELSE frontSubs \ {x}
         /\ wire' = Append(wire, m(TRUE))
         /\ refused' = refused \ {x}
      \/ /\ online
         /\ wire' = Append(wire, m(FALSE))
         /\ refused' = refused \cup {x} /\ UNCHANGED frontSubs
      \/ refused' = refused \cup {x} /\ UNCHANGED <<frontSubs, wire>>
  BY DEF Request
<1> HIDE DEF m
<1> DEFINE S == "subscribe"
           U == "unsubscribe"
<1>4. CASE UNCHANGED <<frontSubs, wire>> /\ refused' = refused \cup {x}
  <2>1. \A q : Pending(q, i)' <=> Pending(q, i)
    BY <1>4 DEF Pending
  <2>2. \A q, p : Reversed(q, p, i)' <=> Reversed(q, p, i)
    BY <1>4 DEF Reversed, Taken
  <2> QED
    BY <1>1, <1>4, <2>1, <2>2 DEF FrontOf
<1>5. CASE /\ online /\ wire' = Append(wire, m(FALSE))
           /\ refused' = refused \cup {x} /\ UNCHANGED frontSubs
  <2>1. m(FALSE) \in Message /\ ~m(FALSE).ok
    BY <1>2
  <2>2. \A q : Pending(q, i) => Pending(q, i)'
    BY <1>1, <1>5, <2>1, TakenAppends
  <2>3. \A q, p : Reversed(q, p, i) => Reversed(q, p, i)'
    BY <1>1, <1>5, <2>1, TakenAppends
  <2> QED
    BY <1>1, <1>5, <2>2, <2>3 DEF FrontOf
<1>6. CASE /\ online /\ wire' = Append(wire, m(TRUE)) /\ refused' = refused \ {x}
           /\ frontSubs' = IF r = "subscribe" THEN frontSubs \cup {x} ELSE frontSubs \ {x}
  <2>1. m(TRUE) \in Message /\ m(TRUE).ok /\ m(TRUE).kind = r /\ m(TRUE).inst = x
    BY <1>2
  <2>2. \A q : Pending(q, i) => Pending(q, i)'
    BY <1>1, <1>6, <2>1, TakenAppends
  <2>3. CASE i # x
    <3>1. \A q, p : Reversed(q, p, i) => Reversed(q, p, i)'
      BY <1>1, <1>6, <2>1, <2>3, TakenAppends
    <3>2. (i \in frontSubs' <=> i \in frontSubs) /\ (i \in refused' <=> i \in refused)
      BY <1>6, <2>3
    <3>3. i \in ToSet(todo) => i \in ToSet(todo')
      BY <2>3
    <3> QED
      BY <1>1, <1>6, <2>2, <3>1, <3>2, <3>3 DEF FrontOf
  <2>4. CASE i = x /\ r = "subscribe"
    <3>1. Pending("subscribe", i)' /\ Reversed("unsubscribe", "subscribe", i)'
      BY <1>1, <1>6, <2>1, <2>4, TakenAppends
    <3>2. i \in frontSubs'
      BY <1>6, <2>4
    <3> QED
      BY <1>1, <1>6, <3>1, <3>2 DEF FrontOf
  <2>5. CASE i = x /\ r = "unsubscribe"
    <3>1. Pending("unsubscribe", i)' /\ Reversed("subscribe", "unsubscribe", i)'
      BY <1>1, <1>6, <2>1, <2>5, TakenAppends
    <3>2. i \notin frontSubs'
      BY <1>6, <2>5
    <3> QED
      BY <1>1, <1>6, <3>1, <3>2 DEF FrontOf
  <2> QED
    BY <2>3, <2>4, <2>5 DEF Requests
<1> QED
  BY <1>3, <1>4, <1>5, <1>6

(* The connection begins, ends or is released.                             *)
LEMMA ConnectionAgrees ==
  ASSUME TypeOK', ~greeted', frontSubs' = {}, online' \/ wire' = <<>>,
         \A k \in 1..Len(wire') : wire'[k].kind = "login"
  PROVE  Agree'
<1> SUFFICES ASSUME NEW i \in Instruments PROVE FrontOf(i)'
  BY DEF Agree
<1> QED
  BY NoneTaken DEF FrontOf

(* Steps that touch neither side.                                          *)
LEMMA OthersAgree ==
  ASSUME Agree, UNCHANGED <<online, frontSubs, subPool, wire, greeted, refused, todo>>,
         abort' = "none" => abort = "none"
  PROVE  Agree'
<1> SUFFICES ASSUME NEW i \in Instruments PROVE FrontOf(i)'
  BY DEF Agree
<1>1. \A q : Pending(q, i)' <=> Pending(q, i)
  BY DEF Pending
<1>2. \A q, p : Reversed(q, p, i)' <=> Reversed(q, p, i)
  BY DEF Reversed, Taken
<1> QED
  BY <1>1, <1>2 DEF Agree, FrontOf

LEMMA ConnectAgrees ==
  ASSUME Shape, Shape', Agree, OnFrontConnected
  PROVE  Agree'
<1>1. \A i \in Instruments : i \notin frontSubs
  BY DEF OnFrontConnected, Agree, FrontOf
<1>2. frontSubs' = {} /\ ~greeted'
  BY <1>1 DEF OnFrontConnected, history, Agree, Shape, TypeOK
<1>3. \A k \in 1..Len(wire') : wire'[k].kind = "login"
  <2>1. ASSUME NEW b \in BOOLEAN, wire' = <<[kind |-> "login", ok |-> b]>>
        PROVE  \A k \in 1..Len(wire') : wire'[k].kind = "login"
    BY <2>1
  <2>2. CASE wire' = <<>>
    BY <2>2
  <2> QED
    BY <2>1, <2>2 DEF OnFrontConnected
<1> QED
  BY <1>2, <1>3, ConnectionAgrees DEF Shape, OnFrontConnected

LEMMA LoginAgrees ==
  ASSUME Shape, Shape', Agree, OnRspUserLogin
  PROVE  Agree'
<1>1. /\ TypeOK /\ wire # <<>> /\ wire' = Tail(wire) /\ wire[1].kind = "login"
      /\ UNCHANGED <<online, frontSubs, subPool, refused, abort>>
  BY HeadTailProperties DEF OnRspUserLogin, Arrives, Shape, TypeOK
<1>2. (greeted' /\ todo' = subPool) \/ UNCHANGED <<greeted, todo>>
  BY DEF OnRspUserLogin
<1>3. online'
  BY <1>1 DEF Agree
<1>4. ASSUME NEW i \in Instruments PROVE FrontOf(i)'
  <2>1. FrontOf(i)
    BY DEF Agree
  <2>2. \A q \in Requests : Pending(q, i) => Pending(q, i)'
    BY <1>1, TakenMovesUp DEF Taken, Requests
  <2>3. \A q, p : Reversed(q, p, i) => Reversed(q, p, i)'
    BY <1>1, TakenMovesUp
  <2> QED
    BY <1>1, <1>2, <2>1, <2>2, <2>3 DEF FrontOf, Requests
<1> QED
  BY <1>3, <1>4 DEF Agree

LEMMA SubscribedAgrees ==
  ASSUME Shape, Shape', Agree, OnRspSubMarketData
  PROVE  Agree'
<1> DEFINE x == wire[1].inst
<1>1. /\ TypeOK /\ wire # <<>> /\ wire' = Tail(wire) /\ wire[1].kind = "subscribe"
      /\ Head(wire) = wire[1] /\ wire[1] \in Message
      /\ UNCHANGED <<online, frontSubs, todo, abort, greeted, refused>>
  BY HeadTailProperties DEF OnRspSubMarketData, Arrives, Shape, TypeOK, history
<1>2. x \in Instruments
  BY <1>1 DEF Message
<1>3. /\ wire[1].ok => ToSet(subPool') = ToSet(subPool) \cup {x}
      /\ ~wire[1].ok => ToSet(subPool') = ToSet(subPool)
  <2>1. Contains(subPool, x) <=> x \in ToSet(subPool)
    BY LenProperties DEF Contains, ToSet, Shape, TypeOK
  <2>2. ToSet(Append(subPool, x)) = ToSet(subPool) \cup {x}
    BY <1>2, ElementsOfAppend DEF Shape, TypeOK
  <2>3. wire[1].ok => subPool' = IF Contains(subPool, x) THEN subPool ELSE Append(subPool, x)
    BY <1>1 DEF OnRspSubMarketData
  <2>4. ~wire[1].ok => subPool' = subPool
    BY <1>1 DEF OnRspSubMarketData
  <2> QED
    BY <2>1, <2>2, <2>3, <2>4
<1>4. ASSUME NEW i \in Instruments PROVE FrontOf(i)'
  <2>1. FrontOf(i)
    BY DEF Agree
  <2>2. ~Taken("unsubscribe", i, 1) /\ (Taken("subscribe", i, 1) <=> i = x /\ wire[1].ok)
    BY <1>1 DEF Taken
  <2>3. \A q, p : Reversed(q, p, i) => Reversed(q, p, i)'
    BY <1>1, TakenMovesUp
  <2>4. Pending("unsubscribe", i) => Pending("unsubscribe", i)'
    BY <1>1, <2>2, TakenMovesUp
  <2>5. CASE Taken("subscribe", i, 1)
    <3>1. i \in ToSet(subPool')
      BY <1>3, <2>2, <2>5
    <3>2. i \notin frontSubs => Pending("unsubscribe", i)'
      BY <1>1, <2>1, <2>5, TakenMovesUp DEF FrontOf
    <3> QED
      BY <1>1, <2>1, <2>3, <3>1, <3>2 DEF FrontOf
  <2>6. CASE ~Taken("subscribe", i, 1)
    <3>1. i \in ToSet(subPool') <=> i \in ToSet(subPool)
      BY <1>3, <2>2, <2>6
    <3>2. Pending("subscribe", i) => Pending("subscribe", i)'
      BY <1>1, <2>6, TakenMovesUp
    <3> QED
      BY <1>1, <2>1, <2>3, <2>4, <3>1, <3>2 DEF FrontOf
  <2> QED
    BY <2>5, <2>6
<1> QED
  BY <1>1, <1>4 DEF Agree

LEMMA UnsubscribedAgrees ==
  ASSUME Shape, Shape', Agree, OnRspUnSubMarketData
  PROVE  Agree'
<1> DEFINE x == wire[1].inst
<1>1. /\ TypeOK /\ wire # <<>> /\ wire' = Tail(wire) /\ wire[1].kind = "unsubscribe"
      /\ Head(wire) = wire[1] /\ wire[1] \in Message
      /\ UNCHANGED <<online, frontSubs, todo, abort, greeted, refused>>
  BY HeadTailProperties DEF OnRspUnSubMarketData, Arrives, Shape, TypeOK, history
<1>2. x \in Instruments
  BY <1>1 DEF Message
<1>3. /\ wire[1].ok => ToSet(subPool') = ToSet(subPool) \ {x}
      /\ ~wire[1].ok => ToSet(subPool') = ToSet(subPool)
  <2>1. wire[1].ok => subPool' = Erased(subPool, x)
    BY <1>1 DEF OnRspUnSubMarketData
  <2>2. ~wire[1].ok => subPool' = subPool
    BY <1>1 DEF OnRspUnSubMarketData
  <2>3. ToSet(Erased(subPool, x)) = ToSet(subPool) \ {x}
    BY <1>2, ErasedProperties DEF Shape, TypeOK
  <2> QED
    BY <2>1, <2>2, <2>3
<1>4. ASSUME NEW i \in Instruments PROVE FrontOf(i)'
  <2>1. FrontOf(i)
    BY DEF Agree
  <2>2. ~Taken("subscribe", i, 1) /\ (Taken("unsubscribe", i, 1) <=> i = x /\ wire[1].ok)
    BY <1>1 DEF Taken
  <2>3. \A q, p : Reversed(q, p, i) => Reversed(q, p, i)'
    BY <1>1, TakenMovesUp
  <2>4. Pending("subscribe", i) => Pending("subscribe", i)'
    BY <1>1, <2>2, TakenMovesUp
  <2>5. CASE Taken("unsubscribe", i, 1)
    <3>1. i \notin ToSet(subPool')
      BY <1>3, <2>2, <2>5
    <3>2. i \in frontSubs => Pending("subscribe", i)'
      BY <1>1, <2>1, <2>5, TakenMovesUp DEF FrontOf
    <3> QED
      BY <1>1, <2>1, <2>3, <3>1, <3>2 DEF FrontOf
  <2>6. CASE ~Taken("unsubscribe", i, 1)
    <3>1. i \in ToSet(subPool') <=> i \in ToSet(subPool)
      BY <1>3, <2>2, <2>6
    <3>2. Pending("unsubscribe", i) => Pending("unsubscribe", i)'
      BY <1>1, <2>6, TakenMovesUp
    <3> QED
      BY <1>1, <2>1, <2>3, <2>4, <3>1, <3>2 DEF FrontOf
  <2> QED
    BY <2>5, <2>6
<1> QED
  BY <1>1, <1>4 DEF Agree

LEMMA CallsAgree ==
  ASSUME Shape, Shape', Agree, NEW c \in Callers, Call(c) \/ Continue(c)
  PROVE  Agree'
<1>1. CASE Call(c)
  BY <1>1, OthersAgree DEF Call, CallStart, CallSubscribe, CallUnsubscribe, CallStop,
                           SessionUnchanged, frontVars, history
<1>2. CASE Abort("call")
  BY <1>2, OthersAgree DEF Abort, frontVars, history
<1>3. CASE (Check(c) \/ MarkStart(c) \/ InitApi(c) \/ MarkRequest(c)) /\ ~Abort("call")
  BY <1>3, OthersAgree DEF Check, MarkStart, InitApi, MarkRequest, SessionUnchanged,
                           frontVars, history
<1>4. CASE PollHit(c) \/ PollTimeout(c) \/ Reset(c)
  BY <1>4, OthersAgree DEF PollHit, PollTimeout, Reset, frontVars, history
<1>5. CASE Send(c) /\ ~Abort("call")
  <2>1. op[c] \in Requests /\ inst[c] \in Instruments
    BY <1>5 DEF Send, At, Shape, TypeOK, Sending
  <2>2. /\ Request(op[c], inst[c])
        /\ UNCHANGED <<subPool, online, greeted, abort, todo>>
    BY <1>5 DEF Send
  <2> QED
    BY <2>1, <2>2, RequestAgrees
<1>6. CASE Release(c) /\ ~Abort("call")
  <2>1. ~greeted' /\ frontSubs' = {} /\ wire' = <<>>
    BY <1>6 DEF Release
  <2>2. \A k \in 1..Len(wire') : wire'[k].kind = "login"
    BY <2>1
  <2> QED
    BY <2>1, <2>2, ConnectionAgrees DEF Shape
<1> QED
  BY <1>1, <1>2, <1>3, <1>4, <1>5, <1>6 DEF Continue

LEMMA CtpAgrees ==
  ASSUME Shape, Shape', Agree, Ctp
  PROVE  Agree'
<1>1. CASE OnFrontDisconnected
  <2>1. ~greeted' /\ frontSubs' = {} /\ wire' = <<>>
    BY <1>1 DEF OnFrontDisconnected
  <2>2. \A k \in 1..Len(wire') : wire'[k].kind = "login"
    BY <2>1
  <2> QED
    BY <2>1, <2>2, ConnectionAgrees DEF Shape
<1>2. CASE Resubscribe /\ ~Abort("relogin")
  <2>1. /\ todo # <<>> /\ todo' = Tail(todo) /\ Request("subscribe", Head(todo))
        /\ UNCHANGED <<subPool, online, greeted, abort>>
    BY <1>2 DEF Resubscribe
  <2>2. Head(todo) \in Instruments /\ "subscribe" \in Requests
    BY <2>1, HeadTailProperties DEF Shape, TypeOK, Requests
  <2>3. ToSet(todo) \subseteq ToSet(todo') \cup {Head(todo)}
    BY <2>1, ElementsOfRest DEF Shape, TypeOK
  <2> QED
    BY <2>1, <2>2, <2>3, RequestAgrees
<1>3. CASE Abort("relogin")
  BY <1>3, OthersAgree DEF Abort, frontVars, history
<1> QED
  BY <1>1, <1>2, <1>3, ConnectAgrees, LoginAgrees, SubscribedAgrees, UnsubscribedAgrees
     DEF Ctp

LEMMA InitAgrees == Init => Agree
<1> SUFFICES ASSUME Init PROVE Agree
  OBVIOUS
<1>1. wire = <<>> /\ frontSubs = {} /\ ~greeted
  BY DEF Init
<1>2. \A k \in 1..Len(wire) : FALSE
  BY <1>1
<1> QED
  BY <1>1, <1>2 DEF Agree, FrontOf, Reversed

LEMMA AgreeStep == Shape /\ Agree /\ [Next]_vars => Agree'
<1> SUFFICES ASSUME Shape, Agree, [Next]_vars PROVE Agree'
  OBVIOUS
<1>1. Shape'
  BY ShapeStep
<1>2. CASE Next
  BY <1>1, <1>2, CallsAgree, CtpAgrees DEF Next
<1>3. CASE UNCHANGED vars
  BY <1>3, OthersAgree DEF vars, frontVars, history
<1> QED
  BY <1>2, <1>3

(* The pool and the front agree after every login, for any callers,        *)
(* instruments and connections.                                            *)
THEOREM PoolAgrees == Spec => []PoolMatchesFront
<1>1. Shape /\ Agree => PoolMatchesFront
  <2> SUFFICES ASSUME Shape, Agree, abort = "none", greeted, todo = <<>>
               PROVE  /\ \A i \in ToSet(subPool) :
                           i \in frontSubs \/ i \in refused \/ Pending("unsubscribe", i)
                      /\ \A i \in frontSubs :
                           i \in ToSet(subPool) \/ Pending("subscribe", i)
    BY DEF PoolMatchesFront
  <2>1. ToSet(todo) = {}
    BY ElementsOfEmpty
  <2>2. ToSet(subPool) \subseteq Instruments /\ frontSubs \subseteq Instruments
    BY LenProperties, ElementOfSeq DEF ToSet, Shape, TypeOK
  <2> QED
    BY <2>1, <2>2 DEF Agree, FrontOf
<1> QED
  BY <1>1, InitShape, InitAgrees, ShapeStep, AgreeStep, PTL DEF Spec

-----------------------------------------------------------------------------
(* One thread uses the API.                                                *)

OneCaller == \E c : Callers = {c}

(* CTP's thread lives while mdApi does, a stopped session is free, and     *)
(* only a re-login has a pool to go through.                               *)
Session ==
  /\ api => started
  /\ ~api => wire = <<>> /\ todo = <<>>
  /\ ~started => sync = 0
  /\ todo # <<>> => "relogin" \in blame

(* How the steps of the call follow started and mdApi.                     *)
LifeOf(c) ==
  /\ pc[c] \in {"init", "reset"} <=> started /\ ~api
  /\ pc[c] = "init" => op[c] = "start"
  /\ pc[c] \in {"release", "reset"} => op[c] = "stop" /\ started
  /\ pc[c] \in {"check", "mark"} => op[c] # "stop" /\ (started <=> op[c] # "start")
  /\ pc[c] = "send" => op[c] \in Requests /\ started
  /\ pc[c] = "poll" => (started <=> op[c] # "stop")

Life == Shape /\ Session /\ \A c \in Callers : LifeOf(c)

LEMMA InitLife == Init => Life
<1> SUFFICES ASSUME Init PROVE Life
  OBVIOUS
<1>1. Shape
  BY InitShape
<1>2. Session
  BY DEF Init, Session
<1>3. ASSUME NEW c \in Callers PROVE LifeOf(c)
  BY <1>3 DEF Init, LifeOf
<1> QED
  BY <1>1, <1>2, <1>3 DEF Life

LEMMA SessionStep ==
  ASSUME OneCaller, Life, Next
  PROVE  Session'
<1>1. Session
  BY DEF Life
<1>2. ASSUME NEW c \in Callers, Call(c) PROVE Session'
  BY <1>1, <1>2 DEF Call, CallStart, CallSubscribe, CallUnsubscribe, CallStop,
                    SessionUnchanged, frontVars, history, Session
<1>3. ASSUME NEW c \in Callers, Continue(c) PROVE Session'
  <2> USE DEF At, frontVars, history
  <2>0. LifeOf(c)
    BY DEF Life
  <2>1. CASE Abort("call")
    BY <1>1, <2>1 DEF Abort, Session
  <2>2. CASE Check(c) /\ ~Abort("call")
    BY <1>1, <2>2 DEF Check, SessionUnchanged, Session
  <2>3. CASE MarkStart(c)
    <3>1. ~started /\ ~api /\ todo = <<>>
      BY <1>1, <2>0, <2>3 DEF MarkStart, LifeOf, Session
    <3> QED
      BY <1>1, <2>3, <3>1 DEF MarkStart, Session
  <2>4. CASE InitApi(c)
    BY <1>1, <2>0, <2>4 DEF InitApi, LifeOf, Session
  <2>5. CASE MarkRequest(c)
    <3>1. started
      BY <2>0, <2>5 DEF MarkRequest, LifeOf, Requests
    <3> QED
      BY <1>1, <2>5, <3>1 DEF MarkRequest, Session
  <2>6. CASE Send(c) /\ ~Abort("call")
    BY <1>1, <2>6 DEF Send, Session
  <2>7. CASE PollHit(c)
    BY <1>1, <2>7 DEF PollHit, Session
  <2>8. CASE PollTimeout(c)
    BY <1>1, <2>8 DEF PollTimeout, Session
  <2>9. CASE Release(c) /\ ~Abort("call")
    BY <1>1, <2>0, <2>9 DEF Release, LifeOf, Session
  <2>10. CASE Reset(c)
    BY <1>1, <2>0, <2>10 DEF Reset, LifeOf, Session
  <2> QED
    BY <1>3, <2>1, <2>2, <2>3, <2>4, <2>5, <2>6, <2>7, <2>8, <2>9, <2>10 DEF Continue
<1>4. CASE Ctp
  <2> USE DEF history, callerVars, CtpRuns, Arrives
  <2>1. CASE OnFrontConnected \/ OnFrontDisconnected
    BY <1>1, <2>1 DEF OnFrontConnected, OnFrontDisconnected, Session
  <2>2. CASE OnRspUserLogin
    BY <1>1, <2>2 DEF OnRspUserLogin, Session
  <2>3. CASE Resubscribe
    BY <1>1, <2>3 DEF Resubscribe, Abort, frontVars, Session
  <2>4. CASE OnRspSubMarketData \/ OnRspUnSubMarketData
    BY <1>1, <2>4 DEF OnRspSubMarketData, OnRspUnSubMarketData, Session
  <2> QED
    BY <1>4, <2>1, <2>2, <2>3, <2>4 DEF Ctp
<1> QED
  BY <1>2, <1>3, <1>4 DEF Next

LEMMA LifeOfStep ==
  ASSUME OneCaller, NEW c \in Callers, Life, Next
  PROVE  LifeOf(c)'
<1>1. /\ Session /\ LifeOf(c) /\ pc[c] \in Steps /\ op[c] \in Ops
      /\ pc \in [Callers -> Steps] /\ op \in [Callers -> Ops]
  BY DEF Life, Shape, TypeOK
<1>2. CASE Call(c)
  <2> USE DEF SessionUnchanged, Begin, Return, At, LifeOf, Session, Ops, Requests
  <2>1. CASE CallStart(c)
    BY <1>1, <2>1 DEF CallStart
  <2>2. ASSUME NEW i \in Instruments, CallSubscribe(c, i) PROVE LifeOf(c)'
    BY <1>1, <2>2 DEF CallSubscribe
  <2>3. ASSUME NEW i \in Instruments, CallUnsubscribe(c, i) PROVE LifeOf(c)'
    BY <1>1, <2>3 DEF CallUnsubscribe
  <2>4. CASE CallStop(c)
    BY <1>1, <2>4 DEF CallStop
  <2> QED
    BY <1>2, <2>1, <2>2, <2>3, <2>4 DEF Call
<1>3. CASE Continue(c)
  <2> USE DEF At
  <2>1. CASE Abort("call")
    BY <1>1, <2>1 DEF Abort, callerVars, LifeOf
  <2>2. CASE Check(c) /\ ~Abort("call")
    BY <1>1, <2>2 DEF Check, SessionUnchanged, Goto, LifeOf
  <2>3. CASE MarkStart(c)
    BY <1>1, <2>3 DEF MarkStart, Goto, LifeOf, Session
  <2>4. CASE InitApi(c)
    BY <1>1, <2>4 DEF InitApi, Goto, LifeOf
  <2>5. CASE MarkRequest(c)
    BY <1>1, <2>5 DEF MarkRequest, Goto, LifeOf, Requests
  <2>6. CASE Send(c) /\ ~Abort("call")
    BY <1>1, <2>6 DEF Send, Goto, LifeOf, Requests
  <2>7. CASE PollHit(c)
    BY <1>1, <2>7 DEF PollHit, Return, LifeOf
  <2>8. CASE PollTimeout(c)
    BY <1>1, <2>8 DEF PollTimeout, Return, LifeOf
  <2>9. CASE Release(c) /\ ~Abort("call")
    BY <1>1, <2>9 DEF Release, Goto, LifeOf
  <2>10. CASE Reset(c)
    BY <1>1, <2>10 DEF Reset, Goto, LifeOf
  <2> QED
    BY <1>3, <2>1, <2>2, <2>3, <2>4, <2>5, <2>6, <2>7, <2>8, <2>9, <2>10 DEF Continue
<1>4. CASE Ctp
  <2>1. UNCHANGED <<callerVars, started, api>>
    BY <1>4 DEF Ctp, OnFrontConnected, OnFrontDisconnected, OnRspUserLogin, Resubscribe,
                OnRspSubMarketData, OnRspUnSubMarketData, Abort
  <2> QED
    BY <1>1, <2>1 DEF callerVars, LifeOf
<1> QED
  BY <1>2, <1>3, <1>4 DEF Next, OneCaller

LEMMA LifeStep == OneCaller /\ Life /\ [Next]_vars => Life'
<1> SUFFICES ASSUME OneCaller, Life, [Next]_vars PROVE Life'
  OBVIOUS
<1>1. Shape'
  BY ShapeStep DEF Life
<1>2. CASE Next
  BY <1>1, <1>2, SessionStep, LifeOfStep DEF Life
<1>3. CASE UNCHANGED vars
  BY <1>1, <1>3 DEF vars, callerVars, frontVars, history, Life, Session, LifeOf
<1> QED
  BY <1>2, <1>3

-----------------------------------------------------------------------------
(* The word while nothing but md_start has timed out and no login callback *)
(* has subscribed.                                                         *)

Answers(k) == wire[k].kind \in Requests /\ wire[k].ok

(* The answer under way is to the caller's request, there is one at most,  *)
(* and it has not been announced.                                          *)
Mine(c) ==
  \A k \in 1..Len(wire) : Answers(k) =>
     /\ pc[c] = "poll" /\ wire[k].kind = op[c] /\ wire[k].inst = inst[c] /\ sync # 2
     /\ \A j \in 1..Len(wire) : Answers(j) => j = k

(* The word is free between calls, or taken since md_start gave up on a    *)
(* login, and 2 means that the caller's own request was taken.             *)
Word(c) ==
  /\ "start" \in blame /\ started =>
       sync # 0 /\ pc[c] \in {"idle", "check", "release", "reset"}
  /\ "start" \notin blame /\ pc[c] \in {"idle", "check", "mark", "release"} => sync = 0
  /\ pc[c] = "send" \/ (pc[c] = "poll" /\ op[c] = "unsubscribe") => sync # 2
  /\ pc[c] = "poll" /\ op[c] = "subscribe" /\ sync = 2 => inst[c] \in ToSet(subPool)

GoodOf(c) == blame \subseteq {"start"} => Mine(c) /\ Word(c)

Good == AbortHasCause /\ \A c \in Callers : GoodOf(c)

LEMMA MineOfNone ==
  ASSUME NEW c, \A k \in 1..Len(wire') : wire'[k].kind = "login"
  PROVE  Mine(c)'
BY DEF Mine, Answers, Requests

LEMMA MineOfRest ==
  ASSUME TypeOK, NEW c, Mine(c), wire # <<>>, wire' = Tail(wire),
         UNCHANGED <<pc, op, inst>>, sync' # 2 \/ Answers(1)
  PROVE  Mine(c)'
<1>1. /\ Len(wire) \in Nat /\ Len(wire) # 0 /\ Len(wire') = Len(wire) - 1
      /\ \A k \in 1..Len(wire') : wire'[k] = wire[k + 1]
  BY HeadTailProperties, LenProperties, EmptySeq DEF TypeOK
<1>2. ASSUME NEW k \in 1..Len(wire'), Answers(k)'
      PROVE  k + 1 \in 1..Len(wire) /\ k + 1 # 1 /\ Answers(k + 1)
  BY <1>1, <1>2 DEF Answers
<1> SUFFICES ASSUME NEW k \in 1..Len(wire'), Answers(k)'
             PROVE  /\ pc[c] = "poll" /\ wire'[k].kind = op[c] /\ wire'[k].inst = inst[c]
                    /\ sync' # 2 /\ \A j \in 1..Len(wire') : Answers(j)' => j = k
  BY DEF Mine
<1>3. 1 \in 1..Len(wire) /\ ~Answers(1)
  BY <1>1, <1>2 DEF Mine
<1>4. pc[c] = "poll" /\ wire'[k].kind = op[c] /\ wire'[k].inst = inst[c]
  BY <1>1, <1>2 DEF Mine
<1>5. ASSUME NEW j \in 1..Len(wire'), Answers(j)' PROVE j = k
  <2>1. j + 1 = k + 1
    BY <1>2, <1>5 DEF Mine
  <2> QED
    BY <1>1, <2>1
<1> QED
  BY <1>3, <1>4, <1>5

LEMMA RestOfMine ==
  ASSUME TypeOK, NEW c, Mine(c), wire # <<>>, wire' = Tail(wire),
         UNCHANGED <<pc, op, inst, sync>>
  PROVE  Mine(c)'
<1>1. CASE sync # 2
  BY <1>1, MineOfRest
<1>2. CASE sync = 2
  <2>1. /\ Len(wire) \in Nat /\ Len(wire') = Len(wire) - 1
        /\ \A k \in 1..Len(wire') : wire'[k] = wire[k + 1]
    BY HeadTailProperties, LenProperties DEF TypeOK
  <2>2. \A k \in 1..Len(wire) : ~Answers(k)
    BY <1>2 DEF Mine
  <2>3. \A k \in 1..Len(wire') : ~Answers(k)'
    BY <2>1, <2>2 DEF Answers
  <2> QED
    BY <2>3 DEF Mine
<1> QED
  BY <1>1, <1>2

(* The calls.                                                              *)
LEMMA CallGood ==
  ASSUME NEW c \in Callers, Life, GoodOf(c), Call(c)
  PROVE  GoodOf(c)'
<1>1. /\ Session /\ LifeOf(c) /\ pc[c] = "idle" /\ sync \in 0..2
      /\ pc \in [Callers -> Steps] /\ op \in [Callers -> Ops]
      /\ inst \in [Callers -> Instruments]
  BY DEF Call, CallStart, CallSubscribe, CallUnsubscribe, CallStop, At, Life, Shape, TypeOK
<1>2. UNCHANGED <<started, sync, wire, subPool, blame>>
  BY DEF Call, CallStart, CallSubscribe, CallUnsubscribe, CallStop, SessionUnchanged,
         frontVars, history
<1> SUFFICES ASSUME blame \subseteq {"start"} PROVE Mine(c)' /\ Word(c)'
  BY <1>2 DEF GoodOf
<1>3. \A k \in 1..Len(wire) : ~Answers(k)
  BY <1>1 DEF GoodOf, Mine
<1>4. Mine(c)'
  BY <1>2, <1>3 DEF Mine, Answers
<1>5. \/ pc'[c] \in {"idle", "check"}
      \/ pc'[c] = "release"
  BY <1>1 DEF Call, CallStart, CallSubscribe, CallUnsubscribe, CallStop, Return, Begin
<1>6. Word(c)'
  BY <1>1, <1>2, <1>5 DEF GoodOf, Word
<1> QED
  BY <1>4, <1>6

(* Return, Goto and the steps they lead to.                                *)
LEMMA ContinueGood ==
  ASSUME NEW c \in Callers, Life, GoodOf(c), Continue(c), ~Abort("call")
  PROVE  GoodOf(c)'
<1>1. /\ Session /\ LifeOf(c) /\ sync \in 0..2 /\ TypeOK
      /\ pc \in [Callers -> Steps] /\ op \in [Callers -> Ops]
      /\ inst \in [Callers -> Instruments] /\ op[c] \in Ops
  BY DEF Life, Shape, TypeOK
<1> USE DEF At, frontVars, history
<1>2. CASE Check(c)
  <2>1. /\ pc[c] = "check" /\ CheckOk(c) /\ pc' = [pc EXCEPT ![c] = "mark"]
        /\ UNCHANGED <<op, inst, started, sync, wire, subPool, blame>>
    BY <1>2 DEF Check, SessionUnchanged, Goto
  <2> SUFFICES ASSUME blame \subseteq {"start"} PROVE Mine(c)' /\ Word(c)'
    BY <2>1 DEF GoodOf
  <2>2. \A k \in 1..Len(wire) : ~Answers(k)
    BY <2>1 DEF GoodOf, Mine
  <2>3. Mine(c)'
    BY <2>1, <2>2 DEF Mine, Answers
  <2>4. Word(c)'
    BY <1>1, <2>1 DEF GoodOf, Word, CheckOk
  <2> QED
    BY <2>3, <2>4
<1>3. CASE MarkStart(c)
  <2>1. /\ pc[c] = "mark" /\ pc' = [pc EXCEPT ![c] = "init"] /\ blame' = {}
        /\ sync' = 1 /\ UNCHANGED <<op, inst, wire>> /\ ~started
    BY <1>1, <1>3 DEF MarkStart, Goto, LifeOf
  <2>2. wire' = <<>>
    BY <1>1, <2>1 DEF Session
  <2>3. Mine(c)'
    BY <2>2, MineOfNone
  <2>4. Word(c)'
    BY <1>1, <2>1 DEF Word
  <2> QED
    BY <2>3, <2>4 DEF GoodOf
<1>4. CASE InitApi(c)
  <2>1. /\ pc[c] = "init" /\ pc' = [pc EXCEPT ![c] = "poll"] /\ op[c] = "start" /\ ~api
        /\ started /\ UNCHANGED <<op, inst, wire, sync, subPool, blame, started>>
    BY <1>1, <1>4 DEF InitApi, Goto, LifeOf
  <2>2. wire' = <<>>
    BY <1>1, <2>1 DEF Session
  <2>3. Mine(c)'
    BY <2>2, MineOfNone
  <2> SUFFICES ASSUME blame \subseteq {"start"} PROVE Word(c)'
    BY <2>1, <2>3 DEF GoodOf
  <2>4. Word(c)'
    BY <1>1, <2>1 DEF GoodOf, Word
  <2> QED
    BY <2>4
<1>5. CASE MarkRequest(c)
  <2>1. /\ pc[c] = "mark" /\ pc' = [pc EXCEPT ![c] = "send"] /\ op[c] \in Requests
        /\ started /\ sync' = 1 /\ UNCHANGED <<op, inst, wire, subPool, blame, started>>
    BY <1>1, <1>5 DEF MarkRequest, Goto, LifeOf, Requests
  <2> SUFFICES ASSUME blame \subseteq {"start"} PROVE Mine(c)' /\ Word(c)'
    BY <2>1 DEF GoodOf
  <2>2. \A k \in 1..Len(wire) : ~Answers(k)
    BY <2>1 DEF GoodOf, Mine
  <2>3. Mine(c)'
    BY <2>1, <2>2 DEF Mine, Answers
  <2>4. Word(c)'
    BY <1>1, <2>1 DEF GoodOf, Word
  <2> QED
    BY <2>3, <2>4
<1>6. CASE Send(c)
  <2>1. /\ pc[c] = "send" /\ pc' = [pc EXCEPT ![c] = "poll"] /\ op[c] \in Requests
        /\ started /\ Request(op[c], inst[c])
        /\ UNCHANGED <<op, inst, sync, subPool, blame, started>>
    BY <1>1, <1>6 DEF Send, Goto, LifeOf
  <2> SUFFICES ASSUME blame \subseteq {"start"} PROVE Mine(c)' /\ Word(c)'
    BY <2>1 DEF GoodOf
  <2>2. \A k \in 1..Len(wire) : ~Answers(k)
    BY <2>1 DEF GoodOf, Mine
  <2>3. sync # 2 /\ "start" \notin blame
    BY <2>1 DEF GoodOf, Word
  <2>4. Mine(c)'
    <3>1. CASE wire' = wire
      BY <2>2, <3>1 DEF Mine, Answers
    <3>2. ASSUME NEW b \in BOOLEAN,
                 wire' = Append(wire, [kind |-> op[c], inst |-> inst[c], ok |-> b])
          PROVE  Mine(c)'
      <4>1. [kind |-> op[c], inst |-> inst[c], ok |-> b] \in Message
        BY <1>1, <2>1 DEF Message
      <4> PICK n \in Nat : n = Len(wire) + 1
        BY <1>1, LenProperties DEF TypeOK
      <4>2. /\ Len(wire') = n /\ \A k \in 1..Len(wire) : wire'[k] = wire[k]
            /\ wire'[n].kind = op[c] /\ wire'[n].inst = inst[c]
        BY <1>1, <3>2, <4>1, AppendProperties DEF TypeOK
      <4>3. ASSUME NEW k \in 1..Len(wire'), Answers(k)' PROVE k = n
        <5>1. k \notin 1..Len(wire)
          BY <2>2, <4>2, <4>3 DEF Answers
        <5> QED
          BY <1>1, <4>2, <5>1, LenProperties DEF TypeOK
      <4>4. pc'[c] = "poll"
        BY <1>1, <2>1
      <4> QED
        BY <2>1, <2>3, <4>2, <4>3, <4>4 DEF Mine
    <3>3. \/ wire' = wire
          \/ \E b \in BOOLEAN :
               wire' = Append(wire, [kind |-> op[c], inst |-> inst[c], ok |-> b])
      BY <2>1 DEF Request
    <3> QED
      BY <3>1, <3>2, <3>3
  <2>5. Word(c)'
    BY <1>1, <2>1, <2>3 DEF Word
  <2> QED
    BY <2>4, <2>5
<1>7. CASE PollHit(c)
  <2>1. /\ pc[c] = "poll" /\ pc' = [pc EXCEPT ![c] = "idle"] /\ sync = 2
        /\ sync' = IF op[c] \in {"start", "subscribe"} THEN 0 ELSE sync
        /\ op' = [op EXCEPT ![c] = op[c]] /\ inst' = [inst EXCEPT ![c] = inst[c]]
        /\ UNCHANGED <<wire, subPool, blame, started>>
    BY <1>7 DEF PollHit, Return
  <2>2. started /\ op[c] # "stop"
    BY <1>1, <2>1 DEF Session, LifeOf
  <2> SUFFICES ASSUME blame \subseteq {"start"} PROVE Mine(c)' /\ Word(c)'
    BY <2>1 DEF GoodOf
  <2>3. \A k \in 1..Len(wire) : ~Answers(k)
    BY <2>1 DEF GoodOf, Mine
  <2>4. Mine(c)'
    BY <2>1, <2>3 DEF Mine, Answers
  <2>5. op[c] \in {"start", "subscribe"} /\ "start" \notin blame
    BY <1>1, <2>1, <2>2 DEF GoodOf, Word, Ops, Requests
  <2>6. Word(c)'
    BY <1>1, <2>1, <2>5 DEF Word
  <2> QED
    BY <2>4, <2>6
<1>8. CASE PollTimeout(c)
  <2>1. /\ pc[c] = "poll" /\ pc' = [pc EXCEPT ![c] = "idle"] /\ sync # 2
        /\ blame' = blame \cup (IF op[c] # "start" THEN {"timeout"}
                                ELSE IF sync # 0 THEN {"start"} ELSE {})
        /\ UNCHANGED <<wire, subPool, started, sync>>
    BY <1>8 DEF PollTimeout, Return
  <2> SUFFICES ASSUME blame' \subseteq {"start"} PROVE Mine(c)' /\ Word(c)'
    BY DEF GoodOf
  <2>2. blame \subseteq {"start"} /\ op[c] = "start" /\ started
    BY <1>1, <2>1 DEF LifeOf
  <2>3. \A k \in 1..Len(wire) : ~Answers(k)
    BY <2>2 DEF GoodOf, Mine, Answers, Requests
  <2>4. Mine(c)'
    BY <2>1, <2>3 DEF Mine, Answers
  <2>5. "start" \notin blame
    BY <2>1, <2>2 DEF GoodOf, Word
  <2>6. "start" \in blame' <=> sync # 0
    BY <2>1, <2>2, <2>5
  <2>7. Word(c)'
    BY <1>1, <2>1, <2>6 DEF Word
  <2> QED
    BY <2>4, <2>7
<1>9. CASE Release(c)
  <2>1. /\ pc[c] = "release" /\ pc' = [pc EXCEPT ![c] = "reset"] /\ wire' = <<>>
        /\ UNCHANGED <<subPool, started, sync, blame>>
    BY <1>9 DEF Release, Goto
  <2>2. Mine(c)'
    BY <2>1, MineOfNone
  <2>3. blame \subseteq {"start"} => Word(c)'
    BY <1>1, <2>1 DEF GoodOf, Word
  <2> QED
    BY <2>1, <2>2, <2>3 DEF GoodOf
<1>10. CASE Reset(c)
  <2>1. /\ pc[c] = "reset" /\ pc' = [pc EXCEPT ![c] = "poll"] /\ UNCHANGED wire
        /\ sync' = 0 /\ ~started'
    BY <1>10 DEF Reset, Goto
  <2>2. wire' = <<>>
    BY <1>1, <2>1 DEF LifeOf, Session
  <2>3. Mine(c)'
    BY <2>2, MineOfNone
  <2>4. Word(c)'
    BY <1>1, <2>1 DEF Word
  <2> QED
    BY <2>3, <2>4 DEF GoodOf
<1> QED
  BY <1>2, <1>3, <1>4, <1>5, <1>6, <1>7, <1>8, <1>9, <1>10 DEF Continue

(* CTP's thread.                                                           *)
LEMMA CtpGood ==
  ASSUME NEW c \in Callers, Life, GoodOf(c), Ctp, ~Abort("relogin")
  PROVE  GoodOf(c)'
<1>1. /\ Session /\ LifeOf(c) /\ TypeOK /\ Distinct(subPool)
  BY DEF Life, Shape
<1>2. UNCHANGED <<pc, op, inst, started>>
  BY DEF Ctp, OnFrontConnected, OnFrontDisconnected, OnRspUserLogin, Resubscribe,
         OnRspSubMarketData, OnRspUnSubMarketData, callerVars
<1> USE DEF history
<1>3. CASE OnFrontConnected \/ OnFrontDisconnected
  <2>1. UNCHANGED <<sync, subPool, blame>>
    BY <1>3 DEF OnFrontConnected, OnFrontDisconnected
  <2>2. \A k \in 1..Len(wire') : wire'[k].kind = "login"
    <3>1. ASSUME NEW b \in BOOLEAN, wire' = <<[kind |-> "login", ok |-> b]>>
          PROVE  \A k \in 1..Len(wire') : wire'[k].kind = "login"
      BY <3>1
    <3>2. CASE wire' = <<>>
      BY <3>2
    <3> QED
      BY <1>3, <3>1, <3>2 DEF OnFrontConnected, OnFrontDisconnected
  <2>3. Mine(c)'
    BY <2>2, MineOfNone
  <2> QED
    BY <1>2, <2>1, <2>3 DEF GoodOf, Word
<1>4. CASE OnRspUserLogin
  <2>1. /\ wire # <<>> /\ wire' = Tail(wire) /\ wire[1].kind = "login"
        /\ Head(wire) = wire[1] /\ UNCHANGED subPool
    BY <1>1, <1>4, HeadTailProperties DEF OnRspUserLogin, Arrives, TypeOK
  <2>2. \/ /\ sync' = 0
           /\ blame' = (blame \ {"start"}) \cup (IF subPool = <<>> THEN {} ELSE {"relogin"})
        \/ UNCHANGED <<sync, blame>>
    BY <1>4 DEF OnRspUserLogin
  <2> SUFFICES ASSUME blame' \subseteq {"start"} PROVE Mine(c)' /\ Word(c)'
    BY DEF GoodOf
  <2>3. /\ blame \subseteq {"start"}
        /\ (sync' = 0 /\ "start" \notin blame') \/ UNCHANGED <<sync, blame>>
    BY <2>2
  <2>4. Mine(c) /\ Word(c)
    BY <2>3 DEF GoodOf
  <2>5. Mine(c)'
    <3>1. CASE \A k \in 1..Len(wire) : ~Answers(k)
      <4>1. /\ Len(wire) \in Nat /\ Len(wire') = Len(wire) - 1
            /\ \A k \in 1..Len(wire') : wire'[k] = wire[k + 1]
        BY <1>1, <2>1, HeadTailProperties, LenProperties DEF TypeOK
      <4>2. \A k \in 1..Len(wire') : ~Answers(k)'
        BY <3>1, <4>1 DEF Answers
      <4> QED
        BY <4>2 DEF Mine
    <3>2. CASE \E k \in 1..Len(wire) : Answers(k)
      <4>1. sync' # 2
        BY <2>3, <2>4, <3>2 DEF Mine
      <4> QED
        BY <1>1, <1>2, <2>1, <2>4, <4>1, MineOfRest
    <3> QED
      BY <3>1, <3>2
  <2>6. Word(c)'
    BY <1>2, <2>1, <2>3, <2>4 DEF Word
  <2> QED
    BY <2>5, <2>6
<1>5. CASE Resubscribe
  <2>1. "relogin" \in blame /\ UNCHANGED blame
    BY <1>1, <1>5 DEF Resubscribe, Session
  <2> QED
    BY <2>1 DEF GoodOf
<1>6. CASE OnRspSubMarketData
  <2>1. /\ wire # <<>> /\ wire' = Tail(wire) /\ wire[1].kind = "subscribe"
        /\ Head(wire) = wire[1] /\ wire[1] \in Message /\ UNCHANGED blame
        /\ 1 \in 1..Len(wire)
    BY <1>1, <1>6, HeadTailProperties, LenProperties, EmptySeq
       DEF OnRspSubMarketData, Arrives, TypeOK
  <2>2. wire[1].inst \in Instruments /\ "subscribe" \in Requests
    BY <2>1 DEF Message, Requests
  <2> SUFFICES ASSUME blame \subseteq {"start"} PROVE Mine(c)' /\ Word(c)'
    BY <2>1 DEF GoodOf
  <2>3. Mine(c) /\ Word(c)
    BY DEF GoodOf
  <2>4. CASE wire[1].ok
    <3>1. Answers(1)
      BY <2>1, <2>2, <2>4 DEF Answers
    <3>2. pc[c] = "poll" /\ op[c] = "subscribe" /\ inst[c] = wire[1].inst
      BY <2>1, <2>3, <3>1 DEF Mine
    <3>3. sync' = 2 /\ inst[c] \in ToSet(subPool')
      <4>1. Contains(subPool, inst[c]) => inst[c] \in ToSet(subPool)
        BY <1>1, LenProperties DEF Contains, ToSet, TypeOK
      <4>2. inst[c] \in ToSet(Append(subPool, inst[c]))
        BY <1>1, <2>2, <3>2, ElementsOfAppend DEF TypeOK
      <4> QED
        BY <1>6, <2>1, <2>4, <3>2, <4>1, <4>2 DEF OnRspSubMarketData
    <3>4. Mine(c)'
      BY <1>1, <1>2, <2>1, <2>3, <3>1, MineOfRest
    <3>5. "start" \notin blame
      BY <1>1, <2>3, <3>2 DEF Word, LifeOf
    <3> QED
      BY <1>2, <2>1, <3>2, <3>3, <3>4, <3>5 DEF Word
  <2>5. CASE ~wire[1].ok
    <3>1. UNCHANGED <<sync, subPool>> /\ ~Answers(1)
      BY <1>6, <2>1, <2>5 DEF OnRspSubMarketData, Answers
    <3>2. Mine(c)'
      BY <1>1, <1>2, <2>1, <2>3, <3>1, RestOfMine
    <3> QED
      BY <1>2, <2>1, <2>3, <3>1, <3>2 DEF Word
  <2> QED
    BY <2>4, <2>5
<1>7. CASE OnRspUnSubMarketData
  <2>1. /\ wire # <<>> /\ wire' = Tail(wire) /\ wire[1].kind = "unsubscribe"
        /\ Head(wire) = wire[1] /\ wire[1] \in Message /\ UNCHANGED <<blame, sync>>
        /\ 1 \in 1..Len(wire)
    BY <1>1, <1>7, HeadTailProperties, LenProperties, EmptySeq
       DEF OnRspUnSubMarketData, Arrives, TypeOK
  <2> SUFFICES ASSUME blame \subseteq {"start"} PROVE Mine(c)' /\ Word(c)'
    BY <2>1 DEF GoodOf
  <2>2. Mine(c) /\ Word(c)
    BY DEF GoodOf
  <2>3. Mine(c)'
    BY <1>1, <1>2, <2>1, <2>2, RestOfMine
  <2>4. wire[1].ok => pc[c] = "poll" /\ op[c] = "unsubscribe"
    BY <2>1, <2>2 DEF Mine, Answers, Requests
  <2>5. ~wire[1].ok => UNCHANGED subPool
    BY <1>7, <2>1 DEF OnRspUnSubMarketData
  <2>6. Word(c)'
    BY <1>2, <2>1, <2>2, <2>4, <2>5 DEF Word
  <2> QED
    BY <2>3, <2>6
<1> QED
  BY <1>3, <1>4, <1>5, <1>6, <1>7 DEF Ctp

(* A CHECK that fails has its cause.                                       *)
LEMMA AbortGood ==
  ASSUME Life, Good, Next
  PROVE  AbortHasCause'
<1>1. /\ Session /\ TypeOK /\ AbortHasCause
  BY DEF Life, Shape, Good
<1>2. CASE UNCHANGED abort
  <2>1. CASE abort = "none"
    BY <1>2, <2>1 DEF AbortHasCause
  <2>2. CASE abort # "none"
    BY <2>2 DEF Next, Call, CallStart, CallSubscribe, CallUnsubscribe, CallStop, Continue,
                Check, MarkStart, InitApi, MarkRequest, Send, PollHit, PollTimeout, Release,
                Reset, Ctp, OnFrontConnected, OnFrontDisconnected, OnRspUserLogin,
                Resubscribe, OnRspSubMarketData, OnRspUnSubMarketData, Arrives, CtpRuns, At
  <2> QED
    BY <2>1, <2>2
<1>3. ASSUME NEW c \in Callers, Continue(c), ~UNCHANGED abort PROVE AbortHasCause'
  <2>1. LifeOf(c) /\ GoodOf(c)
    BY DEF Life, Good
  <2>2. UNCHANGED blame /\ (Check(c) \/ Send(c) \/ Release(c)) /\ Abort("call")
    BY <1>3 DEF Continue, Check, MarkStart, InitApi, MarkRequest, Send, PollHit, PollTimeout,
                Release, Reset, Abort, SessionUnchanged, history
  <2>3. CASE Check(c)
    <3>1. pc[c] = "check" /\ ~CheckOk(c)
      BY <1>3, <2>3 DEF Check, At, SessionUnchanged
    <3>2. sync # 0
      BY <2>1, <3>1 DEF CheckOk, LifeOf
    <3>3. blame # {}
      BY <2>1, <3>1, <3>2 DEF GoodOf, Word
    <3> QED
      BY <2>2, <3>3 DEF AbortHasCause
  <2>4. CASE Send(c) \/ Release(c)
    <3>1. pc[c] \in {"send", "release"} /\ ~api
      BY <1>3, <2>4 DEF Send, Release, At
    <3>2. FALSE
      BY <2>1, <3>1 DEF LifeOf
    <3> QED
      BY <3>2
  <2> QED
    BY <2>2, <2>3, <2>4
<1>4. CASE Ctp /\ ~UNCHANGED abort
  <2>1. UNCHANGED blame /\ Resubscribe
    BY <1>4 DEF Ctp, OnFrontConnected, OnFrontDisconnected, OnRspUserLogin, Resubscribe,
                OnRspSubMarketData, OnRspUnSubMarketData, Abort, history
  <2>2. blame # {}
    BY <1>1, <2>1 DEF Resubscribe, Session
  <2> QED
    BY <2>1, <2>2 DEF AbortHasCause
<1>5. ASSUME NEW c \in Callers, Call(c) PROVE UNCHANGED abort
  BY <1>5 DEF Call, CallStart, CallSubscribe, CallUnsubscribe, CallStop, SessionUnchanged
<1> QED
  BY <1>2, <1>3, <1>4, <1>5 DEF Next

LEMMA GoodStep == OneCaller /\ Life /\ Good /\ [Next]_vars => Good'
<1> SUFFICES ASSUME OneCaller, Life, Good, [Next]_vars PROVE Good'
  OBVIOUS
<1>1. ASSUME NEW c \in Callers, NEW who, Abort(who) PROVE GoodOf(c)'
  BY <1>1 DEF Good, GoodOf, Mine, Answers, Word, Abort, callerVars, frontVars, history
<1>2. CASE Next
  <2>1. ASSUME NEW c \in Callers PROVE GoodOf(c)'
    BY <1>1, <1>2, <2>1, CallGood, ContinueGood, CtpGood DEF Next, OneCaller, Good
  <2> QED
    BY <1>2, <2>1, AbortGood DEF Good
<1>3. CASE UNCHANGED vars
  BY <1>3 DEF Good, AbortHasCause, GoodOf, Mine, Answers, Word, vars, callerVars,
              frontVars, history
<1> QED
  BY <1>2, <1>3

LEMMA InitGood == Init => Good
<1> SUFFICES ASSUME Init PROVE Good
  OBVIOUS
<1>1. wire = <<>> /\ sync = 0 /\ blame = {} /\ abort = "none"
      /\ \A c \in Callers : pc[c] = "idle"
  BY DEF Init
<1>2. \A k \in 1..Len(wire) : FALSE
  BY <1>1
<1> QED
  BY <1>1, <1>2 DEF Good, AbortHasCause, GoodOf, Mine, Word

(* With one calling thread a CHECK fails only for one of the three causes. *)
THEOREM AbortsAreCaused == ASSUME OneCaller PROVE Spec => []AbortHasCause
<1>1. Good => AbortHasCause
  BY DEF Good
<1> QED
  BY <1>1, InitLife, InitGood, LifeStep, GoodStep, PTL DEF Spec

(* With one calling thread STATUS_OK of md_subscribe means that its        *)
(* instrument is in the pool, up to time-outs and re-logins.               *)
THEOREM OksAreSubscribed == ASSUME OneCaller PROVE Spec => OkMeansSubscribed
<1> DEFINE Step == \A c \in Callers :
             (pc[c] = "poll" /\ op[c] = "subscribe" /\ pc'[c] = "idle" /\ status'[c] = "OK")
               => (inst[c] \in ToSet(subPool) \/ blame \cap {"timeout", "relogin"} # {})
<1>1. Life /\ Good /\ [Next]_vars => [Step]_vars
  <2> SUFFICES ASSUME Life, Good, Next, NEW c \in Callers,
                      pc[c] = "poll", op[c] = "subscribe", pc'[c] = "idle",
                      status'[c] = "OK"
               PROVE  inst[c] \in ToSet(subPool) \/ blame \cap {"timeout", "relogin"} # {}
    OBVIOUS
  <2>1. GoodOf(c) /\ TypeOK
    BY DEF Good, Life, Shape
  <2>2. ~Ctp
    BY DEF Ctp, OnFrontConnected, OnFrontDisconnected, OnRspUserLogin, Resubscribe,
           OnRspSubMarketData, OnRspUnSubMarketData, Abort, callerVars
  <2>3. ~Call(c)
    BY DEF Call, CallStart, CallSubscribe, CallUnsubscribe, CallStop, At
  <2>4. Continue(c)
    BY <2>2, <2>3 DEF Next, OneCaller
  <2>5. CASE PollHit(c)
    <3>1. sync = 2
      BY <2>5 DEF PollHit
    <3>2. blame \subseteq {"start"} \/ blame \cap {"timeout", "relogin"} # {}
      BY <2>1 DEF TypeOK
    <3> QED
      BY <2>1, <3>1, <3>2 DEF GoodOf, Word
  <2>6. CASE PollTimeout(c)
    BY <2>1, <2>6 DEF PollTimeout, Return, TypeOK
  <2> QED
    BY <2>4, <2>5, <2>6 DEF Continue, Check, MarkStart, InitApi, MarkRequest, Send, Release,
                            Reset, Abort, At
<1> QED
  BY <1>1, InitLife, InitGood, LifeStep, GoodStep, PTL DEF Spec, OkMeansSubscribed
=============================================================================
