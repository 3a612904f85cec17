-------------------------- MODULE TickQueueProofs --------------------------
(***************************************************************************)
(* Proofs about TickQueue for every set of consumers and every number of   *)
(* ticks and sessions.                                                     *)
(***************************************************************************)
EXTENDS TickQueue, SequenceTheorems, TLAPS

(* Where the thread of md_start and md_stop stands, and what the flags and *)
(* the list owe to it: the list is empty before a session opens, and holds *)
(* ticks of that session only.                                             *)
Phases ==
  /\ control \in {"lower", "open", "sleep", "down"} => started
  /\ control \in {"quit", "need", "free"} => ~started
  /\ live => started /\ control \in {"idle", "sleep"}
  /\ started /\ control \notin {"lower", "open"} => session >= 1
  /\ control \in {"lower", "open"} => session < MaxSessions
  /\ control \in {"lower", "open"} \/ (control = "idle" /\ ~started) => ticks = <<>>
  /\ \A i \in DOMAIN ticks : ticks[i].s = session

IInv == TypeOK /\ Phases

-----------------------------------------------------------------------------
(* The queue begins in the invariant.                                      *)
LEMMA InitIInv == Init => IInv
<1> SUFFICES ASSUME Init PROVE IInv
  OBVIOUS
<1>1. <<>> \in Seq(Tick)
  OBVIOUS
<1>2. TypeOK
  <2>1. pc \in [Consumers -> Steps]
    BY DEF Init, Steps
  <2>2. ret \in [Consumers -> {"NONE", "OK", "QUIT", "TIMEOUT", "STOPPED"}]
    BY DEF Init
  <2>3. session \in 0 .. MaxSessions /\ arrived \in 0 .. MaxTicks
    BY TickAssumption DEF Init
  <2> QED
    BY <1>1, <2>1, <2>2, <2>3 DEF Init, TypeOK, Controls
<1>3. Phases
  BY DEF Init, Phases
<1> QED
  BY <1>2, <1>3 DEF IInv

(* A consumer that returns.                                                *)
LEMMA ReturnType ==
  ASSUME TypeOK, NEW c \in Consumers, NEW s \in {"OK", "QUIT", "TIMEOUT"}, Return(c, s)
  PROVE  /\ owner' \in Consumers \cup {Nobody}
         /\ pc' \in [Consumers -> Steps]
         /\ ret' \in [Consumers -> {"NONE", "OK", "QUIT", "TIMEOUT", "STOPPED"}]
         /\ early' \subseteq Consumers /\ overlapped' \subseteq Consumers
  BY DEF TypeOK, Return, Steps

(* wait_for or the hand-over of the front keeps the list one of ticks of   *)
(* this session, and the ticks that leave it are of this session.          *)
LEMMA WaitOrPopStep ==
  ASSUME IInv, NEW c \in Consumers, NEW flag \in BOOLEAN, WaitOrPop(c, flag),
         session' = session
  PROVE  /\ need_notify' \in BOOLEAN
         /\ ticks' \in Seq(Tick) /\ popped' \in Seq(Tick)
         /\ owner' \in Consumers \cup {Nobody}
         /\ pc' \in [Consumers -> Steps]
         /\ ret' \in [Consumers -> {"NONE", "OK", "QUIT", "TIMEOUT", "STOPPED"}]
         /\ early' \subseteq Consumers /\ overlapped' \subseteq Consumers
         /\ ticks = <<>> => ticks' = <<>>
         /\ \A i \in DOMAIN ticks' : ticks'[i].s = session'
         /\ popped' # popped => Last(popped').s = session
<1>1. CASE /\ ticks = <<>> /\ need_notify' = TRUE /\ owner' = Nobody
           /\ pc' = [pc EXCEPT ![c] = "wait"]
           /\ UNCHANGED <<ticks, ret, popped, early, overlapped>>
  BY <1>1 DEF IInv, TypeOK, Phases, Steps
<1>2. CASE /\ ticks # <<>> /\ need_notify' = flag
           /\ popped' = Append(popped, Head(ticks))
           /\ ticks' = Tail(ticks) /\ Return(c, "OK")
  <2>1. ticks \in Seq(Tick) /\ popped \in Seq(Tick)
    BY DEF IInv, TypeOK
  <2>2. /\ Head(ticks) \in Tick /\ Tail(ticks) \in Seq(Tick)
        /\ Len(Tail(ticks)) = Len(ticks) - 1
        /\ \A i \in 1 .. Len(Tail(ticks)) : Tail(ticks)[i] = ticks[i + 1]
    BY <1>2, <2>1, HeadTailProperties
  <2>3. popped' \in Seq(Tick) /\ Last(popped') = Head(ticks)
    BY <1>2, <2>1, <2>2 DEF Last
  <2>4. Head(ticks).s = session
    <3>1. 1 \in DOMAIN ticks /\ Head(ticks) = ticks[1]
      BY <1>2, <2>1
    <3> QED
      BY <3>1 DEF IInv, Phases
  <2>5. \A i \in DOMAIN ticks' : ticks'[i].s = session
    <3> SUFFICES ASSUME NEW i \in DOMAIN ticks' PROVE ticks'[i].s = session
      OBVIOUS
    <3>1. i \in 1 .. Len(ticks) - 1 /\ ticks'[i] = ticks[i + 1] /\ Len(ticks) \in Nat
      BY <1>2, <2>1, <2>2
    <3>2. i + 1 \in DOMAIN ticks
      BY <2>1, <3>1
    <3> QED
      BY <3>1, <3>2 DEF IInv, Phases
  <2>6. /\ owner' \in Consumers \cup {Nobody} /\ pc' \in [Consumers -> Steps]
        /\ ret' \in [Consumers -> {"NONE", "OK", "QUIT", "TIMEOUT", "STOPPED"}]
    BY <1>2, ReturnType DEF IInv
  <2>7. early' \subseteq Consumers /\ overlapped' \subseteq Consumers
    BY <1>2, ReturnType DEF IInv
  <2> QED
    BY <1>2, <2>2, <2>3, <2>4, <2>5, <2>6, <2>7
<1> QED
  BY <1>1, <1>2 DEF WaitOrPop

(* A consumer's step keeps the invariant.                                  *)
LEMMA ConsumeStep ==
  ASSUME IInv, NEW c \in Consumers, Consume(c)
  PROVE  /\ IInv'
         /\ popped' # popped => Last(popped').s = session
<1> USE DEF IInv
<1>1. CASE Query(c)
  <2>1. TypeOK' /\ popped' = popped
    BY <1>1 DEF Query, Step, TypeOK, Steps, flags, feed
  <2>2. Phases'
    BY <1>1 DEF Query, Phases, flags, feed
  <2> QED
    BY <2>1, <2>2
<1>2. CASE Lock(c)
  <2>1. TypeOK' /\ popped' = popped
    BY <1>2 DEF Lock, Step, TypeOK, Steps, flags, history, feed
  <2>2. Phases'
    BY <1>2 DEF Lock, Phases, flags, history, feed
  <2> QED
    BY <2>1, <2>2
<1>3. CASE Expire(c) \/ Spurious(c)
  <2>1. TypeOK' /\ popped' = popped
    BY <1>3 DEF Expire, Spurious, Step, TypeOK, Steps, flags, history, feed
  <2>2. Phases'
    BY <1>3 DEF Expire, Spurious, Phases, flags, history, feed
  <2> QED
    BY <2>1, <2>2
<1>4. ASSUME NEW flag \in BOOLEAN, WaitOrPop(c, flag), outrun' \subseteq Consumers,
             UNCHANGED <<started, quit_flag, live, control, race, session, arrived,
                         discarded>>
      PROVE  IInv' /\ (popped' # popped => Last(popped').s = session)
  <2>1. /\ need_notify' \in BOOLEAN
        /\ ticks' \in Seq(Tick) /\ popped' \in Seq(Tick)
        /\ owner' \in Consumers \cup {Nobody}
        /\ pc' \in [Consumers -> Steps]
        /\ ret' \in [Consumers -> {"NONE", "OK", "QUIT", "TIMEOUT", "STOPPED"}]
        /\ early' \subseteq Consumers /\ overlapped' \subseteq Consumers
        /\ ticks = <<>> => ticks' = <<>>
        /\ \A i \in DOMAIN ticks' : ticks'[i].s = session'
        /\ popped' # popped => Last(popped').s = session
    BY <1>4, WaitOrPopStep
  <2>2. TypeOK'
    BY <1>4, <2>1 DEF TypeOK
  <2>3. Phases'
    BY <1>4, <2>1 DEF Phases
  <2> QED
    BY <2>1, <2>2, <2>3
<1>5. CASE Body(c)
  <2>1. WaitOrPop(c, need_notify) /\ need_notify \in BOOLEAN /\ outrun' \subseteq Consumers
    BY <1>5 DEF Body, TypeOK
  <2>2. UNCHANGED <<started, quit_flag, live, control, race, session, arrived, discarded>>
    BY <1>5 DEF Body
  <2> QED
    BY <1>4, <2>1, <2>2
<1>6. CASE AfterWait(c)
  <2> UNCHANGED <<started, quit_flag, live, control, race, session, arrived, discarded>>
    BY <1>6 DEF AfterWait
  <2>1. outrun' \subseteq Consumers
    BY <1>6 DEF AfterWait, Sleepers
  <2>2. CASE /\ \E s \in {"QUIT", "TIMEOUT"} : Return(c, s)
             /\ need_notify' = FALSE /\ UNCHANGED <<ticks, popped>>
    <3>1. /\ owner' \in Consumers \cup {Nobody} /\ pc' \in [Consumers -> Steps]
          /\ ret' \in [Consumers -> {"NONE", "OK", "QUIT", "TIMEOUT", "STOPPED"}]
          /\ early' \subseteq Consumers /\ overlapped' \subseteq Consumers
      BY <2>2, ReturnType
    <3>2. TypeOK'
      BY <2>1, <2>2, <3>1 DEF TypeOK
    <3>3. Phases'
      BY <2>2 DEF Phases
    <3> QED
      BY <2>2, <3>2, <3>3
  <2>3. CASE WaitOrPop(c, FALSE)
    BY <1>4, <2>1, <2>3
  <2> QED
    BY <1>6, <2>2, <2>3 DEF AfterWait
<1> QED
  BY <1>1, <1>2, <1>3, <1>5, <1>6 DEF Consume

(* So do a tick's arrival, md_start and the steps of md_stop.              *)
LEMMA ArriveStep ==
  ASSUME IInv, OnRtnDepthMarketData
  PROVE  IInv' /\ popped' = popped
<1> USE DEF IInv
<1> DEFINE t == [n |-> arrived', s |-> session]
<1>1. t \in Tick
  BY TickAssumption DEF OnRtnDepthMarketData, TypeOK, Phases, Tick
<1>2. ticks' = Append(ticks, t) /\ ticks' \in Seq(Tick)
  BY <1>1 DEF OnRtnDepthMarketData, TypeOK
<1>3. pc' \in [Consumers -> Steps]
  BY DEF OnRtnDepthMarketData, TypeOK, Sleepers, Steps
<1>4. TypeOK'
  BY <1>2, <1>3, TickAssumption DEF OnRtnDepthMarketData, TypeOK, flags
<1>5. \A i \in DOMAIN ticks' : ticks'[i].s = session'
  BY <1>2 DEF OnRtnDepthMarketData, TypeOK, Phases
<1>6. Phases'
  BY <1>5 DEF OnRtnDepthMarketData, Phases, flags
<1> QED
  BY <1>4, <1>6 DEF OnRtnDepthMarketData

(* md_start opens a session over an empty list; md_stop empties it again.  *)
LEMMA StartStopStep ==
  ASSUME IInv, Start \/ Stop
  PROVE  IInv' /\ popped' = popped
<1> USE DEF IInv
<1>1. CASE Start
  <2>1. session' \in 0 .. MaxSessions
    <3>1. CASE session' = session
      BY <3>1 DEF TypeOK
    <3>2. CASE control = "open" /\ session' = session + 1
      <4>1. session < MaxSessions
        BY <3>2 DEF Phases
      <4> QED
        BY <3>2, <4>1, TickAssumption DEF TypeOK
    <3> QED
      BY <1>1, <3>1, <3>2 DEF Start, Goes, history, feed
  <2>2. TypeOK'
    BY <1>1, <2>1 DEF Start, Goes, TypeOK, Controls, Calling, history, feed
  <2>3. Phases'
    BY <1>1 DEF Start, Goes, Phases, TypeOK, history, feed
  <2>4. popped' = popped
    BY <1>1 DEF Start, history, feed
  <2> QED
    BY <2>2, <2>3, <2>4
<1>2. CASE StopQuit
  <2>1. TypeOK'
    BY <1>2 DEF StopQuit, Goes, TypeOK, Steps, Controls, Calling, feed
  <2>2. Phases'
    BY <1>2 DEF StopQuit, Goes, Phases, feed
  <2> QED
    BY <1>2, <2>1, <2>2 DEF StopQuit, feed
<1>3. CASE StopRelease \/ StopReset \/ Collide
  <2>1. TypeOK'
    BY <1>3 DEF StopRelease, StopReset, Collide, Goes, TypeOK, Controls, flags, history, feed
  <2>2. Phases'
    BY <1>3 DEF StopRelease, StopReset, Collide, Goes, Phases, flags, history, feed
  <2>3. popped' = popped
    BY <1>3 DEF StopRelease, StopReset, Collide, history, feed
  <2> QED
    BY <2>1, <2>2, <2>3
<1>4. CASE StopClear
  <2>1. {t.n : t \in ToSet(ticks)} \subseteq 1 .. MaxTicks
    <3>1. \A i \in DOMAIN ticks : ticks[i] \in Tick
      BY DEF TypeOK
    <3>2. \A t \in Tick : t.n \in 1 .. MaxTicks
      BY DEF Tick
    <3> QED
      BY <3>1, <3>2 DEF ToSet
  <2>2. TypeOK'
    <3>1. discarded' \subseteq 1 .. MaxTicks
      BY <1>4, <2>1 DEF StopClear, TypeOK
    <3>2. ticks' \in Seq(Tick)
      BY <1>4 DEF StopClear
    <3> QED
      BY <1>4, <3>1, <3>2 DEF StopClear, Goes, TypeOK, Controls, flags
  <2>3. Phases'
    BY <1>4 DEF StopClear, Goes, Phases, flags
  <2> QED
    BY <1>4, <2>2, <2>3 DEF StopClear
<1> QED
  BY <1>1, <1>2, <1>3, <1>4 DEF Stop

(* Every step keeps the invariant.                                         *)
LEMMA NextIInv == IInv /\ [Next]_vars => IInv'
<1> SUFFICES ASSUME IInv, [Next]_vars PROVE IInv'
  OBVIOUS
<1>1. CASE \E c \in Consumers : Consume(c)
  BY <1>1, ConsumeStep
<1>2. CASE OnRtnDepthMarketData
  BY <1>2, ArriveStep
<1>3. CASE Start \/ Stop
  BY <1>3, StartStopStep
<1>4. CASE UNCHANGED vars
  BY <1>4 DEF vars, flags, history, feed, IInv, TypeOK, Phases
<1> QED
  BY <1>1, <1>2, <1>3, <1>4 DEF Next

-----------------------------------------------------------------------------
(* The shape of the queue, whatever the threads do.                        *)
THEOREM TypeCorrect == Spec => []TypeOK
<1>1. IInv => TypeOK
  BY DEF IInv
<1> QED
  BY <1>1, InitIInv, NextIInv, PTL DEF Spec

(* No consumer is handed a tick of a session that has ended.               *)
THEOREM SessionsAreClean == Spec => SessionClean
<1>1. IInv /\ [Next]_vars => [popped' # popped => Last(popped').s = session]_vars
  <2> SUFFICES ASSUME IInv, Next, popped' # popped PROVE Last(popped').s = session
    BY DEF vars, history, feed
  <2> QED
    BY ConsumeStep, ArriveStep, StartStopStep DEF Next
<1> QED
  BY <1>1, InitIInv, NextIInv, PTL DEF Spec, SessionClean

-----------------------------------------------------------------------------
(* The ticks in the order in which they came: handed over, then queued.    *)
All == popped \o ticks
Numbers(q) == {t.n : t \in ToSet(q)}

(* Moving the front of one sequence to the end of another keeps the two    *)
(* together as they are.                                                   *)
LEMMA MoveFront ==
  ASSUME NEW S, NEW p \in Seq(S), NEW q \in Seq(S), q # <<>>
  PROVE  Append(p, Head(q)) \o Tail(q) = p \o q
<1>1. /\ Head(q) \in S /\ Tail(q) \in Seq(S) /\ Len(Tail(q)) = Len(q) - 1
      /\ \A i \in 1 .. Len(Tail(q)) : Tail(q)[i] = q[i + 1]
      /\ Head(q) = q[1] /\ Len(q) \in Nat /\ Len(q) >= 1 /\ Len(p) \in Nat
  BY HeadTailProperties, EmptySeq
<1> DEFINE a == Append(p, Head(q))
           l == a \o Tail(q)
           r == p \o q
<1>2. /\ a \in Seq(S) /\ Len(a) = Len(p) + 1 /\ a[Len(p) + 1] = Head(q)
      /\ \A i \in 1 .. Len(p) : a[i] = p[i]
  BY <1>1, AppendProperties
<1> HIDE DEF a
<1>3. /\ l \in Seq(S) /\ Len(l) = Len(a) + Len(Tail(q))
      /\ \A i \in 1 .. Len(a) + Len(Tail(q)) :
           l[i] = IF i <= Len(a) THEN a[i] ELSE Tail(q)[i - Len(a)]
  BY <1>1, <1>2, ConcatProperties
<1>4. /\ r \in Seq(S) /\ Len(r) = Len(p) + Len(q)
      /\ \A i \in 1 .. Len(p) + Len(q) :
           r[i] = IF i <= Len(p) THEN p[i] ELSE q[i - Len(p)]
  BY ConcatProperties
<1> HIDE DEF l, r
<1>5. Len(l) = Len(r)
  BY <1>1, <1>2, <1>3, <1>4
<1>6. ASSUME NEW i \in 1 .. Len(l) PROVE l[i] = r[i]
  <2>1. /\ i \in Nat /\ i >= 1 /\ Len(p) \in Nat /\ Len(a) = Len(p) + 1
        /\ i \in 1 .. Len(a) + Len(Tail(q)) /\ i \in 1 .. Len(p) + Len(q)
        /\ i - Len(a) + 1 = i - Len(p)
    BY <1>1, <1>2, <1>3, <1>4, <1>5
  <2>2. l[i] = IF i <= Len(a) THEN a[i] ELSE Tail(q)[i - Len(a)]
    BY <1>3, <2>1
  <2>3. r[i] = IF i <= Len(p) THEN p[i] ELSE q[i - Len(p)]
    BY <1>4, <2>1
  <2>4. CASE i <= Len(p)
    <3>1. a[i] = p[i]
      BY <1>2, <2>1, <2>4
    <3> QED
      BY <2>1, <2>2, <2>3, <2>4, <3>1
  <2>5. CASE i = Len(p) + 1
    <3>1. a[i] = q[1] /\ i - Len(p) = 1
      BY <1>1, <1>2, <2>1, <2>5
    <3> QED
      BY <2>1, <2>2, <2>3, <2>5, <3>1
  <2>6. CASE i > Len(p) + 1
    <3>1. i - Len(a) \in 1 .. Len(Tail(q))
      BY <1>1, <2>1, <2>6
    <3>2. Tail(q)[i - Len(a)] = q[i - Len(p)]
      BY <1>1, <2>1, <3>1
    <3> QED
      BY <2>1, <2>2, <2>3, <2>6, <3>2
  <2> QED
    BY <2>1, <2>4, <2>5, <2>6
<1>7. l = r
  BY <1>3, <1>4, <1>5, <1>6, SeqEqual
<1> QED
  BY <1>7 DEF l, r, a

(* The numbers of a sequence with one more tick.                           *)
LEMMA NumbersAppend ==
  ASSUME NEW q \in Seq(Tick), NEW t \in Tick
  PROVE  Numbers(Append(q, t)) = Numbers(q) \cup {t.n}
<1>1. /\ Len(Append(q, t)) = Len(q) + 1 /\ Append(q, t)[Len(q) + 1] = t
      /\ \A i \in 1 .. Len(q) : Append(q, t)[i] = q[i]
      /\ DOMAIN Append(q, t) = 1 .. Len(q) + 1 /\ DOMAIN q = 1 .. Len(q) /\ Len(q) \in Nat
  BY AppendProperties
<1>2. ToSet(Append(q, t)) = ToSet(q) \cup {t}
  BY <1>1 DEF ToSet
<1> QED
  BY <1>2 DEF Numbers

(* The numbers of two sequences of ticks put together.                     *)
LEMMA NumbersConcat ==
  ASSUME NEW p \in Seq(Tick), NEW q \in Seq(Tick)
  PROVE  Numbers(p \o q) = Numbers(p) \cup Numbers(q)
<1>1. /\ p \o q \in Seq(Tick) /\ Len(p \o q) = Len(p) + Len(q)
      /\ \A i \in 1 .. Len(p) + Len(q) :
           (p \o q)[i] = IF i <= Len(p) THEN p[i] ELSE q[i - Len(p)]
      /\ Len(p) \in Nat /\ Len(q) \in Nat
  BY ConcatProperties
<1>2. /\ DOMAIN (p \o q) = 1 .. Len(p) + Len(q)
      /\ DOMAIN p = 1 .. Len(p) /\ DOMAIN q = 1 .. Len(q)
  BY <1>1
<1> DEFINE pq == p \o q
<1> HIDE DEF pq
<1>3. ToSet(pq) \subseteq ToSet(p) \cup ToSet(q)
  BY <1>1, <1>2 DEF ToSet, pq
<1>4. ToSet(p) \subseteq ToSet(pq)
  BY <1>1, <1>2 DEF ToSet, pq
<1>5. ToSet(q) \subseteq ToSet(pq)
  <2> SUFFICES ASSUME NEW j \in 1 .. Len(q) PROVE q[j] \in ToSet(pq)
    BY <1>2 DEF ToSet
  <2>1. Len(p) + j \in DOMAIN pq /\ pq[Len(p) + j] = q[j]
    BY <1>1, <1>2 DEF pq
  <2> QED
    BY <2>1 DEF ToSet
<1>6. ToSet(pq) = ToSet(p) \cup ToSet(q)
  BY <1>3, <1>4, <1>5
<1> QED
  BY <1>6 DEF Numbers, pq

(* A tick that comes goes behind all the others.                           *)
LEMMA ConcatAppend ==
  ASSUME NEW S, NEW p \in Seq(S), NEW q \in Seq(S), NEW t \in S
  PROVE  p \o Append(q, t) = Append(p \o q, t)
<1> DEFINE a == Append(q, t)
           r == p \o q
           l == p \o a
           k == Append(r, t)
<1>1. /\ a \in Seq(S) /\ Len(a) = Len(q) + 1 /\ a[Len(q) + 1] = t
      /\ \A i \in 1 .. Len(q) : a[i] = q[i]
      /\ Len(p) \in Nat /\ Len(q) \in Nat
  BY AppendProperties
<1>2. /\ r \in Seq(S) /\ Len(r) = Len(p) + Len(q)
      /\ \A i \in 1 .. Len(p) + Len(q) :
           r[i] = IF i <= Len(p) THEN p[i] ELSE q[i - Len(p)]
  BY ConcatProperties
<1> HIDE DEF a, r
<1>3. /\ l \in Seq(S) /\ Len(l) = Len(p) + Len(a)
      /\ \A i \in 1 .. Len(p) + Len(a) :
           l[i] = IF i <= Len(p) THEN p[i] ELSE a[i - Len(p)]
  BY <1>1, ConcatProperties
<1>4. /\ k \in Seq(S) /\ Len(k) = Len(r) + 1 /\ k[Len(r) + 1] = t
      /\ \A i \in 1 .. Len(r) : k[i] = r[i]
  <2>1. r \in Seq(S)
    BY <1>2
  <2> QED
    BY <2>1, AppendProperties
<1> HIDE DEF l, k
<1>5. ASSUME NEW i \in 1 .. Len(l) PROVE l[i] = k[i]
  <2>1. /\ i \in Nat /\ i >= 1 /\ i \in 1 .. Len(p) + Len(a)
        /\ Len(p) + Len(a) = Len(r) + 1 /\ Len(r) \in Nat
    BY <1>1, <1>2, <1>3
  <2>2. l[i] = IF i <= Len(p) THEN p[i] ELSE a[i - Len(p)]
    BY <1>3, <2>1
  <2>3. CASE i = Len(r) + 1
    <3>1. ~(i <= Len(p)) /\ i - Len(p) = Len(q) + 1
      BY <1>1, <1>2, <2>1, <2>3
    <3> QED
      BY <1>1, <1>4, <2>2, <2>3, <3>1
  <2>4. CASE i \in 1 .. Len(r)
    <3>1. k[i] = IF i <= Len(p) THEN p[i] ELSE q[i - Len(p)]
      BY <1>2, <1>4, <2>4
    <3>2. ~(i <= Len(p)) => i - Len(p) \in 1 .. Len(q)
      BY <1>1, <1>2, <2>1, <2>4
    <3> QED
      BY <1>1, <2>2, <3>1, <3>2
  <2> QED
    BY <2>1, <2>3, <2>4
<1>6. l = k
  <2>1. Len(l) = Len(k)
    BY <1>1, <1>2, <1>3, <1>4
  <2> QED
    BY <1>3, <1>4, <1>5, <2>1, SeqEqual
<1> QED
  BY <1>6 DEF l, k, a, r

(* FifoExactlyOnce in two parts: the order of the ticks, and where each is.*)
Ordered(q) == \A i, j \in DOMAIN q : i < j => q[i].n < q[j].n
Accounted(q) == /\ Numbers(q) \cup discarded = 1 .. arrived
                /\ Numbers(q) \cap discarded = {}

(* The property is the two of them.                                        *)
LEMMA FifoParts == FifoExactlyOnce <=> Ordered(All) /\ Accounted(All)
  BY DEF FifoExactlyOnce, Ordered, Accounted, All, Numbers

(* The queue begins empty.                                                 *)
LEMMA InitFifo == Init => FifoExactlyOnce
<1> SUFFICES ASSUME Init PROVE FifoExactlyOnce
  OBVIOUS
<1>1. All = <<>> /\ DOMAIN All = {}
  BY DEF Init, All
<1>2. Numbers(All) = {}
  BY <1>1 DEF Numbers, ToSet
<1> QED
  BY <1>1, <1>2, FifoParts DEF Init, Ordered, Accounted

(* A consumer's step leaves the ticks together as they are.                *)
LEMMA ConsumeKeepsAll ==
  ASSUME TypeOK, NEW c \in Consumers, Consume(c)
  PROVE  All' = All /\ UNCHANGED <<arrived, discarded>>
<1>1. CASE Query(c) \/ Lock(c) \/ Expire(c) \/ Spurious(c)
  BY <1>1 DEF Query, Lock, Expire, Spurious, All, history, feed
<1>2. ASSUME NEW f \in BOOLEAN, WaitOrPop(c, f) PROVE All' = All
  <2>1. CASE UNCHANGED <<ticks, popped>>
    BY <2>1 DEF All
  <2>2. CASE ticks # <<>> /\ popped' = Append(popped, Head(ticks)) /\ ticks' = Tail(ticks)
    BY <2>2, MoveFront DEF All, TypeOK
  <2> QED
    BY <1>2, <2>1, <2>2 DEF WaitOrPop
<1>3. CASE Body(c) \/ AfterWait(c)
  BY <1>2, <1>3 DEF Body, AfterWait, All, TypeOK
<1> QED
  BY <1>1, <1>3 DEF Consume

(* A new tick has a number above all the others.                           *)
LEMMA ArriveFifo ==
  ASSUME IInv, FifoExactlyOnce, OnRtnDepthMarketData
  PROVE  FifoExactlyOnce'
<1> DEFINE t == [n |-> arrived', s |-> session]
<1>1. t \in Tick /\ t.n = arrived + 1 /\ arrived \in Nat
  BY TickAssumption DEF OnRtnDepthMarketData, IInv, TypeOK, Phases, Tick
<1>2. All \in Seq(Tick)
  BY DEF IInv, TypeOK, All
<1>3. All' = Append(All, t)
  BY <1>1, ConcatAppend DEF OnRtnDepthMarketData, IInv, TypeOK, All
<1>4. Numbers(All') = Numbers(All) \cup {arrived + 1}
  BY <1>1, <1>2, <1>3, NumbersAppend
<1>5. /\ arrived' = arrived + 1 /\ discarded' = discarded
      /\ Numbers(All) \cup discarded = 1 .. arrived /\ Numbers(All) \cap discarded = {}
      /\ Ordered(All)
  BY FifoParts DEF OnRtnDepthMarketData, Accounted
<1>6. 1 .. arrived + 1 = (1 .. arrived) \cup {arrived + 1} /\ arrived + 1 \notin 1 .. arrived
  BY <1>1
<1>7. Accounted(All)'
  BY <1>4, <1>5, <1>6 DEF Accounted
<1>8. Ordered(All')
  <2>1. /\ DOMAIN All = 1 .. Len(All) /\ DOMAIN Append(All, t) = 1 .. Len(All) + 1
        /\ Append(All, t)[Len(All) + 1] = t /\ Len(All) \in Nat
        /\ \A i \in 1 .. Len(All) : Append(All, t)[i] = All[i]
    BY <1>1, <1>2, AppendProperties
  <2>2. \A i \in 1 .. Len(All) : All[i].n \in 1 .. arrived
    BY <1>5, <2>1 DEF Numbers, ToSet
  <2> HIDE DEF t
  <2> SUFFICES ASSUME NEW i \in 1 .. Len(All) + 1, NEW j \in 1 .. Len(All) + 1, i < j
               PROVE  Append(All, t)[i].n < Append(All, t)[j].n
    BY <1>3, <2>1 DEF Ordered
  <2>3. i \in 1 .. Len(All) /\ Append(All, t)[i].n = All[i].n
    BY <2>1
  <2>4. CASE j = Len(All) + 1
    BY <1>1, <2>1, <2>2, <2>3, <2>4
  <2>5. CASE j \in 1 .. Len(All)
    BY <1>5, <2>1, <2>3, <2>5 DEF Ordered
  <2> QED
    BY <2>1, <2>4, <2>5
<1> QED
  BY <1>7, <1>8, FifoParts DEF FifoExactlyOnce, Ordered, Accounted, All, Numbers

(* md_stop moves the queued ticks to the freed ones, and no tick that was  *)
(* handed over with them.                                                  *)
LEMMA ClearFifo ==
  ASSUME TypeOK, FifoExactlyOnce, StopClear
  PROVE  FifoExactlyOnce'
<1>1. /\ popped \in Seq(Tick) /\ ticks \in Seq(Tick) /\ popped' = popped /\ ticks' = <<>>
      /\ arrived' = arrived /\ discarded' = discarded \cup Numbers(ticks)
  BY DEF StopClear, TypeOK, Numbers
<1>2. All' = popped
  BY <1>1 DEF All
<1>3. /\ Len(popped) \in Nat /\ Len(ticks) \in Nat
      /\ Len(All) = Len(popped) + Len(ticks) /\ DOMAIN All = 1 .. Len(All)
      /\ \A i \in 1 .. Len(popped) + Len(ticks) :
           All[i] = IF i <= Len(popped) THEN popped[i] ELSE ticks[i - Len(popped)]
      /\ DOMAIN popped = 1 .. Len(popped) /\ DOMAIN ticks = 1 .. Len(ticks)
  BY <1>1, ConcatProperties DEF All
<1>4. Ordered(All) /\ Accounted(All)
  BY FifoParts
<1>5. /\ \A i \in 1 .. Len(popped) : i \in DOMAIN All /\ All[i] = popped[i]
      /\ \A j \in 1 .. Len(ticks) : /\ Len(popped) + j \in DOMAIN All
                                    /\ All[Len(popped) + j] = ticks[j]
  BY <1>3
<1>6. Ordered(popped)
  BY <1>3, <1>4, <1>5 DEF Ordered
<1>7. Numbers(popped) \cap Numbers(ticks) = {}
  <2> SUFFICES ASSUME NEW i \in 1 .. Len(popped), NEW j \in 1 .. Len(ticks)
               PROVE  popped[i].n # ticks[j].n
    BY <1>3 DEF Numbers, ToSet
  <2>1. i < Len(popped) + j
    BY <1>3
  <2>2. popped[i].n < ticks[j].n
    BY <1>4, <1>5, <2>1 DEF Ordered
  <2>3. popped[i].n \in Nat /\ ticks[j].n \in Nat
    <3>1. popped[i] \in Tick /\ ticks[j] \in Tick
      BY <1>1
    <3> QED
      BY <3>1, TickAssumption DEF Tick
  <2> QED
    BY <2>2, <2>3
<1>8. Numbers(All) = Numbers(popped) \cup Numbers(ticks)
  BY <1>1, NumbersConcat DEF All
<1>9. Accounted(All)'
  <2>1. Numbers(All)' = Numbers(popped)
    BY <1>2 DEF Numbers
  <2> QED
    BY <1>1, <1>4, <1>7, <1>8, <2>1 DEF Accounted
<1>10. Ordered(All)'
  BY <1>2, <1>6 DEF Ordered
<1> QED
  BY <1>9, <1>10, FifoParts DEF FifoExactlyOnce, Ordered, Accounted, All, Numbers

(* Every tick that arrived was handed over once, is queued, or was freed   *)
(* by md_stop, and the ticks leave in the order in which they came.        *)
THEOREM TicksAreFifo == Spec => []FifoExactlyOnce
<1>1. ASSUME IInv, FifoExactlyOnce, [Next]_vars PROVE FifoExactlyOnce'
  <2>1. ASSUME All' = All, UNCHANGED <<arrived, discarded>> PROVE FifoExactlyOnce'
    BY <1>1, <2>1 DEF FifoExactlyOnce, All
  <2>2. CASE \E c \in Consumers : Consume(c)
    BY <1>1, <2>1, <2>2, ConsumeKeepsAll DEF IInv
  <2>3. CASE OnRtnDepthMarketData
    BY <1>1, <2>3, ArriveFifo
  <2>4. CASE Start \/ StopQuit \/ StopRelease \/ StopReset \/ Collide
    BY <2>1, <2>4 DEF Start, StopQuit, StopRelease, StopReset, Collide, All, history, feed
  <2>5. CASE StopClear
    BY <1>1, <2>5, ClearFifo DEF IInv
  <2>6. CASE UNCHANGED vars
    BY <2>1, <2>6 DEF vars, history, feed, All
  <2> QED
    BY <1>1, <2>2, <2>3, <2>4, <2>5, <2>6 DEF Next, Stop
<1> QED
  BY <1>1, InitIInv, NextIInv, InitFifo, PTL DEF Spec

-----------------------------------------------------------------------------
(* What a consumer does is a Take, or TickFifo does not see it.            *)
LEMMA ConsumeIsTake ==
  ASSUME NEW c \in Consumers, Consume(c)
  PROVE  Feed!Take \/ UNCHANGED Feed!vars
<1>1. ASSUME NEW flag, WaitOrPop(c, flag), UNCHANGED <<session, live, arrived>>
      PROVE  Feed!Take \/ UNCHANGED Feed!vars
  BY <1>1 DEF WaitOrPop, Feed!Take, Feed!vars
<1>2. CASE Query(c) \/ Lock(c) \/ Expire(c) \/ Spurious(c)
  BY <1>2 DEF Query, Lock, Expire, Spurious, history, feed, Feed!vars
<1>3. CASE Body(c)
  BY <1>1, <1>3 DEF Body
<1>4. CASE AfterWait(c)
  BY <1>1, <1>4 DEF AfterWait, Feed!vars
<1> QED
  BY <1>2, <1>3, <1>4 DEF Consume

(* The queue implements TickFifo: a session is open while CTP's thread may *)
(* call back, Release closes it, and the list that md_stop clears belongs  *)
(* to a closed one.                                                        *)
THEOREM QueueIsFifo == Spec => FeedIsFifo
<1>1. Init => Feed!Init
  BY DEF Init, Feed!Init
<1>2. IInv /\ [Next]_vars => [Feed!Next]_(Feed!vars)
  <2> SUFFICES ASSUME IInv, [Next]_vars PROVE Feed!Next \/ UNCHANGED Feed!vars
    OBVIOUS
  <2>1. CASE \E c \in Consumers : Consume(c)
    BY <2>1, ConsumeIsTake DEF Feed!Next
  <2>2. CASE OnRtnDepthMarketData
    <3>1. Feed!Arrive
      BY <2>2 DEF OnRtnDepthMarketData, Feed!Arrive
    <3> QED
      BY <3>1 DEF Feed!Next
  <2>3. CASE Start
    <3>1. control = "open" => Feed!Open
      BY <2>3 DEF Start, Goes, Feed!Open, IInv, Phases, TypeOK
    <3>2. control # "open" => UNCHANGED Feed!vars
      BY <2>3 DEF Start, Goes, history, feed, Feed!vars
    <3> QED
      BY <3>1, <3>2 DEF Feed!Next
  <2>4. CASE StopRelease
    <3>1. live => Feed!Close
      BY <2>4 DEF StopRelease, feed, Feed!Close
    <3>2. ~live => UNCHANGED Feed!vars
      BY <2>4 DEF StopRelease, feed, Feed!vars, IInv, TypeOK
    <3> QED
      BY <3>1, <3>2 DEF Feed!Next
  <2>5. CASE StopClear
    <3>1. Feed!Discard
      BY <2>5 DEF StopClear, Goes, Feed!Discard, IInv, Phases
    <3> QED
      BY <3>1 DEF Feed!Next
  <2>6. CASE StopQuit \/ StopReset \/ Collide \/ UNCHANGED vars
    BY <2>6 DEF StopQuit, StopReset, Collide, vars, history, feed, Feed!vars
  <2> QED
    BY <2>1, <2>2, <2>3, <2>4, <2>5, <2>6 DEF Next, Stop
<1> QED
  BY <1>1, <1>2, InitIInv, NextIInv, PTL DEF Spec, FeedIsFifo, Feed!Spec
-----------------------------------------------------------------------------
(* What keeps a sleeper from missing a tick: the flag is up for it unless  *)
(* another consumer took it down or md_start and md_stop were at work, and *)
(* a tick that came while the flag was up has a consumer on its way.       *)
OnItsWay == \E d \in Consumers : pc[d] \in {"notified", "woken"}

Owed ==
  /\ control # "idle" => Calling \subseteq overlapped
  /\ Sleepers \subseteq outrun \cup overlapped \/ need_notify
  /\ Sleepers # {} /\ need_notify /\ ticks # <<>> => OnItsWay

(* Then no sleeper is passed over.                                         *)
LEMMA OwedIsEnough == Owed => WakeupOwed
  BY DEF Owed, WakeupOwed, OnItsWay, Sleepers

(* wait_for happens over an empty list; a hand-over raises need_notify     *)
(* only if it was up, and leaves the other consumers alone.                *)
LEMMA HandOverOwes ==
  ASSUME TypeOK, NEW c \in Consumers, NEW flag \in BOOLEAN, WaitOrPop(c, flag)
  PROVE  \/ /\ ticks' = <<>> /\ need_notify' = TRUE
            /\ pc' = [pc EXCEPT ![c] = "wait"] /\ overlapped' = overlapped
         \/ /\ ticks # <<>> /\ need_notify' = flag
            /\ pc' = [pc EXCEPT ![c] = "idle"] /\ overlapped' = overlapped \ {c}
  BY DEF WaitOrPop, Return

(* A consumer's step: whoever lies down raises the flag over an empty      *)
(* list, and whoever comes out of wait_for leaves the sleepers outrun.     *)
LEMMA ConsumeOwes ==
  ASSUME TypeOK, Owed, NEW c \in Consumers, Consume(c)
  PROVE  Owed'
<1>1. CASE Query(c)
  <2>1. /\ ticks' = ticks /\ need_notify' = need_notify /\ control' = control
        /\ outrun' = outrun /\ overlapped \subseteq overlapped'
    BY <1>1 DEF Query, flags
  <2>2. /\ Sleepers' \subseteq Sleepers /\ (OnItsWay => OnItsWay')
    BY <1>1 DEF Query, Step, TypeOK, Sleepers, OnItsWay
  <2>3. control # "idle" => Calling' \subseteq overlapped'
    BY <1>1 DEF Query, Step, TypeOK, Calling, Owed
  <2> QED
    BY <2>1, <2>2, <2>3 DEF Owed
<1>2. CASE Lock(c) \/ Expire(c) \/ Spurious(c)
  <2>1. UNCHANGED <<ticks, need_notify, control, outrun, overlapped>>
    BY <1>2 DEF Lock, Expire, Spurious, flags, history
  <2>2. /\ Sleepers' \subseteq Sleepers /\ (OnItsWay => OnItsWay')
        /\ Calling' \subseteq Calling
    BY <1>2 DEF Lock, Expire, Spurious, Step, TypeOK, Sleepers, OnItsWay, Calling
  <2> QED
    BY <2>1, <2>2 DEF Owed
<1>3. CASE Body(c)
  <2> pc[c] = "body" /\ control' = control
    BY <1>3 DEF Body
  <2>1. CASE /\ ticks' = <<>> /\ need_notify' = TRUE
             /\ pc' = [pc EXCEPT ![c] = "wait"] /\ overlapped' = overlapped
    <3>1. Calling' \subseteq Calling
      BY <2>1 DEF TypeOK, Calling
    <3> QED
      BY <2>1, <3>1 DEF Owed
  <2>2. CASE /\ ticks # <<>> /\ need_notify' = need_notify
             /\ pc' = [pc EXCEPT ![c] = "idle"] /\ overlapped' = overlapped \ {c}
    <3>1. /\ Sleepers' = Sleepers /\ (OnItsWay => OnItsWay')
          /\ Calling' = Calling \ {c} /\ c \notin Sleepers
      BY <2>2 DEF TypeOK, Sleepers, OnItsWay, Calling
    <3>2. outrun' = outrun
      BY <1>3, <2>2 DEF Body, TypeOK
    <3> QED
      BY <2>2, <3>1, <3>2 DEF Owed
  <2>3. WaitOrPop(c, need_notify) /\ need_notify \in BOOLEAN
    BY <1>3 DEF Body, TypeOK
  <2> QED
    BY <2>1, <2>2, <2>3, HandOverOwes
<1>4. CASE AfterWait(c)
  <2> pc[c] \in {"woken", "late"} /\ control' = control
    BY <1>4 DEF AfterWait
  <2>1. CASE /\ ticks' = <<>> /\ need_notify' = TRUE
             /\ pc' = [pc EXCEPT ![c] = "wait"] /\ overlapped' = overlapped
    <3>1. Calling' \subseteq Calling
      BY <2>1 DEF TypeOK, Calling
    <3> QED
      BY <2>1, <3>1 DEF Owed
  <2>2. CASE /\ need_notify' = FALSE
             /\ pc' = [pc EXCEPT ![c] = "idle"] /\ overlapped' = overlapped \ {c}
    <3>1. Sleepers' = Sleepers /\ Calling' = Calling \ {c}
      BY <2>2 DEF TypeOK, Sleepers, Calling
    <3>2. outrun' = Sleepers
      BY <1>4, <2>2 DEF AfterWait, TypeOK
    <3> QED
      BY <2>2, <3>1, <3>2 DEF Owed
  <2>3. WaitOrPop(c, FALSE) \/ (need_notify' = FALSE /\ \E s \in {"QUIT", "TIMEOUT"} : Return(c, s))
    BY <1>4 DEF AfterWait
  <2> QED
    BY <2>1, <2>2, <2>3, HandOverOwes DEF Return
<1> QED
  BY <1>1, <1>2, <1>3, <1>4 DEF Consume

(* A tick that arrives with need_notify up sends a sleeper on its way;     *)
(* md_start and md_stop overlap every call there is while they work, and   *)
(* md_stop wakes everyone.                                                 *)
LEMMA OthersOwe ==
  ASSUME TypeOK, Owed, OnRtnDepthMarketData \/ Start \/ Stop
  PROVE  Owed'
<1>1. CASE OnRtnDepthMarketData
  <2>1. UNCHANGED <<need_notify, control, outrun, overlapped>>
    BY <1>1 DEF OnRtnDepthMarketData, flags
  <2>2. CASE need_notify /\ \E c \in Sleepers : pc' = [pc EXCEPT ![c] = "notified"]
    <3>1. OnItsWay' /\ Sleepers' \subseteq Sleepers /\ Calling' \subseteq Calling
      BY <2>2 DEF TypeOK, Sleepers, OnItsWay, Calling
    <3> QED
      BY <2>1, <3>1 DEF Owed
  <2>3. CASE (~need_notify \/ Sleepers = {}) /\ UNCHANGED pc
    BY <2>1, <2>3 DEF Owed, Sleepers, Calling
  <2> QED
    BY <1>1, <2>2, <2>3 DEF OnRtnDepthMarketData
<1>2. CASE Start
  <2>1. UNCHANGED <<pc, ticks, outrun>>
    BY <1>2 DEF Start, history
  <2>2. \/ control = "idle" /\ overlapped' = Calling /\ UNCHANGED need_notify
        \/ control # "idle" /\ need_notify' = FALSE /\ UNCHANGED overlapped
        \/ control # "idle" /\ control' = "idle" /\ UNCHANGED <<need_notify, overlapped>>
    BY <1>2 DEF Start, Goes, history
  <2>3. Sleepers \subseteq Calling
    BY DEF Sleepers, Calling
  <2> QED
    BY <2>1, <2>2, <2>3 DEF Owed, Sleepers, Calling, OnItsWay
<1>3. CASE StopQuit
  <2>1. Sleepers' = {} /\ Calling' = Calling /\ overlapped' = Calling
    BY <1>3 DEF StopQuit, Sleepers, Calling, TypeOK
  <2> QED
    BY <2>1 DEF Owed
<1>4. CASE StopRelease \/ Collide
  <2>1. /\ UNCHANGED <<pc, need_notify, ticks, outrun, overlapped>>
        /\ control # "idle"
    BY <1>4 DEF StopRelease, Collide, Goes, flags, history
  <2> QED
    BY <2>1 DEF Owed, Sleepers, Calling, OnItsWay
<1>5. CASE StopReset
  <2>1. /\ UNCHANGED <<pc, ticks, outrun, overlapped>>
        /\ control # "idle" /\ need_notify' \in {need_notify, FALSE}
    BY <1>5 DEF StopReset, Goes, history
  <2>2. Sleepers \subseteq Calling
    BY DEF Sleepers, Calling
  <2>3. /\ Sleepers' = Sleepers /\ Calling' = Calling /\ OnItsWay' = OnItsWay
    BY <2>1 DEF Sleepers, Calling, OnItsWay
  <2>4. Calling' \subseteq overlapped' /\ Sleepers' \subseteq overlapped'
    BY <2>1, <2>2, <2>3 DEF Owed
  <2>5. Sleepers' # {} /\ need_notify' /\ ticks' # <<>> => OnItsWay'
    BY <2>1, <2>3 DEF Owed
  <2> QED
    BY <2>4, <2>5 DEF Owed
<1>6. CASE StopClear
  <2>1. /\ UNCHANGED <<pc, need_notify, outrun, overlapped>>
        /\ control' = "idle" /\ ticks' = <<>>
    BY <1>6 DEF StopClear, Goes, flags
  <2> QED
    BY <2>1 DEF Owed, Sleepers
<1> QED
  BY <1>1, <1>2, <1>3, <1>4, <1>5, <1>6 DEF Stop

(* However many consumers share the queue, one of them sleeps beside a     *)
(* waiting tick only if another was notified, came out of wait_for before  *)
(* it, or if md_start or md_stop was at work during its call.              *)
THEOREM NoTickIsSleptOver == Spec => []WakeupOwed
<1>1. Init => Owed
  BY DEF Init, Owed, Sleepers, Calling
<1>2. IInv /\ Owed /\ [Next]_vars => Owed'
  <2> SUFFICES ASSUME IInv, Owed, [Next]_vars PROVE Owed'
    OBVIOUS
  <2>1. CASE UNCHANGED vars
    BY <2>1 DEF vars, flags, history, Owed, Sleepers, Calling, OnItsWay
  <2>2. CASE Next
    BY <2>2, ConsumeOwes, OthersOwe DEF Next, IInv
  <2> QED
    BY <2>1, <2>2
<1> QED
  BY <1>1, <1>2, InitIInv, NextIInv, OwedIsEnough, PTL DEF Spec
=============================================================================
