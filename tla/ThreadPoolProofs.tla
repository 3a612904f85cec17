-------------------------- MODULE ThreadPoolProofs --------------------------
(***************************************************************************)
(* Proofs about ThreadPool for any workers, producers, queue size and      *)
(* number of tasks: its types, that no wake-up is lost, and that it        *)
(* implements TaskPool.  Beside the types, the inductive invariant IInv    *)
(* says how the flags follow the steps of Stop, that a task is in one      *)
(* place only, and that what is queued or held was submitted.              *)
(***************************************************************************)
EXTENDS ThreadPool, SequenceTheorems, TLAPS

-----------------------------------------------------------------------------
(* The elements of a queue, which grows at one end, shrinks at the other.  *)

(* No element is there twice.                                              *)
Distinct(s) == \A i, j \in 1..Len(s) : s[i] = s[j] => i = j

(* The empty sequence has none.                                            *)
LEMMA ElementsOfEmpty == ToSet(<<>>) = {} /\ Distinct(<<>>)
  BY EmptySeq DEF ToSet, Distinct

(* Append adds its element.                                                *)
LEMMA ElementsOfAppend ==
  ASSUME NEW S, NEW s \in Seq(S), NEW e \in S
  PROVE  /\ ToSet(Append(s, e)) = ToSet(s) \cup {e}
         /\ Distinct(s) /\ e \notin ToSet(s) => Distinct(Append(s, e))
<1> DEFINE r == Append(s, e)
<1>1. /\ r \in Seq(S) /\ Len(r) = Len(s) + 1 /\ Len(s) \in Nat
      /\ \A i \in 1..Len(s) : r[i] = s[i]
      /\ r[Len(s) + 1] = e
  BY AppendProperties, LenProperties
<1>2. DOMAIN r = 1..Len(s) + 1 /\ DOMAIN s = 1..Len(s)
  BY <1>1, LenProperties
<1> HIDE DEF r
<1>3. ToSet(r) = ToSet(s) \cup {e}
  BY <1>1, <1>2 DEF ToSet
<1>4. ASSUME Distinct(s), e \notin ToSet(s) PROVE Distinct(r)
  BY <1>1, <1>2, <1>4 DEF Distinct, ToSet
<1> QED
  BY <1>3, <1>4 DEF r

(* Tail takes the first one away.                                          *)
LEMMA ElementsOfTail ==
  ASSUME NEW S, NEW s \in Seq(S), s # <<>>, Distinct(s)
  PROVE  /\ Head(s) \in ToSet(s)
         /\ ToSet(Tail(s)) = ToSet(s) \ {Head(s)}
         /\ Distinct(Tail(s))
<1> DEFINE r == Tail(s)
<1>1. /\ r \in Seq(S) /\ Len(r) = Len(s) - 1 /\ Len(s) \in Nat /\ Len(s) # 0
      /\ \A i \in 1..Len(r) : r[i] = s[i + 1]
      /\ Head(s) = s[1]
  BY HeadTailProperties, LenProperties, EmptySeq
<1>2. DOMAIN r = 1..Len(s) - 1 /\ DOMAIN s = 1..Len(s)
  BY <1>1, LenProperties
<1> HIDE DEF r
<1>3. Head(s) \in ToSet(s)
  BY <1>1, <1>2 DEF ToSet
<1>4. ToSet(r) \subseteq ToSet(s) \ {Head(s)}
  BY <1>1, <1>2 DEF ToSet, Distinct
<1>5. ASSUME NEW i \in 1..Len(s), s[i] # Head(s) PROVE s[i] \in ToSet(r)
  <2>1. i - 1 \in DOMAIN r /\ r[i - 1] = s[i]
    BY <1>1, <1>2, <1>5
  <2> QED
    BY <2>1 DEF ToSet
<1>6. ToSet(s) \ {Head(s)} \subseteq ToSet(r)
  BY <1>2, <1>5 DEF ToSet
<1>7. Distinct(r)
  BY <1>1 DEF Distinct
<1> QED
  BY <1>3, <1>4, <1>6, <1>7 DEF r

-----------------------------------------------------------------------------
(* The inductive invariant.                                                *)

(* needStop and running follow StopThreadGroup; a producer inside AddTask  *)
(* has a task; only a worker that runs a list holds one.                   *)
Phases ==
  /\ needStop <=> stop # "no"
  /\ running <=> stop \notin {"join", "joined"}
  /\ \A p \in Producers : ppc[p] # "idle" => added[p] >= 1
  /\ \A w \in Workers : wpc[w] \notin {"run", "start"} => list[w] = <<>>
  /\ \A w \in Workers : wpc[w] = "start" => list[w] # <<>>
  /\ running => \A w \in Workers : wpc[w] # "done"

(* A task is in the queue or in the hands of one worker, and there once.   *)
Once ==
  /\ Distinct(queue)
  /\ \A w \in Workers : Distinct(list[w])
  /\ \A w \in Workers : ToSet(queue) \cap ToSet(list[w]) = {}
  /\ \A v, w \in Workers : v # w => ToSet(list[v]) \cap ToSet(list[w]) = {}

Held == ToSet(queue) \cup UNION {ToSet(list[w]) : w \in Workers}
Accepted == Held \subseteq Submitted

IInv == TypeOK /\ Phases /\ Once /\ Accepted

-----------------------------------------------------------------------------
(* Types and phases.                                                       *)

LEMMA InitTypes == Init => TypeOK /\ Phases
<1> SUFFICES ASSUME Init PROVE TypeOK /\ Phases
  OBVIOUS
<1>1. <<>> \in Seq(Tasks) /\ Len(<<>>) = 0
  BY EmptySeq
<1>2. queue \in Seq(Tasks) /\ Len(queue) <= MaxSize /\ ran \in Seq(Tasks)
  <2>1. queue = <<>> /\ ran = <<>>
    BY DEF Init
  <2> QED
    BY <1>1, <2>1, PoolAssumption
<1>3. /\ list \in [Workers -> Seq(Tasks)]
      /\ added \in [Producers -> 0..MaxTasks]
  BY <1>1, PoolAssumption DEF Init
<1>4. /\ wpc \in [Workers -> WorkerSteps] /\ ppc \in [Producers -> ProducerSteps]
      /\ needStop \in BOOLEAN /\ running \in BOOLEAN
      /\ stop \in {"no", "full", "empty", "halt", "join", "joined"}
  BY DEF Init, WorkerSteps, ProducerSteps
<1>5. TypeOK
  BY <1>2, <1>3, <1>4 DEF TypeOK
<1> QED
  BY <1>5 DEF Init, Phases

(* What a notification does to the workers and to the producers.           *)
LEMMA NotifyWorker ==
  ASSUME wpc \in [Workers -> WorkerSteps], NotifyOne(wpc, wpc', "take")
  PROVE  /\ wpc' \in [Workers -> WorkerSteps]
         /\ \A w \in Workers : wpc'[w] = wpc[w] \/ (wpc[w] = "wait" /\ wpc'[w] = "take")
         /\ (\E w \in Workers : wpc[w] = "wait") => \E w \in Workers : wpc'[w] = "take"
  BY DEF NotifyOne, WorkerSteps

LEMMA NotifyProducer ==
  ASSUME ppc \in [Producers -> ProducerSteps], NotifyOne(ppc, ppc', "put")
  PROVE  /\ ppc' \in [Producers -> ProducerSteps]
         /\ \A p \in Producers : ppc'[p] = ppc[p] \/ (ppc[p] = "wait" /\ ppc'[p] = "put")
         /\ (\E p \in Producers : ppc[p] = "wait") => \E p \in Producers : ppc'[p] = "put"
  BY DEF NotifyOne, ProducerSteps

LEMMA NotifyWorkers ==
  ASSUME wpc \in [Workers -> WorkerSteps], wpc' = NotifyAll(wpc, "take")
  PROVE  /\ wpc' \in [Workers -> WorkerSteps]
         /\ \A w \in Workers : wpc'[w] = (IF wpc[w] = "wait" THEN "take" ELSE wpc[w])
  BY DEF NotifyAll, WorkerSteps

LEMMA NotifyProducers ==
  ASSUME ppc \in [Producers -> ProducerSteps], ppc' = NotifyAll(ppc, "put")
  PROVE  /\ ppc' \in [Producers -> ProducerSteps]
         /\ \A p \in Producers : ppc'[p] = (IF ppc[p] = "wait" THEN "put" ELSE ppc[p])
  BY DEF NotifyAll, ProducerSteps

LEMMA TypesStep == TypeOK /\ Phases /\ [Next]_vars => TypeOK' /\ Phases'
<1> SUFFICES ASSUME TypeOK, Phases, [Next]_vars PROVE TypeOK' /\ Phases'
  OBVIOUS
<1> USE PoolAssumption DEF WorkerSteps, ProducerSteps
<1>1. ASSUME NEW p \in Producers, AddTask(p) PROVE TypeOK' /\ Phases'
  BY <1>1 DEF AddTask, TypeOK, Phases
<1>2. ASSUME NEW p \in Producers, Put(p) PROVE TypeOK' /\ Phases'
  <2>1. CASE needStop
    BY <1>2, <2>1 DEF Put, TypeOK, Phases
  <2>2. CASE ~needStop /\ Len(queue) < MaxSize
    <3>1. <<p, added[p]>> \in Tasks
      BY <1>2 DEF Put, TypeOK, Phases, Tasks
    <3>2. queue' \in Seq(Tasks) /\ Len(queue') <= MaxSize
      <4>1. queue' = Append(queue, <<p, added[p]>>) /\ queue \in Seq(Tasks)
        BY <1>2, <2>2 DEF Put, TypeOK
      <4> QED
        BY <2>2, <3>1, <4>1, AppendProperties
    <3>3. NotifyOne(wpc, wpc', "take")
      BY <1>2, <2>2 DEF Put, TypeOK
    <3>4. /\ wpc' \in [Workers -> WorkerSteps]
          /\ \A w \in Workers : wpc'[w] = wpc[w] \/ (wpc[w] = "wait" /\ wpc'[w] = "take")
      BY <3>3, NotifyWorker DEF TypeOK
    <3> QED
      BY <1>2, <2>2, <3>2, <3>4 DEF Put, TypeOK, Phases
  <2>3. CASE ~needStop /\ Len(queue) >= MaxSize
    <3>1. ~(Len(queue) < MaxSize)
      BY <2>3 DEF TypeOK
    <3>2. ppc' = [ppc EXCEPT ![p] = "wait"] /\ UNCHANGED <<queue, wpc>>
      BY <1>2, <2>3, <3>1 DEF Put
    <3> QED
      BY <1>2, <3>2 DEF Put, TypeOK, Phases
  <2> QED
    BY <1>2, <2>1, <2>2, <2>3 DEF Put
<1>3. ASSUME NEW w \in Workers, Loop(w) PROVE TypeOK' /\ Phases'
  BY <1>3 DEF Loop, TypeOK, Phases
<1>4. ASSUME NEW w \in Workers, Take(w) PROVE TypeOK' /\ Phases'
  <2>1. CASE needStop
    BY <1>4, <2>1 DEF Take, TypeOK, Phases
  <2>2. CASE ~needStop /\ queue # <<>>
    <3>1. NotifyOne(ppc, ppc', "put")
      BY <1>4, <2>2 DEF Take
    <3>2. /\ ppc' \in [Producers -> ProducerSteps]
          /\ \A p \in Producers : ppc'[p] = ppc[p] \/ (ppc[p] = "wait" /\ ppc'[p] = "put")
      BY <3>1, NotifyProducer DEF TypeOK
    <3>3. queue' \in Seq(Tasks) /\ Len(queue') <= MaxSize
      <4>1. queue' = <<>>
        BY <1>4, <2>2 DEF Take
      <4> QED
        BY <4>1, EmptySeq
    <3>4. /\ list' = [list EXCEPT ![w] = queue] /\ wpc' = [wpc EXCEPT ![w] = "run"]
          /\ UNCHANGED <<needStop, running, added, stop, ran>>
      BY <1>4, <2>2 DEF Take
    <3>5. TypeOK'
      BY <3>2, <3>3, <3>4 DEF TypeOK
    <3>6. Phases'
      BY <3>2, <3>4 DEF TypeOK, Phases
    <3> QED
      BY <3>5, <3>6
  <2>3. CASE ~needStop /\ queue = <<>>
    BY <1>4, <2>3 DEF Take, TypeOK, Phases
  <2> QED
    BY <2>1, <2>2, <2>3
<1>5. ASSUME NEW w \in Workers, Check(w) PROVE TypeOK' /\ Phases'
  <2>1. CASE list[w] # <<>> /\ running
    BY <1>5, <2>1 DEF Check, TypeOK, Phases
  <2>2. CASE list[w] # <<>> /\ ~running
    <3>1. <<>> \in Seq(Tasks)
      BY EmptySeq
    <3>2. list' = [list EXCEPT ![w] = <<>>] /\ wpc' = [wpc EXCEPT ![w] = "done"]
      BY <1>5, <2>2 DEF Check
    <3>3. list' \in [Workers -> Seq(Tasks)]
      BY <3>1, <3>2 DEF TypeOK
    <3> QED
      BY <1>5, <2>2, <3>2, <3>3 DEF Check, TypeOK, Phases
  <2>3. CASE list[w] = <<>>
    BY <1>5, <2>3 DEF Check, TypeOK, Phases
  <2> QED
    BY <2>1, <2>2, <2>3
<1>13. ASSUME NEW w \in Workers, Start(w) PROVE TypeOK' /\ Phases'
  <2>0. list[w] \in Seq(Tasks) /\ list[w] # <<>>
    BY <1>13 DEF Start, TypeOK, Phases
  <2>1. Head(list[w]) \in Tasks /\ Tail(list[w]) \in Seq(Tasks)
    BY <2>0, HeadTailProperties
  <2>2. ran' \in Seq(Tasks)
    <3>1. ran' = Append(ran, Head(list[w])) /\ ran \in Seq(Tasks)
      BY <1>13 DEF Start, TypeOK
    <3> QED
      BY <2>1, <3>1, AppendProperties
  <2>3. list' \in [Workers -> Seq(Tasks)]
    BY <1>13, <2>1 DEF Start, TypeOK
  <2> QED
    BY <1>13, <2>2, <2>3 DEF Start, TypeOK, Phases
<1>6. CASE SetNeedStop
  BY <1>6 DEF SetNeedStop, TypeOK, Phases
<1>7. CASE WakeProducers
  <2>1. /\ ppc' \in [Producers -> ProducerSteps]
        /\ \A p \in Producers : ppc'[p] = (IF ppc[p] = "wait" THEN "put" ELSE ppc[p])
    BY <1>7, NotifyProducers DEF WakeProducers, TypeOK
  <2> QED
    BY <1>7, <2>1 DEF WakeProducers, TypeOK, Phases
<1>8. CASE WakeWorkers
  <2>1. /\ wpc' \in [Workers -> WorkerSteps]
        /\ \A w \in Workers : wpc'[w] = (IF wpc[w] = "wait" THEN "take" ELSE wpc[w])
    BY <1>8, NotifyWorkers DEF WakeWorkers, TypeOK
  <2> QED
    BY <1>8, <2>1 DEF WakeWorkers, TypeOK, Phases
<1>9. CASE Halt
  BY <1>9 DEF Halt, TypeOK, Phases
<1>10. CASE Join
  BY <1>10 DEF Join, TypeOK, Phases
<1>11. CASE Spurious
  BY <1>11 DEF Spurious, TypeOK, Phases
<1>12. CASE UNCHANGED vars
  BY <1>12 DEF vars, TypeOK, Phases
<1> QED
  BY <1>1, <1>2, <1>3, <1>4, <1>5, <1>13, <1>6, <1>7, <1>8, <1>9, <1>10, <1>11, <1>12
     DEF Next, Work, StopThreadGroup

(* The state keeps its shape, and the queue its bound.                     *)
THEOREM TypeCorrect == Spec => []TypeOK
<1>1. Init => TypeOK /\ Phases
  BY InitTypes
<1>2. TypeOK /\ Phases /\ [Next]_vars => (TypeOK /\ Phases)'
  BY TypesStep
<1> QED
  BY <1>1, <1>2, PTL DEF Spec

-----------------------------------------------------------------------------
(* Wake-ups.                                                               *)

LEMMA WakeupStep ==
  TypeOK /\ Phases /\ NoLostWakeup /\ [Next]_vars => NoLostWakeup'
<1> SUFFICES ASSUME TypeOK, Phases, NoLostWakeup, [Next]_vars, ~needStop'
             PROVE  NoLostWakeup'
  BY DEF NoLostWakeup
<1> USE PoolAssumption DEF WorkerSteps, ProducerSteps
<1>1. ASSUME NEW p \in Producers, AddTask(p) PROVE NoLostWakeup'
  BY <1>1 DEF AddTask, TypeOK, NoLostWakeup
<1>2. ASSUME NEW p \in Producers, Put(p) PROVE NoLostWakeup'
  <2>1. CASE Len(queue) < MaxSize
    <3>1. NotifyOne(wpc, wpc', "take") /\ ~needStop
      BY <1>2, <2>1 DEF Put, TypeOK
    <3>2. queue' # <<>>
      <4>1. queue' = Append(queue, <<p, added[p]>>) /\ queue \in Seq(Tasks)
        BY <1>2, <2>1, <3>1 DEF Put, TypeOK
      <4>2. <<p, added[p]>> \in Tasks
        BY <1>2 DEF Put, TypeOK, Phases, Tasks
      <4> QED
        BY <4>1, <4>2, AppendProperties
    <3>3. PICK w \in Workers : TRUE
      OBVIOUS
    <3>4. \A x \in Workers : wpc[x] # "done"
      BY <1>2, <3>1 DEF Phases
    <3>5. \E x \in Workers : wpc'[x] \in {"loop", "take", "run", "start"}
      <4>1. CASE \E x \in Workers : wpc[x] = "wait"
        BY <4>1, <3>1, NotifyWorker DEF TypeOK
      <4>2. CASE wpc[w] # "wait"
        BY <4>2, <3>1, <3>3, <3>4, NotifyWorker DEF TypeOK
      <4> QED
        BY <4>1, <4>2
    <3> QED
      BY <3>2, <3>5 DEF NoLostWakeup
  <2>2. CASE ~(Len(queue) < MaxSize)
    <3>1. queue # <<>>
      <4>1. Len(queue) # 0
        BY <2>2 DEF TypeOK
      <4> QED
        BY <4>1, EmptySeq
    <3>2. UNCHANGED <<queue, wpc, needStop>>
      BY <1>2, <2>2 DEF Put
    <3> QED
      BY <3>1, <3>2 DEF NoLostWakeup
  <2> QED
    BY <2>1, <2>2
<1>3. ASSUME NEW w \in Workers, Loop(w) PROVE NoLostWakeup'
  <2>1. running
    BY <1>3 DEF Loop, Phases
  <2> QED
    BY <1>3, <2>1 DEF Loop, TypeOK, NoLostWakeup
<1>4. ASSUME NEW w \in Workers, Take(w) PROVE NoLostWakeup'
  <2>1. CASE queue # <<>>
    <3>1. NotifyOne(ppc, ppc', "put") /\ queue' = <<>>
      BY <1>4, <2>1 DEF Take
    <3> QED
      BY <3>1, NotifyProducer DEF TypeOK, NoLostWakeup
  <2>2. CASE queue = <<>>
    BY <1>4, <2>2 DEF Take, TypeOK, NoLostWakeup
  <2> QED
    BY <2>1, <2>2
<1>5. ASSUME NEW w \in Workers, Check(w) \/ Start(w) PROVE NoLostWakeup'
  <2>1. running
    BY <1>5 DEF Check, Start, Phases
  <2> QED
    BY <1>5, <2>1 DEF Check, Start, TypeOK, NoLostWakeup
<1>6. CASE WakeProducers \/ WakeWorkers \/ Halt \/ Join
  BY <1>6 DEF WakeProducers, WakeWorkers, Halt, Join, Phases
<1>7. CASE SetNeedStop
  BY <1>7 DEF SetNeedStop
<1>8. CASE Spurious
  BY <1>8 DEF Spurious, TypeOK, NoLostWakeup
<1>9. CASE UNCHANGED vars
  BY <1>9 DEF vars, NoLostWakeup
<1> QED
  BY <1>1, <1>2, <1>3, <1>4, <1>5, <1>6, <1>7, <1>8, <1>9
     DEF Next, Work, StopThreadGroup

(* Every notification of syncqueue.h wakes one thread and still none that  *)
(* is needed sleeps on.                                                    *)
THEOREM NoWakeupIsLost == Spec => []NoLostWakeup
<1>1. Init => TypeOK /\ Phases /\ NoLostWakeup
  BY InitTypes DEF Init, NoLostWakeup
<1>2. TypeOK /\ Phases /\ NoLostWakeup /\ [Next]_vars
        => (TypeOK /\ Phases /\ NoLostWakeup)'
  BY TypesStep, WakeupStep
<1> QED
  BY <1>1, <1>2, PTL DEF Spec

-----------------------------------------------------------------------------
(* Refinement: what each step does to the submitted and waiting tasks.     *)

LEMMA SameSubmitted ==
  ASSUME TypeOK, added' = added,
         \A p \in Producers : ppc'[p] = "idle" <=> ppc[p] = "idle"
  PROVE  Submitted' = Submitted
  BY DEF Submitted, Tasks

LEMMA MoreSubmitted ==
  ASSUME TypeOK, Phases, NEW p \in Producers,
         ppc[p] = "put", ppc' = [ppc EXCEPT ![p] = "idle"], added' = added
  PROVE  /\ <<p, added[p]>> \in Tasks \ Submitted
         /\ Submitted' = Submitted \cup {<<p, added[p]>>}
<1> DEFINE task == <<p, added[p]>>
<1>1. task \in Tasks /\ task[1] = p /\ task[2] = added[p]
  BY PoolAssumption DEF TypeOK, Phases, Tasks
<1>2. task \notin Submitted
  BY <1>1, PoolAssumption DEF Submitted, TypeOK
<1>3. ASSUME NEW t \in Tasks PROVE t \in Submitted' <=> t \in Submitted \/ t = task
  <2>1. t = <<t[1], t[2]>> /\ t[1] \in Producers
    BY DEF Tasks
  <2>2. CASE t[1] = p
    BY <1>1, <2>1, <2>2 DEF Submitted, TypeOK
  <2>3. CASE t[1] # p
    BY <1>1, <2>1, <2>3 DEF Submitted, TypeOK
  <2> QED
    BY <2>2, <2>3
<1>4. Submitted \subseteq Tasks /\ Submitted' \subseteq Tasks
  BY DEF Submitted
<1> QED
  BY <1>1, <1>2, <1>3, <1>4

(* What a step must leave alone for nothing to be picked, started or left. *)
SameStarts == \A w \in Workers : wpc'[w] = "start" <=> wpc[w] = "start"

LEMMA SameHands ==
  ASSUME list' = list, SameStarts
  PROVE  Hands' = Hands /\ \A w \in Workers : Rest(w)' = Rest(w)
BY DEF Hands, Rest, SameStarts

LEMMA Stutter ==
  ASSUME Submitted' = Submitted, Waiting' = Waiting, Hands' = Hands, Phase' = Phase,
         UNCHANGED ran
  PROVE  [Promise!Next]_(Promise!vars)
  BY DEF Promise!vars

(* A step that moves no task keeps what is said of them.                   *)
LEMMA NothingMoves ==
  ASSUME Once, Accepted, UNCHANGED <<queue, list>>, SameStarts, Submitted' = Submitted
  PROVE  Once' /\ Accepted' /\ Waiting' = Waiting /\ Hands' = Hands
<1>1. Hands' = Hands /\ \A w \in Workers : Rest(w)' = Rest(w)
  BY SameHands
<1>2. Waiting' = Waiting
  BY <1>1 DEF Waiting
<1> QED
  BY <1>1, <1>2 DEF Once, Accepted, Held

LEMMA PutKeeps ==
  ASSUME IInv, NEW p \in Producers, Put(p)
  PROVE  Once' /\ Accepted' /\ [Promise!Next]_(Promise!vars)
<1> DEFINE task == <<p, added[p]>>
<1> USE DEF IInv
<1>0. Phase' = Phase
  BY DEF Put, Phase
<1>1. CASE needStop
  <2>1. /\ task \in Tasks \ Submitted
        /\ Submitted' = Submitted \cup {task}
    BY <1>1, MoreSubmitted DEF Put
  <2>2. UNCHANGED <<queue, list, ran, wpc>> /\ SameStarts /\ Phase # "open"
    BY <1>1 DEF Put, SameStarts, Phase, Phases
  <2>3. Waiting' = Waiting /\ Hands' = Hands /\ Once' /\ Accepted'
    <3>1. Hands' = Hands /\ \A w \in Workers : Rest(w)' = Rest(w)
      BY <2>2, SameHands
    <3> QED
      BY <2>1, <2>2, <3>1 DEF Waiting, Once, Accepted, Held
  <2>4. Promise!Refuse(task)
    BY <1>0, <2>1, <2>2, <2>3 DEF Promise!Refuse
  <2> QED
    BY <2>1, <2>3, <2>4 DEF Promise!Next
<1>2. CASE ~needStop /\ Len(queue) < MaxSize
  <2>0. ~(Len(queue) >= MaxSize)
    BY <1>2, PoolAssumption, LenProperties DEF TypeOK
  <2>1. /\ task \in Tasks \ Submitted
        /\ Submitted' = Submitted \cup {task}
    BY <1>2, <2>0, MoreSubmitted DEF Put
  <2>2. queue' = Append(queue, task) /\ UNCHANGED <<list, ran>> /\ Phase = "open"
    BY <1>2, <2>0 DEF Put, Phase, Phases
  <2>3. task \notin Held
    BY <2>1 DEF Accepted
  <2>4. ToSet(queue') = ToSet(queue) \cup {task} /\ Distinct(queue')
    BY <2>1, <2>2, <2>3, ElementsOfAppend DEF TypeOK, Once, Held
  <2>9. SameStarts
    <3>1. NotifyOne(wpc, wpc', "take")
      BY <1>2, <2>0 DEF Put
    <3> QED
      BY <3>1, NotifyWorker DEF TypeOK, SameStarts
  <2> HIDE DEF task
  <2>5. Waiting' = Waiting \cup {task} /\ Held' = Held \cup {task} /\ Hands' = Hands
    <3>1. Hands' = Hands /\ \A w \in Workers : Rest(w)' = Rest(w)
      BY <2>2, <2>9, SameHands
    <3> QED
      BY <2>2, <2>4, <3>1 DEF Waiting, Held
  <2>6. Once'
    <3>1. \A w \in Workers : task \notin ToSet(list[w])
      BY <2>3 DEF Held
    <3>2. \A w \in Workers : list'[w] = list[w]
      BY <2>2
    <3>3. \A w \in Workers : ToSet(queue') \cap ToSet(list'[w]) = {}
      BY <2>4, <3>1, <3>2 DEF Once
    <3> QED
      BY <2>2, <2>4, <3>2, <3>3 DEF Once
  <2>7. Accepted'
    BY <2>1, <2>5 DEF Accepted
  <2>8. Promise!Accept(task)
    BY <1>0, <2>1, <2>2, <2>5 DEF Promise!Accept
  <2> QED
    BY <2>1, <2>6, <2>7, <2>8 DEF Promise!Next
<1>3. CASE ~needStop /\ ~(Len(queue) < MaxSize)
  <2>1. /\ ppc[p] = "put" /\ ppc' = [ppc EXCEPT ![p] = "wait"]
        /\ UNCHANGED <<queue, list, wpc, added, ran>>
    BY <1>3 DEF Put
  <2>2. Submitted' = Submitted /\ SameStarts
    BY <2>1, SameSubmitted DEF TypeOK, SameStarts
  <2> QED
    BY <1>0, <2>1, <2>2, NothingMoves, Stutter
<1> QED
  BY <1>1, <1>2, <1>3

LEMMA TakeKeeps ==
  ASSUME IInv, NEW w \in Workers, Take(w)
  PROVE  Once' /\ Accepted' /\ [Promise!Next]_(Promise!vars)
<1> USE DEF IInv
<1>1. UNCHANGED <<added, ran>> /\ Phase' = Phase /\ wpc[w] = "take"
  BY DEF Take, Phase
<1>2. CASE needStop \/ queue = <<>>
  <2>1. UNCHANGED <<queue, list, ppc>> /\ SameStarts
    BY <1>2 DEF Take, TypeOK, SameStarts
  <2>2. Submitted' = Submitted
    BY <1>1, <2>1 DEF Submitted
  <2> QED
    BY <1>1, <2>1, <2>2, NothingMoves, Stutter
<1>3. CASE ~needStop /\ queue # <<>>
  <2>1. /\ NotifyOne(ppc, ppc', "put")
        /\ list' = [list EXCEPT ![w] = queue] /\ queue' = <<>>
        /\ list[w] = <<>> /\ wpc' = [wpc EXCEPT ![w] = "run"]
    BY <1>3 DEF Take, Phases
  <2>2. Submitted' = Submitted
    <3>1. \A p \in Producers : ppc'[p] = "idle" <=> ppc[p] = "idle"
      BY <2>1, NotifyProducer DEF TypeOK
    <3> QED
      BY <1>1, <3>1, SameSubmitted
  <2>3. /\ ToSet(queue') = {} /\ Distinct(queue') /\ ToSet(list[w]) = {}
        /\ list'[w] = queue
        /\ \A v \in Workers : v # w => list'[v] = list[v]
    BY <2>1, ElementsOfEmpty DEF TypeOK
  <2>4. /\ Rest(w) = list[w] /\ Rest(w)' = list'[w] /\ Hands' = Hands
        /\ \A v \in Workers : v # w => Rest(v)' = Rest(v)
    <3>1. wpc'[w] = "run" /\ \A v \in Workers : v # w => wpc'[v] = wpc[v]
      BY <2>1 DEF TypeOK
    <3> QED
      BY <1>1, <2>3, <3>1 DEF Rest, Hands
  <2>5. Waiting' = Waiting
    <3>1. ASSUME NEW t PROVE t \in Waiting' <=> t \in Waiting
      <4>1. t \in Waiting <=> t \in ToSet(queue) \/ \E v \in Workers : t \in ToSet(Rest(v))
        BY DEF Waiting
      <4>2. t \in Waiting' <=>
              t \in ToSet(queue') \/ \E v \in Workers : t \in ToSet(Rest(v)')
        BY DEF Waiting
      <4> QED
        BY <2>3, <2>4, <4>1, <4>2
    <3> QED
      BY <3>1
  <2>6. Once'
    BY <2>3 DEF Once
  <2>7. Accepted'
    <3>1. Held' \subseteq Held
      BY <2>3 DEF Held
    <3> QED
      BY <2>2, <3>1 DEF Accepted
  <2> QED
    BY <1>1, <2>2, <2>4, <2>5, <2>6, <2>7, Stutter
<1> QED
  BY <1>2, <1>3

(* A worker looks at m_running before each task.                           *)
LEMMA CheckKeeps ==
  ASSUME IInv, NEW w \in Workers, Check(w)
  PROVE  Once' /\ Accepted' /\ [Promise!Next]_(Promise!vars)
<1> USE DEF IInv
<1>1. /\ UNCHANGED <<queue, ppc, added, ran>> /\ Submitted' = Submitted
      /\ Phase' = Phase /\ wpc[w] = "run"
      /\ \A v \in Workers : v # w => wpc'[v] = wpc[v]
  BY DEF Check, Submitted, Phase, TypeOK
<1>2. CASE list[w] = <<>>
  <2>1. UNCHANGED list /\ SameStarts
    BY <1>1, <1>2 DEF Check, SameStarts, TypeOK
  <2> QED
    BY <1>1, <2>1, NothingMoves, Stutter
<1>3. CASE list[w] # <<>> /\ running
  <2> DEFINE task == Head(list[w])
  <2>1. list' = list /\ wpc' = [wpc EXCEPT ![w] = "start"] /\ wpc'[w] = "start"
    BY <1>3 DEF Check, TypeOK
  <2>2. /\ task \in ToSet(list[w])
        /\ ToSet(Tail(list[w])) = ToSet(list[w]) \ {task}
        /\ task \in Tasks
    BY <1>3, ElementsOfTail, HeadTailProperties DEF TypeOK, Once
  <2>3. /\ Rest(w) = list[w] /\ Rest(w)' = Tail(list[w])
        /\ \A v \in Workers : v # w => Rest(v)' = Rest(v)
    BY <1>1, <2>1 DEF Rest
  <2>4. Hands[w] = {} /\ Hands' = [Hands EXCEPT ![w] = {task}]
    BY <1>1, <2>1 DEF Hands
  <2> HIDE DEF task
  <2>5. /\ task \notin ToSet(queue)
        /\ \A v \in Workers : v # w => task \notin ToSet(list[v])
    BY <2>2 DEF Once
  <2>6. ASSUME NEW v \in Workers, v # w PROVE task \notin ToSet(Rest(v))
    <3>1. CASE wpc[v] = "start"
      <4>1. list[v] \in Seq(Tasks) /\ list[v] # <<>> /\ Distinct(list[v])
        BY <3>1 DEF TypeOK, Phases, Once
      <4>2. ToSet(Tail(list[v])) = ToSet(list[v]) \ {Head(list[v])}
        BY <4>1, ElementsOfTail
      <4> QED
        BY <2>5, <2>6, <3>1, <4>2 DEF Rest
    <3>2. CASE wpc[v] # "start"
      BY <2>5, <2>6, <3>2 DEF Rest
    <3> QED
      BY <3>1, <3>2
  <2>7. task \in Waiting /\ Waiting' = Waiting \ {task}
    <3>0. /\ \A t : t \in Waiting <=> t \in ToSet(queue) \/ \E v \in Workers : t \in ToSet(Rest(v))
          /\ \A t : t \in Waiting' <=>
                      t \in ToSet(queue') \/ \E v \in Workers : t \in ToSet(Rest(v)')
      BY DEF Waiting
    <3>1. ASSUME NEW t PROVE t \in Waiting' <=> t \in Waiting /\ t # task
      BY <1>1, <2>2, <2>3, <2>5, <2>6, <3>0
    <3> QED
      BY <2>2, <2>3, <3>0, <3>1
  <2>8. Phase \in {"open", "closed"}
    BY <1>3 DEF Phases, Phase
  <2>9. Promise!Pick(w, task)
    BY <1>1, <2>4, <2>7, <2>8 DEF Promise!Pick
  <2> QED
    BY <1>1, <2>1, <2>2, <2>9 DEF Promise!Next, Once, Accepted, Held
<1>4. CASE list[w] # <<>> /\ ~running
  <2>1. list' = [list EXCEPT ![w] = <<>>] /\ wpc' = [wpc EXCEPT ![w] = "done"]
    BY <1>4 DEF Check
  <2>2. /\ list'[w] = <<>> /\ ToSet(list'[w]) = {} /\ Distinct(list'[w])
        /\ wpc'[w] = "done"
        /\ \A v \in Workers : v # w => list'[v] = list[v]
    BY <2>1, ElementsOfEmpty DEF TypeOK
  <2>3. Hands' = Hands /\ Rest(w)' = <<>> /\ \A v \in Workers : v # w => Rest(v)' = Rest(v)
    BY <1>1, <2>2 DEF Hands, Rest
  <2>4. Waiting' \subseteq Waiting
    <3>1. ToSet(Rest(w)') = {}
      BY <2>3, ElementsOfEmpty
    <3> QED
      BY <1>1, <2>3, <3>1 DEF Waiting
  <2>5. Held' \subseteq Held /\ Once'
    BY <1>1, <2>2 DEF Held, Once
  <2>6. Promise!Abandon
    <3>1. Waiting' = Waiting \ (Waiting \ Waiting')
      BY <2>4
    <3>2. Phase \in {"halted", "over"}
      BY <1>4 DEF Phase
    <3> QED
      BY <1>1, <2>3, <3>1, <3>2 DEF Promise!Abandon
  <2> QED
    BY <1>1, <2>5, <2>6 DEF Promise!Next, Accepted
<1> QED
  BY <1>2, <1>3, <1>4

(* ... and starts it then.                                                 *)
LEMMA StartKeeps ==
  ASSUME IInv, NEW w \in Workers, Start(w)
  PROVE  Once' /\ Accepted' /\ [Promise!Next]_(Promise!vars)
<1> USE DEF IInv
<1> DEFINE task == Head(list[w])
<1>1. /\ UNCHANGED <<queue, ppc, added>> /\ Submitted' = Submitted
      /\ Phase' = Phase /\ wpc[w] = "start" /\ wpc'[w] = "run"
      /\ \A v \in Workers : v # w => wpc'[v] = wpc[v]
      /\ ran' = Append(ran, task) /\ list' = [list EXCEPT ![w] = Tail(list[w])]
  BY DEF Start, Submitted, Phase, TypeOK
<1>2. list[w] \in Seq(Tasks) /\ list[w] # <<>> /\ Distinct(list[w])
  BY <1>1 DEF TypeOK, Phases, Once
<1>3. /\ ToSet(Tail(list[w])) = ToSet(list[w]) \ {task} /\ Distinct(Tail(list[w]))
      /\ task \in Tasks
  BY <1>2, ElementsOfTail, HeadTailProperties
<1>4. list'[w] = Tail(list[w]) /\ \A v \in Workers : v # w => list'[v] = list[v]
  BY <1>1 DEF TypeOK
<1>5. /\ \A v \in Workers : Rest(v)' = Rest(v)
      /\ task \in Hands[w] /\ Hands' = [Hands EXCEPT ![w] = {}]
  <2>1. \A v \in Workers : v # w => Rest(v)' = Rest(v)
    BY <1>1, <1>4 DEF Rest
  <2>2. Rest(w)' = Rest(w)
    BY <1>1, <1>4 DEF Rest
  <2>3. task \in Hands[w]
    BY <1>1 DEF Hands
  <2>4. Hands' = [Hands EXCEPT ![w] = {}]
    <3>1. \A v \in Workers : v # w => Hands'[v] = Hands[v]
      BY <1>1, <1>4 DEF Hands
    <3>2. Hands'[w] = {}
      BY <1>1 DEF Hands
    <3> QED
      BY <3>1, <3>2 DEF Hands
  <2> QED
    BY <2>1, <2>2, <2>3, <2>4
<1> HIDE DEF task
<1>6. Waiting' = Waiting
  BY <1>1, <1>5 DEF Waiting
<1>7. Held' \subseteq Held /\ Once'
  <2>1. \A v \in Workers : ToSet(list'[v]) \subseteq ToSet(list[v]) /\ Distinct(list'[v])
    BY <1>3, <1>4 DEF Once
  <2>2. queue' = queue
    BY <1>1
  <2>3. Held' \subseteq Held
    BY <2>1, <2>2 DEF Held
  <2>4. /\ \A v \in Workers : ToSet(queue) \cap ToSet(list'[v]) = {}
        /\ \A u, v \in Workers : u # v => ToSet(list'[u]) \cap ToSet(list'[v]) = {}
    BY <2>1 DEF Once
  <2> QED
    BY <2>1, <2>2, <2>3, <2>4 DEF Once
<1>8. Promise!Begin(w, task)
  BY <1>1, <1>5, <1>6 DEF Promise!Begin
<1> QED
  BY <1>1, <1>3, <1>7, <1>8 DEF Promise!Next, Accepted

LEMMA InvStep ==
  IInv /\ [Next]_vars => IInv' /\ [Promise!Next]_(Promise!vars)
<1> SUFFICES ASSUME IInv, [Next]_vars
             PROVE  Once' /\ Accepted' /\ [Promise!Next]_(Promise!vars)
  BY TypesStep DEF IInv
<1>1. ASSUME NEW p \in Producers, AddTask(p)
      PROVE  Once' /\ Accepted' /\ [Promise!Next]_(Promise!vars)
  <2>1. Submitted' = Submitted
    <3>1. \A t \in Tasks : t[1] \in Producers /\ t[2] \in Nat
      BY PoolAssumption DEF Tasks
    <3>2. ASSUME NEW t \in Tasks PROVE t \in Submitted' <=> t \in Submitted
      BY <1>1, <3>1 DEF AddTask, Submitted, IInv, TypeOK
    <3> QED
      BY <3>2 DEF Submitted
  <2>2. SameStarts /\ Phase' = Phase
    BY <1>1 DEF AddTask, SameStarts, Phase
  <2> QED
    BY <1>1, <2>1, <2>2, NothingMoves, Stutter DEF AddTask, IInv
<1>2. ASSUME NEW w \in Workers, Loop(w)
      PROVE  Once' /\ Accepted' /\ [Promise!Next]_(Promise!vars)
  <2>1. Submitted' = Submitted
    BY <1>2 DEF Loop, Submitted
  <2>2. SameStarts /\ Phase' = Phase
    BY <1>2 DEF Loop, SameStarts, Phase, IInv, TypeOK
  <2> QED
    BY <1>2, <2>1, <2>2, NothingMoves, Stutter DEF Loop, IInv
<1>3. CASE WakeProducers
  <2>1. Submitted' = Submitted
    <3>1. \A p \in Producers : ppc'[p] = "idle" <=> ppc[p] = "idle"
      BY <1>3, NotifyProducers DEF WakeProducers, IInv, TypeOK
    <3> QED
      BY <1>3, <3>1, SameSubmitted DEF WakeProducers, IInv
  <2>2. SameStarts /\ Phase' = Phase
    BY <1>3 DEF WakeProducers, SameStarts, Phase
  <2> QED
    BY <1>3, <2>1, <2>2, NothingMoves, Stutter DEF WakeProducers, IInv
<1>4. CASE WakeWorkers
  <2>1. Submitted' = Submitted
    BY <1>4 DEF WakeWorkers, Submitted
  <2>2. SameStarts /\ Phase' = Phase
    BY <1>4, NotifyWorkers DEF WakeWorkers, SameStarts, Phase, IInv, TypeOK
  <2> QED
    BY <1>4, <2>1, <2>2, NothingMoves, Stutter DEF WakeWorkers, IInv
<1>7. CASE UNCHANGED vars
  <2>1. Submitted' = Submitted /\ SameStarts /\ Phase' = Phase
    BY <1>7 DEF vars, Submitted, SameStarts, Phase
  <2> QED
    BY <1>7, <2>1, NothingMoves, Stutter DEF vars, IInv
<1>5. CASE Spurious
  <2>1. Submitted' = Submitted
    <3>1. \A p \in Producers : ppc'[p] = "idle" <=> ppc[p] = "idle"
      BY <1>5 DEF Spurious, IInv, TypeOK
    <3> QED
      BY <1>5, <3>1, SameSubmitted DEF Spurious, IInv
  <2>2. SameStarts /\ Phase' = Phase
    BY <1>5 DEF Spurious, SameStarts, Phase, IInv, TypeOK
  <2> QED
    BY <1>5, <2>1, <2>2, NothingMoves, Stutter DEF Spurious, IInv
<1>6. ASSUME SetNeedStop \/ Halt \/ Join
      PROVE  Once' /\ Accepted' /\ [Promise!Next]_(Promise!vars)
  <2>1. UNCHANGED <<queue, list, wpc, ppc, added, ran>>
    BY <1>6 DEF SetNeedStop, Halt, Join
  <2>2. Submitted' = Submitted /\ SameStarts
    BY <2>1 DEF Submitted, SameStarts
  <2>3. Once' /\ Accepted' /\ Waiting' = Waiting /\ Hands' = Hands
    BY <2>1, <2>2, NothingMoves DEF IInv
  <2>4. ASSUME SetNeedStop PROVE Promise!Close
    <3>1. Phase = "open" /\ Phase' = "closed"
      BY <2>4 DEF SetNeedStop, Phase, IInv, Phases, TypeOK
    <3> QED
      BY <2>1, <2>2, <2>3, <3>1 DEF Promise!Close
  <2>5. ASSUME Halt PROVE Promise!Halt
    <3>1. Phase = "closed" /\ Phase' = "halted"
      BY <2>5 DEF Halt, Phase, IInv, Phases, TypeOK
    <3> QED
      BY <2>1, <2>2, <2>3, <3>1 DEF Promise!Halt
  <2>6. ASSUME Join PROVE Promise!Finish
    <3>1. Phase = "halted" /\ Phase' = "over"
      BY <2>6 DEF Join, Phase, IInv, Phases
    <3>2. \A w \in Workers : Hands[w] = {}
      BY <2>6 DEF Join, Hands
    <3> QED
      BY <2>1, <2>2, <2>3, <3>1, <3>2 DEF Promise!Finish
  <2> QED
    BY <1>6, <2>3, <2>4, <2>5, <2>6 DEF Promise!Next
<1> QED
  BY <1>1, <1>2, <1>3, <1>4, <1>7, <1>5, <1>6, PutKeeps, TakeKeeps, CheckKeeps, StartKeeps
     DEF Next, Work, StopThreadGroup

(* Whatever the threads race for, a task is started at most once and only  *)
(* if it was accepted, none is accepted after Stop; after m_running = false*)
(* each worker starts at most the task it had checked it for, and none     *)
(* after Stop has returned.                                                *)
THEOREM PoolKeepsPromise == Spec => KeepsPromise
<1>1. Init => IInv /\ Promise!Init
  <2> SUFFICES ASSUME Init PROVE IInv /\ Promise!Init
    OBVIOUS
  <2>1. TypeOK /\ Phases
    BY InitTypes
  <2>2. ToSet(queue) = {} /\ Distinct(queue)
    BY ElementsOfEmpty DEF Init
  <2>3. \A w \in Workers : ToSet(list[w]) = {} /\ Distinct(list[w])
    BY ElementsOfEmpty DEF Init
  <2>4. Held = {} /\ Waiting = {} /\ Hands = [w \in Workers |-> {}]
    <3>1. \A w \in Workers : wpc[w] # "start"
      BY DEF Init
    <3> QED
      BY <2>2, <2>3, <3>1 DEF Held, Waiting, Hands, Rest
  <2>5. Submitted = {}
    BY PoolAssumption DEF Init, Submitted, Tasks
  <2>6. IInv
    BY <2>1, <2>2, <2>3, <2>4 DEF IInv, Once, Accepted
  <2> QED
    BY <2>4, <2>5, <2>6 DEF Init, Phase, Promise!Init
<1>2. IInv /\ [Next]_vars => IInv' /\ [Promise!Next]_(Promise!vars)
  BY InvStep
<1> QED
  BY <1>1, <1>2, PTL DEF Spec, KeepsPromise, Promise!Spec
=============================================================================
