---------------------------- MODULE DataReceiver ----------------------------
(***************************************************************************)
(* DataReceiver (ctptest/datareceiver.cpp): a controlling thread that      *)
(* starts and stops the reception of market data, and a collector thread   *)
(* that takes ticks from md_queryRtnData and puts them into the storage,   *)
(* the cache and the index of their product, under tick_mutex.             *)
(*                                                                         *)
(* easyctp is seen through its interface.  The results of its calls are    *)
(* those TdSession, MdSession and TickQueue allow; in particular md_stop   *)
(* never returns STATUS_OK.  One product is modelled, with its contracts   *)
(* and its index.  Kept of a tick: its block of memory (its number), its   *)
(* contract and its total volume.  A tick has been freed when its number   *)
(* is not in heap; the number 0 is the index tick on calcIndex's stack.    *)
(*                                                                         *)
(* The process may end at any moment, by a failed CHECK or from outside,   *)
(* and be started again on the same trading day, which finds the files of  *)
(* that day.  saveTickToFile writes sizeof(TickData) bytes from the place  *)
(* where the vector keeps its pointer, so a record is an image of heap     *)
(* memory.  Kept of an image: the total volume it shows when it is read    *)
(* as a tick; a negative one stands for every image that is no valid tick. *)
(***************************************************************************)
EXTENDS Integers, Sequences, SequencesExt

CONSTANTS Contracts, Index,   \* contracts of the product and its index symbol
          NoContract,         \* no main contract
          MaxOi, Totals,      \* open interests 0..MaxOi, total volumes of ticks
          StoreCap, SaveAt,   \* size of a TickStorage, cached ticks per save
          Images,             \* the images of memory a record may be
          MaxTicks,           \* bound: ticks that arrive
          MaxRestarts         \* bound: times the process is started again

ASSUME ReceiverAssumption ==
  /\ IsFiniteSet(Contracts)
  /\ Index \notin Contracts /\ NoContract \notin Contracts \cup {Index}
  /\ MaxOi \in Nat /\ Totals \subseteq Nat /\ Images \subseteq Int
  /\ StoreCap \in Nat \ {0} /\ SaveAt \in Nat \ {0}
  /\ MaxTicks \in Nat /\ MaxRestarts \in Nat

Symbols == Contracts \cup {Index}

VARIABLES
  locked,        \* start or stop holds tick_mutex
  quit,          \* DataReceiver::quit
  main, todo,    \* the controlling thread: its step, contracts still to ask for
  pool, mainContract,  \* subscribePool, mainContractMap
  storage,       \* tickStorage: per symbol the stored ticks
  cached, cache, \* symbols with a vector in tickCache, and the pointers in it
  col, hand,     \* the collector: its step and the tick it holds
  feed, queue,   \* contracts the front sends ticks of; easyctp's list of ticks
  mdQuit,        \* easyctp's quit flag
  heap, arrived, \* live blocks of ticks, number of ticks so far
  gaveUp,        \* the collector left on STATUS_TIMEOUT or STATUS_STOPPED
  abort,         \* what ended the process: "none", or the line's reason
  folder, disk,  \* the folder of the files exists; per symbol the records on file
  found, born,   \* history: records on file and ticks so far when the process began
  tape,          \* history: contract and total of every tick of the day
  restarts       \* times the process was started again

mainVars == <<locked, quit, main, todo, pool, mainContract>>
data == <<storage, cached, cache, disk>>
colVars == <<col, hand, gaveUp>>
feedVars == <<feed, queue, mdQuit, heap, arrived>>
rest == <<abort, folder, found, born, tape, restarts>>
vars == <<mainVars, data, colVars, feedVars, rest>>

Init ==
  /\ locked = FALSE /\ quit = FALSE /\ main = "idle" /\ todo = <<>>
  /\ pool = <<>> /\ mainContract = NoContract
  /\ storage = [x \in Symbols |-> <<>>] /\ cached = {} /\ cache = [x \in Symbols |-> <<>>]
  /\ col = "none" /\ hand = <<>> /\ gaveUp = FALSE
  /\ feed = {} /\ queue = <<>> /\ mdQuit = FALSE /\ heap = {} /\ abort = "none"
  /\ arrived = 0 /\ tape = <<>>
  /\ folder \in BOOLEAN /\ disk = [x \in Symbols |-> <<>>]
  /\ found = [x \in Symbols |-> 0] /\ born = 0 /\ restarts = 0

Die(why) ==
  /\ abort' = why
  /\ UNCHANGED <<mainVars, data, colVars, feedVars,
                 folder, found, born, tape, restarts>>

MainAt(step) == abort = "none" /\ main = step
ColAt(step) == abort = "none" /\ col = step

-----------------------------------------------------------------------------
(* start().                                                                *)

(* Each contract with a positive open interest replaces the one before:    *)
(* maxOi is compared with and never assigned.                              *)
MainOf(list, interest) ==
  LET positive == {i \in DOMAIN list : interest[list[i]] > 0}
  IN  IF positive = {} THEN NoContract ELSE list[Max(positive)]

(* The records of a file that appendTick looks at: a full storage ignores  *)
(* the others before their CHECK.                                          *)
Fitting(n) == IF n > StoreCap THEN StoreCap ELSE n
Loaded(x) == SubSeq(disk[x], 1, Fitting(Len(disk[x])))

(* What td_queryMarketData may list, and the files read for it: those of   *)
(* the contracts and, if there are any, the one of the index.              *)
Lists == UNION {SetToSeqs(s) : s \in SUBSET Contracts}
FilesOf(list) == IF list = <<>> THEN {} ELSE ToSet(list) \cup {Index}

(* initSubscribePool and loadTicks: the contracts td_queryMarketData lists,*)
(* in its order; none if it fails, which nobody checks.  A record that is  *)
(* no valid tick fails the CHECK of appendTick.  From here on tick_mutex   *)
(* is held.                                                                *)
Start ==
  /\ MainAt("idle") /\ ~locked
  /\ \E list \in Lists :
       LET files == FilesOf(list)
           bad == \E x \in files : \E v \in ToSet(Loaded(x)) : v < 0
       IN  \/ bad /\ Die("load")
           \/ /\ ~bad
              /\ pool' = list /\ todo' = list
              /\ \E f \in [Contracts -> 0..MaxOi] :
                   /\ \A c \in Contracts \ ToSet(list) : f[c] = 0
                   /\ mainContract' = MainOf(list, f)
              /\ storage' = [x \in Symbols |->
                               IF x \in files
                               THEN [i \in DOMAIN Loaded(x) |->
                                      [id |-> 0, total |-> Loaded(x)[i], volume |-> 0]]
                               ELSE <<>>]
              /\ cached' = files \cap {Index}
              /\ locked' = TRUE /\ main' = "launch"
              /\ UNCHANGED <<quit, cache, disk, colVars, feedVars, rest>>

(* quit = false, md_start, whatever it returns, and the collector thread.  *)
Launch ==
  /\ MainAt("launch")
  /\ quit' = FALSE
  /\ col' = "loop"
  /\ \/ todo = <<>> /\ main' = "running" /\ locked' = FALSE
     \/ todo # <<>> /\ main' = "subscribe" /\ UNCHANGED locked
  /\ UNCHANGED <<todo, pool, mainContract, data, hand, gaveUp, feedVars, rest>>

(* A vector for the next contract, and md_subscribe goes to the front ...  *)
Subscribe ==
  /\ MainAt("subscribe")
  /\ feed' = feed \cup {Head(todo)}
  /\ cached' = cached \cup {Head(todo)}
  /\ main' = "subscribed"
  /\ UNCHANGED <<locked, quit, todo, pool, mainContract, storage, cache, disk,
                 colVars, queue, mdQuit, heap, arrived, rest>>

(* ... and has to return STATUS_OK.                                        *)
Subscribed ==
  /\ MainAt("subscribed")
  /\ \/ /\ todo' = Tail(todo)
        /\ \/ todo' = <<>> /\ main' = "running" /\ locked' = FALSE
           \/ todo' # <<>> /\ main' = "subscribe" /\ UNCHANGED locked
        /\ UNCHANGED <<quit, pool, mainContract, data, colVars, feedVars, rest>>
     \/ Die("subscribe")

-----------------------------------------------------------------------------
(* stop().                                                                 *)

(* saveTickToFile for these symbols: one image per pointer of the vector;  *)
(* without the folder no file opens, and nobody is told.                   *)
Save(symbols) ==
  LET open == {x \in symbols : folder}
      slots == UNION {{x} \X DOMAIN cache[x] : x \in open}
  IN  \E image \in [slots -> Images] :
        disk' = [x \in Symbols |->
                   disk[x] \o IF x \in open THEN [i \in DOMAIN cache[x] |-> image[<<x, i>>]]
                              ELSE <<>>]

(* quit, then saveTicks writes every vector and, working on a copy, leaves *)
(* it as it is.                                                            *)
Stop ==
  /\ MainAt("running") /\ ~locked
  /\ locked' = TRUE /\ quit' = TRUE
  /\ Save(cached)
  /\ main' = "unsubscribe" /\ todo' = pool
  /\ UNCHANGED <<pool, mainContract, storage, cached, cache, colVars, feedVars, rest>>

(* md_unsubscribe: it leaves sync_status at 1, on which the next one dies, *)
(* unless a login comes in between.                                        *)
Unsubscribe ==
  /\ MainAt("unsubscribe") /\ todo # <<>>
  /\ \/ /\ todo' = Tail(todo)
        /\ feed' = feed \ {Head(todo)}
        /\ UNCHANGED <<locked, quit, main, pool, mainContract, data, colVars, queue,
                       mdQuit, heap, arrived, rest>>
     \/ Die("unsubscribe")

(* md_stop wakes the collector with its quit flag ...                      *)
StopWake ==
  /\ MainAt("unsubscribe") /\ todo = <<>>
  /\ mdQuit' = TRUE /\ main' = "clear"
  /\ UNCHANGED <<locked, quit, todo, pool, mainContract, data, colVars, feed, queue,
                 heap, arrived, rest>>

(* ... sleeps, ends the feed and lowers its flags ...                      *)
StopSilence ==
  /\ MainAt("clear")
  /\ feed' = {} /\ mdQuit' = FALSE /\ main' = "freeing"
  /\ UNCHANGED <<locked, quit, todo, pool, mainContract, data, colVars, queue, heap,
                 arrived, rest>>

(* ... frees the ticks still queued, one by one and without the mutex of   *)
(* the list (a collector that goes to the list meanwhile: see Query) ...   *)
StopClear ==
  /\ MainAt("freeing")
  /\ heap' = heap \ {t.id : t \in ToSet(queue)}
  /\ queue' = <<>> /\ main' = "check"
  /\ UNCHANGED <<locked, quit, todo, pool, mainContract, data, colVars, feed, mdQuit,
                 arrived, rest>>

(* mutant: the collector is joined before the CHECK.                       *)
BugStopCheck == MainAt("check") /\ col = "ended" /\ Die("stop")

(* ... and times out, which fails the CHECK before the collector is joined.*)
StopCheck == MainAt("check") /\ Die("stop")

-----------------------------------------------------------------------------
(* tickCollect() and onTick().                                             *)

Loop ==
  /\ ColAt("loop")
  /\ col' = IF quit THEN "ended" ELSE "query"
  /\ UNCHANGED <<mainVars, data, hand, gaveUp, feedVars, rest>>

(* md_queryRtnData: a tick, the quit flag, nothing for too long, or, once  *)
(* md_stop has lowered its flags, STATUS_STOPPED.  A collector that saw    *)
(* them before takes from the list that md_stop is freeing.                *)
Query ==
  /\ ColAt("query")
  /\ \/ /\ queue # <<>> /\ main # "freeing"
        /\ hand' = <<Head(queue)>> /\ queue' = Tail(queue)
        /\ col' = "onTick"
        /\ UNCHANGED <<mainVars, data, gaveUp, feed, mdQuit, heap, arrived, rest>>
     \/ /\ queue = <<>> /\ mdQuit
        /\ col' = "loop"
        /\ UNCHANGED <<mainVars, data, hand, gaveUp, feedVars, rest>>
     \/ /\ (queue = <<>> /\ ~mdQuit) \/ main = "freeing"
        /\ col' = "ended" /\ gaveUp' = TRUE
        /\ UNCHANGED <<mainVars, data, hand, feedVars, rest>>
     \/ queue # <<>> /\ main = "freeing" /\ Die("race")

(* The volume of a tick: what its total adds to that of the last one.      *)
VolumeOf(t) == IF storage[t.sym] = <<>> THEN t.total
               ELSE t.total - Last(storage[t.sym]).total

(* mutant: the volume is the total.                                        *)
BugStored(t) == [id |-> t.id, total |-> t.total, volume |-> t.total]

(* The tick as appendTick copies it.                                       *)
Stored(t) == [id |-> t.id, total |-> t.total, volume |-> VolumeOf(t)]

(* mutant: a full vector is not cleared.                                   *)
BugAppended(pointers, id) == Append(pointers, id)

(* The cache of a contract after id went in: cleared once it holds SaveAt  *)
(* pointers, whether or not they could be saved.                           *)
Appended(pointers, id) ==
  IF Len(pointers) = SaveAt THEN <<id>> ELSE Append(pointers, id)

(* The symbols whose storage takes the tick: calcIndex follows a tick of   *)
(* the main contract with one for the index, and ignores a full storage.   *)
Takers(t) == {t.sym} \cup {x \in {Index} : t.sym = mainContract /\ Len(storage[x]) < StoreCap}

(* appendTick, the cache, and for a tick of the main contract calcIndex,   *)
(* which caches the address of its local variable.                         *)
Keep(t) ==
  /\ storage' = [x \in Symbols |-> IF x \in Takers(t) THEN Append(storage[x], Stored(t))
                                   ELSE storage[x]]
  /\ cache' = [x \in Symbols |->
                 IF x = t.sym THEN Appended(cache[x], t.id)
                 ELSE IF x = Index /\ t.sym = mainContract THEN Append(cache[x], 0)
                 ELSE cache[x]]
  /\ Save({x \in {t.sym} : Len(cache[x]) = SaveAt})
  /\ UNCHANGED cached

(* mutant: a total that went back is let through.                          *)
BugOnTick ==
  LET t == hand[1]
  IN  /\ ColAt("onTick") /\ ~locked
      /\ \/ /\ Len(storage[t.sym]) < StoreCap /\ t.sym \in cached
            /\ Keep(t)
            /\ col' = "free"
            /\ UNCHANGED <<mainVars, hand, gaveUp, feedVars, rest>>
         \/ Len(storage[t.sym]) = StoreCap /\ Die("overflow")

(* onTick, all of it under tick_mutex.  A full TickStorage returns a null  *)
(* pointer, and a contract without a vector has a null one: both are used. *)
OnTick ==
  LET t == hand[1]
      fits == VolumeOf(t) >= 0 /\ Len(storage[t.sym]) < StoreCap
  IN  /\ ColAt("onTick") /\ ~locked
      /\ \/ /\ quit \/ (fits /\ t.sym \in cached)
            /\ IF quit THEN UNCHANGED data ELSE Keep(t)
            /\ col' = "free"
            /\ UNCHANGED <<mainVars, hand, gaveUp, feedVars, rest>>
         \/ ~quit /\ VolumeOf(t) < 0 /\ Die("volume")
         \/ ~quit /\ VolumeOf(t) >= 0 /\ Len(storage[t.sym]) = StoreCap /\ Die("overflow")
         \/ ~quit /\ fits /\ t.sym \notin cached /\ Die("null")

(* mutant: the tick is left to the cache.                                  *)
BugFree ==
  /\ ColAt("free")
  /\ hand' = <<>> /\ col' = "loop"
  /\ UNCHANGED <<mainVars, data, gaveUp, feedVars, rest>>

(* md_freeMemory.                                                          *)
Free ==
  /\ ColAt("free")
  /\ heap' = heap \ {hand[1].id}
  /\ hand' = <<>> /\ col' = "loop"
  /\ UNCHANGED <<mainVars, data, gaveUp, feed, queue, mdQuit, arrived, rest>>

-----------------------------------------------------------------------------
(* CTP's thread: a tick of a contract that was asked for.  Its total is    *)
(* the volume of the day so far, which never goes back.                    *)
Arrive ==
  /\ abort = "none" /\ arrived < MaxTicks
  /\ \E c \in feed, v \in Totals :
       /\ \A i \in DOMAIN tape : tape[i].sym = c => tape[i].total <= v
       /\ queue' = Append(queue, [id |-> arrived + 1, sym |-> c, total |-> v])
       /\ tape' = Append(tape, [sym |-> c, total |-> v])
  /\ arrived' = arrived + 1 /\ heap' = heap \cup {arrived + 1}
  /\ UNCHANGED <<mainVars, data, colVars, feed, mdQuit,
                 abort, folder, found, born, restarts>>

(* The process died, or is killed, and is started again on the same day.   *)
(* (Without a file it begins as the first one did.)                        *)
Restart ==
  /\ main # "idle" \/ abort # "none"
  /\ \E x \in Symbols : disk[x] # <<>>
  /\ restarts < MaxRestarts /\ restarts' = restarts + 1
  /\ locked' = FALSE /\ quit' = FALSE /\ main' = "idle" /\ todo' = <<>>
  /\ pool' = <<>> /\ mainContract' = NoContract
  /\ storage' = [x \in Symbols |-> <<>>] /\ cached' = {} /\ cache' = [x \in Symbols |-> <<>>]
  /\ col' = "none" /\ hand' = <<>> /\ gaveUp' = FALSE
  /\ feed' = {} /\ queue' = <<>> /\ mdQuit' = FALSE /\ heap' = {} /\ abort' = "none"
  /\ found' = [x \in Symbols |-> Len(disk[x])] /\ born' = arrived
  /\ UNCHANGED <<arrived, tape, folder, disk>>

Control == Launch \/ Subscribe \/ Subscribed \/ Unsubscribe \/ StopWake \/ StopSilence
             \/ StopClear \/ StopCheck
Collect == Loop \/ Query \/ OnTick \/ Free

Next == Start \/ Stop \/ Control \/ Collect \/ Arrive \/ Restart

(* Both threads keep running; nothing makes a tick arrive or the user call.*)
Fairness == WF_vars(Control) /\ WF_vars(Collect)

Spec == Init /\ [][Next]_vars /\ Fairness
-----------------------------------------------------------------------------
(* Properties.                                                             *)

Block == [id : 1..MaxTicks, sym : Contracts, total : Totals]

TypeOK ==
  /\ locked \in BOOLEAN /\ quit \in BOOLEAN /\ mdQuit \in BOOLEAN
  /\ main \in {"idle", "launch", "subscribe", "subscribed", "running", "unsubscribe",
               "clear", "freeing", "check"}
  /\ todo \in Seq(Contracts) /\ pool \in Seq(Contracts)
  /\ mainContract \in Contracts \cup {NoContract}
  /\ storage \in [Symbols -> Seq([id : 0..MaxTicks, total : Nat, volume : Nat])]
  /\ cached \subseteq Symbols /\ cache \in [Symbols -> Seq(0..MaxTicks)]
  /\ col \in {"none", "loop", "query", "onTick", "free", "ended"}
  /\ hand \in Seq(Block) /\ queue \in Seq(Block) /\ feed \subseteq Contracts
  /\ heap \subseteq 1..MaxTicks /\ arrived \in 0..MaxTicks
  /\ gaveUp \in BOOLEAN /\ folder \in BOOLEAN
  /\ disk \in [Symbols -> Seq(Images)] /\ tape \in Seq([sym : Contracts, total : Totals])
  /\ found \in [Symbols -> Nat] /\ born \in 0..MaxTicks /\ restarts \in 0..MaxRestarts
  /\ abort \in {"none", "load", "subscribe", "unsubscribe", "stop", "volume",
                "overflow", "null", "race"}

Ids(s) == {s[i].id : i \in DOMAIN s}

(* What a storage holds of ticks received by this process, after the       *)
(* records that were loaded.                                               *)
FromFile(x) == Fitting(found[x])
Received(x) == SubSeq(storage[x], FromFile(x) + 1, Len(storage[x]))

(* Every tick's block is owned by exactly one place, easyctp's list or the *)
(* collector's hand, and freed when it leaves them: no leak and no double  *)
(* free (md_freeMemory and MdSm::stop share the work).  Until stop(), each *)
(* tick this process got is there or was stored, once and in order.        *)
TicksAccounted ==
  abort = "none" =>
    /\ heap = Ids(queue) \cup Ids(hand)
    /\ ~quit => born + 1..arrived = heap \cup UNION {Ids(Received(c)) : c \in Contracts}
    /\ \A c \in Contracts : \A i, j \in DOMAIN Received(c) :
         i < j => Received(c)[i].id < Received(c)[j].id

(* The total a contract's ticks start from: that of the last record this   *)
(* process loaded, whatever its image showed.                              *)
Base(x) == IF FromFile(x) = 0 THEN 0 ELSE storage[x][FromFile(x)].total

(* The total of the contract's tick that came before the n-th one, stored  *)
(* or not; the first one of this process has the base.                     *)
TotalBefore(c, n) ==
  LET before == {k \in born + 1..n - 1 : tape[k].sym = c}
  IN  IF before = {} THEN Base(c) ELSE tape[Max(before)].total

(* A stored tick has the total the exchange sent, and the volume it adds   *)
(* to the tick that came before it: none of this process's ticks is        *)
(* skipped, stored twice or overtaken on its way from CTP's thread to the  *)
(* storage.  (Between processes volume is lost: see VolumeCheckHolds.)     *)
(* The index has, as far as it goes, the ticks of its main contract.       *)
VolumesFollowTicks ==
  /\ \A c \in Contracts : \A i \in DOMAIN Received(c) :
       LET r == Received(c)[i]
       IN  /\ tape[r.id] = [sym |-> c, total |-> r.total]
           /\ r.volume = r.total - TotalBefore(c, r.id)
  /\ mainContract # NoContract => IsPrefix(Received(Index), Received(mainContract))

(* A contract's vector points to the last ticks stored, at most SaveAt of  *)
(* them.  With the folder every other tick this process stored has one     *)
(* record on file: none is cleared unsaved or saved twice.  Without it the *)
(* vector is cleared all the same and no record is written, so that all    *)
(* but the last SaveAt ticks are lost (and those too when stop() dies).    *)
CacheIsUnsaved ==
  \A c \in Contracts :
    LET n == Len(cache[c])
        m == Len(Received(c))
    IN  /\ n <= SaveAt /\ n <= m
        /\ \A i \in 1..n : cache[c][i] = Received(c)[m - n + i].id
        /\ folder => Len(disk[c]) = found[c] + (IF quit THEN m ELSE m - n)
        /\ ~folder => Len(disk[c]) = found[c]

(* Whenever ticks are waiting the receiver catches up with them (a run has *)
(* a bounded number) and frees them, unless the collector gave up: no wait *)
(* for tick_mutex lasts.  (It cannot: start() needs nothing of the         *)
(* collector, and stop() dies before it joins it with the mutex held.)     *)
TicksLeave == heap # {} ~> (heap = {} \/ gaveUp \/ abort # "none")

(* datareceiver.cpp:108 asserts that the volume of a tick is not negative. *)
(* The totals of a day never go back, so the files do not make them.       *)
VolumeCheckHolds == abort # "volume"
=============================================================================
