# bpmbase in TLA+

TLA+ models of the concurrent and stateful parts of bpmbase, the TLC runs that
check them on small instances, and TLAPS proofs of their main results for every
value of the constants. `PROJECT.json` maps each definition to the lines it
translates and lists components, runs, mutants, findings, hazards and theorems.
Paths below are relative to `src/`.

1. [Inventory](#1-inventory) 2. [Modules and code](#2-modules-and-code)
3. [Runs](#3-runs) 4. [Findings](#4-findings) 5. [Fairness](#5-fairness)
6. [Proofs](#6-proofs) 7. [Not modelled](#7-not-modelled)
8. [Plan](#8-plan) 9. [How to run](#9-how-to-run)

## 1. Inventory

bpmbase is a collection of C++ libraries and programs around futures trading
over CTP (a Chinese brokerage API), with exercises and demos beside them. The
program's own logic is in a few directories; most of the rest is vendored.

| part | state it keeps | operations | talks to |
|---|---|---|---|
| `easyctp`, trading (`tdapi.cpp`, `tdsm.cpp`) | `sync_status`, `started`, `reqID`, the two lists of answers under `qryMutex` | `td_start`, `td_queryPosition`, `td_queryMarketData`, `td_stop`; CTP's callbacks | the application's thread; CTP's thread |
| `easyctp`, market data (`mdapi.cpp`, `mdsm.cpp`) | `sync_status`, `started`, `subPool` | `md_start`, `md_subscribe`, `md_unsubscribe`, `md_stop`; callbacks | as above |
| `easyctp`, tick queue (same files) | `ticks` under `ticks_mutex`, `ticks_cv`, `need_notify`, `quit_flag` | `md_queryRtnData`, `OnRtnDepthMarketData`, the queue's part of start and stop | consumers; CTP's thread; the thread in `md_stop` |
| `kbarutils` `KBarTable` | rows, bar and sub-bar under construction, count of sub-bars | `appendTick`, `appendSubKBar`, `appendKBar`, `finish`, `resample` | `bpm_sametradingday`, `bpm_daysofctime` of `utils/timeutil.cpp` |
| `kbarutils` `TickStorage` | bounded vector of ticks per symbol | `appendTick`, `getLatestTick` | `DataReceiver` |
| `ctptest` `DataReceiver` | storage, cache of pointers, the day's files, main contract, `quit`, `tick_mutex` | `start`, `loadTicks`, `stop`; collector thread: `tickCollect`, `onTick`, `calcIndex`, saves | `easyctp`, `TickStorage`, files |
| `InDepthCpp11` `ThreadPool`, `SyncQueue` | bounded queue, `m_needStop`, `m_running` | `AddTask`, `Put`, `Take`, `RunInThread`, `Stop` | producers, workers, the thread in `Stop` |
| `InDepthCpp11` asio server (`server.h`, `rwhandler.h`, `message.h`) | list of free ids, handlers by id, each handler's frame | `Accept`, `HandleAcpError`, `CreateHandler`, `HandleRead`, `HandleError` | boost::asio, peers |
| `CppPrimerExercise` `Message`, `Folder` | two mirrored sets of pointers | copy, move, swap, assign, destroy, save, remove | each other |
| `evpp_demos` codec | a receive buffer | framing by length | evpp |

**How they interact.** `DataReceiver::start` asks the trading session for all
contracts (`td_queryMarketData`), picks the main contract, starts the
market-data session and subscribes contract by contract. CTP's thread then
appends ticks to `easyctp`'s queue; the collector thread takes them with
`md_queryRtnData`, stores and caches them under `tick_mutex`, and frees the
block with `md_freeMemory`. `easyctp` turns CTP's asynchronous requests into
synchronous calls: a call stores 1 in `sync_status`, sends, and polls; a
callback on CTP's thread stores 2; the poll is bounded. `KBarTable` is
sequential and used by programs that convert ticks and bars.

**What is hard.** (a) One word, `sync_status`, is shared by a caller and CTP's
callbacks, and no callback compares request ids, so a late, lost or repeated
answer may meet another call. (b) A broken connection logs in again on CTP's
thread, and the login callback issues requests of its own. (c) `md_start`
stores the tick queue's flags without its mutex, and `md_stop` resets and clears
it without the mutex after a sleep that waits for nobody. (d)
`need_notify` is one flag for all waiting consumers, and `SyncQueue` notifies
one producer however much room `Take` made. (e) `KBarTable` closes bars for
four reasons (count, trading day, `finish`, a direct `appendKBar`), a full
table refuses a bar in the middle of these, and the check on ticks lets pass what
the check on bars dies of. (f) Ticks are freed by two
threads, and pointers to them are cached. (g) A process started again on the
same day continues from files that hold images of memory. (h) The server's
handlers keep themselves alive through a map from ids, the acceptor holds one id
ahead of its use, and a length comes from the peer before it is checked, with
unsigned arithmetic. (i) `Message` and `Folder` change each other in the middle
of their own operations, whose two arguments may be the same object.

**What makes each part correct.** Trading: `STATUS_OK` means the complete
answer to this very request. Market data: the pool agrees with the front's
subscriptions. Queue: each tick once, in order, in its session; who
waits when a stop begins learns of it while the stop sleeps. KBarTable: no volume
lost or doubled, bars are what went into them, and only unusable input ends the
process. DataReceiver: one owner per block, each stored volume is what the tick
adds to the one before it, and what leaves a vector of the cache is on file if
there is a folder to write to. ThreadPool: tasks once, at most one per worker
after `m_running` is false and none after Stop has returned, and nobody sleeps for
ever. Server: an id is in one place, frames arrive whole and in order, whoever
leaves is released. Message and Folder: each side points to exactly the objects
that point to it, and each operation does to them what its name says.

The 38 hazards, each at its line with the properties aimed at it, are in
`PROJECT.json`.

## 2. Modules and code

| module | models | state and actions |
|---|---|---|
| `TdSession` | trading session | A call is `Call*` (guards of `tdapi.cpp`), `Check` (the CHECKs of `tdsm.cpp`, a second read of the shared word), `Mark*`, `SendQuery`, `PollHit`/`PollTimeout`; `td_stop` is `Release`, `Reset`. Callbacks are `On*`; storing the last item and storing `sync_status = 2` are two steps (`OnRspQuery`, `FinishQuery`), as in the code |
| `MdSession` | market-data session | The same split; the login callback's loop over `subPool` is one `Resubscribe` per iteration, so a CHECK can fail between two of them |
| `TickQueue` | tick queue | A consumer's steps are cut where it takes or gives up `ticks_mutex`. Every store of `md_start` and `md_stop` that a consumer can see is a step: `Start` (three of them), `StopQuit` (under the mutex), `StopRelease` (the sleep ends), `StopReset` (three), `StopClear`. `control` is where their thread stands; `Collide` is a consumer at the list while `md_stop` frees it |
| `KBarTable` | KBarTable, `bpm_sametradingday`, `bpm_daysofctime` | The table is a record, each C++ call a function of it (`Store`, `AddSub`, `AddTick`, `Finished`, ...) and an action. Prices are integers, an infinite one or NaN, which `Less`, `Larger` and `Smaller` treat as `<`, `std::max` and `std::min` do; volumes may be negative. `DaysOfCtime` is the code's own calendar, in which February 29 and March 1 have one number; `DateOf` is the real one, of `localtime_s`. `Shift` is what the start of a trading day, 18:00 local time, is away from UTC's midnight |
| `TickFifo` | abstract specification | What consumers of ticks are promised: a list per session. `FeedIsFifo` is the refinement by `TickQueue` |
| `DataReceiver` | DataReceiver over `easyctp`'s interface, and its files | Controlling thread: `Start` (with `Loaded`, the files, for one of the `Lists` of contracts), `Launch`, `Subscribe`, `Subscribed`, `Stop`, `Unsubscribe`, and `md_stop` as `StopWake`, `StopSilence`, `StopClear`; collector: `Loop`, `Query`, `OnTick` (with `Save`), `Free`; CTP's thread: `Arrive`; `Restart`. `tape` keeps what the exchange sent |
| `TaskPool` | abstract specification | What a pool promises: accept, refuse, pick, begin, abandon, close, halt, finish |
| `ThreadPool` | ThreadPool and SyncQueue | What a thread does between locking and unlocking or waiting is one step; a worker's look at `m_running` (`Check`) and the task (`Start`) are two. Implements `TaskPool` |
| `ConnServer` | asio server | The callbacks of the one thread in `io_service::run`: `OnAccept`, `OnAcceptError`, `OnHeader`, `OnBody`; peers: `Connect`, `SendHeader`, `SendBody`, `Leave` |
| `Filing` | abstract specification | Messages, folders and one relation between them; `op` names the last call and its objects |
| `MessageFolder` | Message and Folder | The private helpers are functions of both sides' sets (`AddToFolders`, `MoveFolders`, ...), each public operation an action that calls them in the code's order and records its name and objects; implements `Filing`, so that no operation can pass for another or for none |
| `TdSessionProofs`, `MdSessionProofs`, `TickQueueProofs`, `KBarTableProofs`, `ThreadPoolProofs`, `ConnServerProofs`, `MessageFolderProofs`, `DataReceiverProofs` | | theorems |
| `MC*` | | instances for TLC |

`DataReceiver` composes with `easyctp` through the results `MdSession` and
`TickQueue` allow: `md_subscribe` returns OK or not, `md_queryRtnData` returns a
tick, `STATUS_QUIT`, `STATUS_STOPPED` or a timeout, and `md_stop` never returns OK (run
`md_stop`). Putting the modules together as they are would multiply three
state spaces without adding a behaviour to any of them.

**The external CTP front** (`TdSession`, `MdSession`) answers a request with
messages delivered in order after any delay, refuses it, fails to send it, or
loses what is under way when the connection breaks. `Release` waits for a
running callback and silences the rest. Nothing is assumed to arrive.

**The peers of `ConnServer`** send a header with any of the lengths, parts of a
body one at a time, stop anywhere, and leave at any moment, with or without
resetting the connection; a read completes with the bytes it asked for or with
an error. What is on the wire is counted in units: a header is one, each part of
a body one with its frame's number, so that parts of two frames are told apart.
`body_length` is `(n - HEAD_LEN) % Word`, as in `size_t`.

**Images.** `saveTickToFile` writes the memory around a pointer. A record is
therefore any image: it shows some total when read as a tick, or is no valid tick
(-1), which `TickStorage` refuses by a CHECK. `Restart` keeps `disk` and nothing
else; it may come at any moment, after a failed CHECK too.

**Atomicity.** `TdSm::reqID`, `started` and `sync_status` are atomics and each
access is a step or a guard of one. Code under a mutex is one step unless it
waits. `md_start` and `md_stop` store the flags of the tick queue without the
mutex, one step each. `md_stop` also frees and clears the list without it: if a
consumer is at the list or comes to it meanwhile, the behaviour is undefined,
`TickQueue` sets `race` and `DataReceiver` ends with `abort = "race"`, and nothing
is claimed beyond it.

**Time** is abstract: a poll may time out whenever its last look did not find
2, a `wait_for` may expire at any moment or wake for no reason, and the sleep of
`md_stop` may end at any moment, whoever still waits: nothing is assumed of its
three seconds.

**Failed CHECKs** end the process in all modules (`crashed`, `abort`,
`aborted`): no later step is possible. What a CHECK failure takes is itself a
property (`CrashNeedsRelogin`, `AbortHasCause`, `AbortsAreInputs`).

**Callers.** `ctptest` calls `easyctp` from one controlling thread, so the
session runs have one caller. With two, both could pass the BUSY guard before
either stores 1, and one would fail a CHECK; nothing in the code promises
otherwise.

## 3. Runs

Every property of a passing run has a mutant, a plausible slip in the code it
is about, under which TLC finds the property violated with the run's own
configuration.

| run | bounds | what it shows |
|---|---|---|
| `td_session` | 1 caller, up to 2 items per answer, no new query once 6 request ids are used, 2 connections per session | `OkIsComplete`: a query that returns OK hands over its own complete answer, unless a re-login was confirmed in this session. `BusyHasCause`, `CrashNeedsRelogin`: a busy idle session or a failed CHECK has one of two causes. `DeadUntilStop`: after a timeout only `td_stop` succeeds. `CallReturns` |
| `td_reconnect` | same | violation, finding 1 |
| `md_session` | 1 caller, 2 instruments, 2 connections per session | `PoolMatchesFront`: pool and front agree up to refusals and messages under way, over re-logins. `OkMeansSubscribed`, `AbortHasCause`, `CallReturns` |
| `md_relogin`, `md_stop` | same | violations, findings 2 and 3 |
| `tick_queue` | 2 consumers, 3 ticks, 2 sessions | `FeedIsFifo` (refinement of `TickFifo`), `FifoExactlyOnce`, `SessionClean`. `EarlyWaitersQuit`: who waits when `md_stop` begins returns `STATUS_QUIT`, if the sleep lets it. `WakeupOwed`: a consumer sleeps beside a tick only if another one is on its way, another one came out of `wait_for` meanwhile, or `md_start` or `md_stop` was at work during its call |
| `kbar_table` | bar of 2 sub-bars, 2 rows, a minute is a bar and a day two bars, 5 calls from Saturday 2016-02-27 on, prices 1, 2, 0, -1 and NaN, a negative volume | `VolumeConserved`, `BarsAreAggregates`, `ShortBarsEndADay`. `AbortsAreInputs`: a CHECK fails only on a refused item, or on the sub-bar of a tick that should have been refused |
| `data_receiver` | 2 contracts and the index, open interest 0..1, totals 1..2, storage for 2, a save per cached tick, 3 ticks, 1 restart, images that show a total of 2 or nothing valid | `TicksAccounted`: each block has one owner. `VolumesFollowTicks`: a stored volume is what the tick adds to the one the exchange sent before it, stored or not. `CacheIsUnsaved`: with the folder what leaves a vector is on file, once; without it nothing is, and the tick is lost. `TicksLeave` |
| `saved_ticks` | same | violation, finding 4 |
| `conn_server` | 3 connections, 2 ids, header of 4 and body of at most 2, lengths 3, 4, 6 and 7, word of 256, 2 frames | `IdsAccounted`: an id is free, with the acceptor or with one live connection. `FramesInOrder`: what a handler has got are the bodies sent, whole. `LeaversAreReleased` |
| `message_folder` | 3 messages, 2 folders, 2 texts, any number of operations | `Mirror`; `OneRelation` (refinement of `Filing`): each operation does what the one of its name does there, an assignment of an object to itself included |
| `thread_pool` | 2 workers, 4 producers of one task, queue of 2, Stop at any moment | `KeepsPromise` (refinement of `TaskPool`): tasks once, after `m_running` is false at most the one a worker had looked at the flag for, none after Stop has returned. `NoLostWakeup`, `QueuedTasksRun`, `PutsReturn`, `StopReturns` |

**Why the bounds are enough.** Six request ids let a session log in, confirm,
query, time out, receive late items and query again, across one reconnection.
Two items tell a first, a middle-free and a last message apart; two
instruments are what the login callback's loop needs to run twice. Three ticks
and two consumers let one be handed over, one wait and one arrive in the next
session. Five calls fill the table, overflow it and cross both Friday
night-to-Monday and an ordinary day change, and the days are those on which the
code's calendar is off: Monday is February 29, Tuesday March 1. The third tick
finds a storage of two full; a tick saved before the restart, one after it and one
more make the three.
Two ids and three connections exhaust the ids, with the acceptor waiting without
one; lengths 3, 4, 6 and 7 are below a header, an empty body, the longest body and
one more; a second frame follows a whole or a broken first one. Two folders and
three messages let two messages share a folder, swap unequal sets and be copied
over a third. With four producers and two places, two producers sleep while two tasks
are queued, so a `Take` makes room for two and notifies one; the fourth cannot
do more than the third. `CHECK_DEADLOCK FALSE` is set throughout: a process
that died, a joined pool and an application that has used up its bound of calls
do stop.

The bounds (`MaxItems`, `MaxRequests`, `MaxConnects`, `MaxTicks`,
`MaxSessions`, `MaxInputs`, `MaxTasks`, `MaxFrames`, `MaxRestarts`) only guard
actions of the environment;
`StoreCap`, `SaveAt`, `Cap`, `MaxSize`, `MAX_CONN_NUM`, `HEAD_LEN` and
`body_max_length` are parameters of the code.

## 4. Findings

1. **`tdsm.cpp:277`** against the comment at `tdsm.cpp:213` ("the API
   reconnects by itself and the client need not do anything"). The re-login's
   settlement confirmation stores `sync_status = 2` with nobody waiting, and
   every later query answers `STATUS_BUSY` until `td_stop`. (`td_reconnect`)
2. **`mdsm.cpp:61`**: the login callback subscribes again to the whole pool,
   and `MdSm::subscribe` CHECKs `sync_status == 0`, which the loop's first
   iteration has set to 1. The trace has two instruments in the pool: the loop
   gets past the first and dies at the second. (With one instrument, or at the
   first, the CHECK fails if a caller's `md_subscribe` stores 1, line 62, after the
   callback's store of 0, line 174; `ReloginSurvives` leaves this race to
   `AbortHasCause`.) (`md_relogin`)
3. **`mdsm.cpp:46`** against `CHECK(ret ==STATUS_OK)` at
   `ctptest/datareceiver.cpp:65`: `MdSm::stop` erases the word `md_stop` then
   waits for, so it always times out and `DataReceiver::stop` always dies. Were
   it repaired, `stop` would join the collector while holding the mutex that
   `onTick` takes. (`md_stop`)
4. **`ctptest/datareceiver.cpp:307`** against `CHECK(tick->volume>=0)` at line
   108: the file gets `(char*)&v` for a `v` that is a pointer, that is, the
   memory the vector keeps its pointers in. A process started again on that day
   reads it as ticks, and the next tick is compared with a total nobody sent.
   (`saved_ticks`)

More observations are in the models and have no run of their own, since no
line of the repository says otherwise.

- The cache keeps pointers to blocks the collector frees at once, not to the stored
  copies (`datareceiver.cpp:126`, 386).
- `maxOi` is compared with and never assigned, so the main contract is the last one
  with a positive open interest (`datareceiver.cpp:258`; `MainOf`).
- `saveTickToFile` clears the vector whether or not the file could be opened, so
  without its folder ticks are lost (`datareceiver.cpp:303`; the second half of
  `CacheIsUnsaved`).
- A consumer that does not get the mutex within the three seconds of `md_stop`, or
  that called after its notification, waits on, maybe into the next session
  (`mdsm.cpp:41`; why `EarlyWaitersQuit` has `control # "sleep"`). `md_start` can
  lower the flag of a lone consumer that called right after `started` was stored,
  which then sleeps beside a tick until its time runs out (`mdsm.cpp:24`; why
  `WakeupOwed` has `overlapped`).
- `bpm_daysofctime` has no leap day: February 29 and March 1 are one trading day
  and may share a bar, and around New Year and February's end a weekend may be
  merged with the wrong Monday, or not with the right one (`timeutil.cpp:394-405`).
- A tick with a price of 0, infinity or NaN, or with a negative volume, passes
  `isValidTickData`, and the process dies at `kbartable.cpp:59` once its sub-bar is
  complete; a NaN makes `std::max` and `std::min` forget the extremes before it.

The passing runs hold with these faults in place: where a fault could break a
property, the property names the cause it excepts (`"relogin" \in blame`,
`abort`, `Base`, `overlapped`).

## 5. Fairness

| module | assumed | why |
|---|---|---|
| `TdSession`, `MdSession` | WF of each caller's steps inside a call, WF of a callback that has started | threads get to run and `Release` waits for callbacks. Nothing of the front: `CallReturns` holds because the polls are bounded |
| `TickQueue` | SF of each consumer's `Lock`, WF of its `Body` and `AfterWait` | a mutex that is freed again and again is eventually obtained, and who holds it goes on. No consumer has to call, no wait has to expire, and `md_stop` need not do anything, not even end its sleep. One thread calls `md_start` and `md_stop` |
| `KBarTable` | none | sequential, safety only |
| `DataReceiver` | WF of both threads | ticks arrive, users call and the process restarts at will |
| `ConnServer` | WF of each connection's callbacks | `io_service::run` runs what is ready. Nothing of the peers: one that neither sends nor leaves keeps its id, and `LeaversAreReleased` speaks of those that left |
| `MessageFolder` | none | sequential, safety only |
| `ThreadPool` | WF of each producer's `Put`, each worker's steps, and of Stop once begun | every mutex section is short and ends; tasks terminate. A condition-variable wait is never assumed to end by itself |

## 6. Proofs

Each theorem holds for every value of the constants under the named ASSUMEs.

**TdSessionProofs** (`TdAssumption`; all but `TypeCorrect` also assume
`OneCaller`, that one thread uses the API). `TypeCorrect`,
`AnswersAreComplete`, `BusyIsExplained`, `CrashesAreExplained` and
`TimeoutsAreFatal`. `OkIsComplete` speaks of a call that has returned, so it is
far from inductive; the invariant is built in two layers. `Life` holds
whatever happens: `Session` and `LifeOf` say how `started`, `tdApi` and
`sync_status` follow the steps of the call, and that after a timeout
`sync_status` stays nonzero while the session lasts, so nothing passes the guard
of a query (`TimeoutsAreFatal` needs no more). `Good` adds, as long as no login
was confirmed that nobody waited for, that no message of a query is under way
unless its call polls (`Quiet`), and that then the answer is in one of
four states (`Answer`): lost, finished, stored but not yet announced, or its
last `n` messages are on the wire in one piece and the list holds the rest
(`Rest`, `Underway`). The work is in following that piece: it moves up when a
message that is not a query's leaves (`RestShifts`), and it shrinks by one when
an item is stored (`QueryGood`). `td_start` needs only `Life` to establish
`Good`: a released API has emptied the wire (`MarkGood`). That is why
`td_stop` is what ends the damage.

**MdSessionProofs** (`MdAssumption`; the last two also assume `OneCaller`).
`TypeCorrect`, `PoolAgrees`, `AbortsAreCaused` and `OksAreSubscribed`. For the
pool (`PoolMatchesFront`, any number of callers) the invariant `Agree` follows
what the front does about one instrument (`FrontOf`): while it feeds the
instrument, a subscription follows every unsubscription under way, and the
other way round while it does not (`Reversed`), so the last word under way is
what the pool comes to say. The callback that finds and erases an instrument of
`subPool` needs it to be there once (`Distinct`). With one caller, as long as
neither a timeout nor a re-login is to blame, `Good` says that at most one answer
is under way and is to the caller's request (`Mine`), and that `sync_status` is 0
between calls and 2 only when that request was taken, unless `md_start` gave up on
its login (`Word`). Then a CHECK that fails has a cause, and `STATUS_OK` of
`md_subscribe` means that the instrument is in the pool.

**TickQueueProofs** (`TickAssumption`). `TypeCorrect`, `SessionsAreClean`,
`TicksAreFifo`, `QueueIsFifo` and `NoTickIsSleptOver`. The invariant `IInv` adds to
the types `Phases`: where `md_start` and `md_stop` stand; outside a session the list
is empty, inside it all ticks are of that session. `SessionClean` is not inductive
alone: it needs to know that the list was cleared before the next `Start`.
`TicksAreFifo` views the ticks handed over and those queued as one sequence, which
only an arrival appends to and only `StopClear` cuts. `QueueIsFifo` follows step by
step: an arrival, a consumer's take, and `md_stop`'s steps are steps of `TickFifo`,
everything else a stutter; that a `Start` finds the list empty is `Phases`.
For `NoTickIsSleptOver` the strengthening is `Owed`: sleepers that have no excuse
imply that `need_notify` is up, and while it is up over a nonempty list another
consumer is on its way. `wait_for` starts over an empty list and raises the flag, an
arrival with the flag up sends a sleeper on its way, and whoever stops being on its
way has lowered the flag, which is the sleepers' excuse (`outrun`).

**KBarTableProofs** (`PeriodAssumption`, `InputAssumption`, `NaNAssumption`,
`DayAssumption`). `TypeCorrect`, `VolumeIsConserved`, `OnlyInputsAbort`,
`ShortBarsDoEndADay`, `EveryBarIsAnAggregate`, `BarsAreAggregatesOfADay`. Prices are
any integers, infinity or NaN and volumes any integers; trading days are those of the
code's calendar. Calls are functions of the table,
so each has a lemma that says what it does to a well-formed table
(`StoreTable`, `AccumulateTable`, `CrossDayTable`, `AddSubTable`, ...). That the
CHECKs at lines 76, 113 and 123 cannot fail comes from the type invariant
(a counted sub-bar implies a started and valid bar; the count stays below a full
bar); what is left for `OnlyInputsAbort` are the CHECKs of entries and the one of a
completed sub-bar, which fails only if one of its ticks is `Spoiled`. The
path of `Period = SubPeriod` is in the proofs although the run has
`Period = 2 * SubPeriod`. For short bars the invariant `Counted` says that the bar
under construction has as many parts as sub-bars were counted. The code compares
trading days before it cuts the new bar's time to the minute, the property after:
that a cut time stays in its day (`CutInDay`) needs a day to be whole minutes
(`DayAssumption`).

`BarsAreAggregates` needs induction over the pieces of a bar. The library's
induction theorems take an operator, but `WFMin` on the order of the numbers does
not, and from it follows that a set with 0 that is closed under + 1 has every number
(`Induction`); a statement about all n is then about the set of n it holds for. The
fold of `VolumeOfParts` is a recursive function on sets of indices: it
exists for every sequence (`SumExists`), and one more piece adds its volume
(`SumSteps`). The invariant `AllSound` says of each row and of the bars under
construction that they are the aggregate of their pieces and share a trading day
with them. `EveryBarIsAnAggregate`, the first half, holds for all periods.
The day is that of all pieces only if no sub-period reaches over the start of a day;
`BarsAreAggregatesOfADay` has this as its hypothesis `SubPeriodInDay`. The
constructor does not ensure it: the CHECK of `kbartable.cpp:10` lets a sub-bar of 7
seconds pass, or of a whole day, whose ticks are cut to UTC's midnight. The hypothesis
is needed: TLC finds a bar that mixes two days with `SubPeriod = 3`, `Period = 6` and
a day of 8.

**ThreadPoolProofs** (`PoolAssumption`). `TypeCorrect`, `NoWakeupIsLost` and
`PoolKeepsPromise`, the refinement of `TaskPool`. `Phases` ties the two flags to
the steps of Stop and says that only a worker running a list holds one.
`NoLostWakeup` is inductive with it: a `Put` wakes a sleeping worker or finds
one awake, and a `Take` that empties the queue wakes a producer that will put.
It needs a worker: `PoolAssumption` takes `hardware_concurrency()` not to be 0.
For the refinement, a task is in one place only (`Once`) and what waits was
submitted (`Accepted`); then `Take`, the wake-ups, and a `Put` that waits are
stutters, `Check` is `Pick` or `Abandon`, `Start` is `Begin`, `Put` is `Accept` or
`Refuse`. That Stop's last step is `Finish` needs every worker to have ended, and an
ended one to hold nothing.

**ConnServerProofs** (`ServerAssumption`). `TypeCorrect`, `IdsAreAccounted` and
`FramesComeInOrder`.
The types bound `body_length` while a body is read: whatever length a header
announces, below `HEAD_LEN` included, the handler either gives up or reads what
fits into `Message::data`; this needs that subtracting `HEAD_LEN` from a short
length wraps past `body_max_length`, which `ServerAssumption` states of the word.
The invariant adds that the free ids are distinct, that none of
them nor the acceptor's is in the map (`Apart`), that a connection is in the map
exactly under its own id while it is live (`OneEntry`), and that no id is
elsewhere (`NoneLost`). `HandleError` is where all of them meet. For the frames
the invariant `Flow` says that there is a place for each header (`at`), counted
from the first unit not yet read, such that the frames the peer began lie one
after the other (`Laid`), the handler is at the next header or right behind the
last one (`Reads`), and the peer is short of the end of its last frame by what it
owes (`Ends`). A read moves every place by what it took (`TakeUnits`). That a
header that passes the check announced a length in range (`LengthDecoded`) is what
keeps the handler at the start of frames.

**MessageFolderProofs** (`FilingAssumption`). `SidesMirror` and
`FoldersAreFiling`. In the middle of an operation the sides do not mirror each
other, so each helper has a lemma that says what it does to a pair of arbitrary
sets, and each operation one that composes them, with both arguments the same
object as a case of its own. The refinement maps the relation to the messages'
sides and the history `op` to itself: each call has to be the step of `Filing` with
its own name and objects, and the alternation of `op.odd` makes a call that changes
nothing such a step too. A copy assignment of an object to itself empties it
(`message.cpp:10`), and `Filing` says so.

**DataReceiverProofs** (`ReceiverAssumption`). `TypeCorrect`, `TicksAreAccounted`,
`VolumesFollow` and `CacheHoldsTheUnsaved`, for any sizes of storage and cache
and any number of ticks and restarts. None of the four is inductive alone. Along
the way of a tick, stored, in the collector's hand, queued, the numbers of
blocks grow (`Ordered`, `Pipeline`), so what leaves the queue cannot be stored twice
nor freed twice; contracts that ticks come from are in `subscribePool`, whose files
were read (`Storages`). `Blocks` adds to the first property that a tick about
to be freed has been stored unless `stop` began, which the flag `quit`
says exactly (`Phases`); so leaving the hand loses nothing. `Follows` says more than
that the index has a prefix of the main contract's ticks: while its own storage has
room it has all of them, and it never has room again after it was full. A
symbol without a vector has nothing cached (`Unsaved`); therefore `stop`, which saves the vectors
there are, leaves nothing unsaved. When the process begins again, the records
counted as found are those on file (`Phases`), and the same facts hold of the empty
state. For `VolumesFollow` every tick on its way has the contract and total `tape` has
under its number (`Pipeline`); and since until `stop` the ticks stored, in the hand and
queued are all that came (`Blocks`), in order, the last one stored of a contract is
the last one the exchange sent before the tick in the hand, which is what `VolumeOf`
subtracts.

**Only model-checked**: liveness (`CallReturns` of both sessions, `EarlyWaitersQuit`,
`TicksLeave`, `QueuedTasksRun`, `PutsReturn`, `StopReturns`, `LeaversAreReleased`),
since liveness under fairness and ENABLED are out of the prover's reach. Every
safety property of a passing run is stated by a theorem, `BarsAreAggregates` under
`SubPeriodInDay`. No module uses a RECURSIVE operator.

## 7. Not modelled

- Setters of names and paths, `td_getTradingDay`, `md_getTradingDay`, empty
  callbacks, `TdSm::queryAccount` (no API call reaches it), `flowControl`'s
  pacing (any delay is allowed anyway).
- The width of `KBarTable`'s volumes (an `int` sum that overflows is idealised as the
  sum), ticks without a symbol, the open interest (overwritten wherever the close is), the copies of
  new bars handed back, read-only accessors, parsing in `KBarConvert`.
- A file cut off in the middle of a record; `TickStorage`'s daily prices; the
  index's price. `getLastestTick` reads only.
- The server's `HandleWrite`, which nothing calls, and what `HandleRead` prints of
  a body (`rwhandler.h:58` prints the array `m_buff`, which is never written). The
  client (`connector.h`): its program never runs its io_service, so no callback
  of it is ever called.
- `KBarStorage`, `SimpleSyncQueue`: used by nothing. Array mathematics: floating
  point.
- A task that calls its own pool: it can block every worker on the full queue.
- The `evpp` codec: framing by length over a library that is not in the
  repository; its one hazard, a length out of range, is that of `ConnServer`.
- `utils`, `qtbinpatcher`, exercises and demos: I/O, formatting, imported tools,
  programs without state. Boost, the CTP SDK, folly, imgui, lightev are
  vendored.

## 8. Plan

In order of importance to the system. All of it is done; what is left out is in 7.

1. `TdSession`: the protocol of `sync_status`, and its proofs.
2. `MdSession`: the same word, with requests from callbacks, and its proofs.
3. `TickQueue` and its proofs.
4. `KBarTable` and its proofs.
5. `DataReceiver` over the interface of 1-3, with its files and a restart, and its
   proofs.
6. `ThreadPool` implementing `TaskPool`, and its proofs.
7. `ConnServer` and its proofs.
8. `MessageFolder` implementing `Filing`, and its proofs.
9. `TickFifo`, the tick queue as its consumers see it, implemented by `TickQueue`.

## 9. How to run

    tlc -workers 2 -config MCTdSession.cfg MCTdSession.tla
    tlapm TickQueueProofs.tla

The configurations named `MCTdReconnect`, `MCMdRelogin`, `MCMdStop` and
`MCSavedTicks` are the findings: TLC prints the behaviour.
The `Bug*` definitions in the modules are the mutants; nothing else uses them.
