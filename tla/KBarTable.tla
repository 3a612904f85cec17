----------------------------- MODULE KBarTable -----------------------------
(***************************************************************************)
(* KBarTable (kbarutils/kbartable.cpp): ticks are folded into sub-bars of  *)
(* SubPeriod, sub-bars into bars of Period, and finished bars go to a      *)
(* table of at most Cap rows.  A bar also ends early where the trading day *)
(* changes (bpm_sametradingday, utils/timeutil.cpp) and in finish().       *)
(*                                                                         *)
(* Data kept: times, the four prices and the volume.  Of the fields that   *)
(* are only checked, the open interest foremost, a bar or tick keeps       *)
(* whether they pass (sane).  The copy of a new bar that the calls hand    *)
(* back is left out, and every input has a symbol.  A failed CHECK ends    *)
(* the process (aborted).  Every bar carries a ghost field, parts: the     *)
(* sub-bars (of a sub-bar: the ticks) that were folded into it.            *)
(***************************************************************************)
EXTENDS Integers, Sequences, SequencesExt

CONSTANTS Period, SubPeriod,  \* seconds per bar and per sub-bar
          Cap,                \* rows of the table
          Minute, DayLength,  \* a minute and a day in the model's seconds
          Shift,              \* from the start of a trading day to UTC's midnight
          NaN, Infinity,      \* prices that are no numbers, and infinite ones
          Ticks,              \* what the ticks hold
          SubBars,            \* what the bars a caller appends itself hold
          StartTime, Steps,   \* first time; how far time moves per call
          MaxInputs           \* bound: calls

ASSUME PeriodAssumption ==
  /\ Period \in Nat \ {0} /\ SubPeriod \in Nat \ {0} /\ Period % SubPeriod = 0
  /\ Cap \in Nat \ {0} /\ Minute \in Nat \ {0} /\ DayLength \in Nat \ {0}
(* A day is whole minutes, and begins at one.                              *)
ASSUME DayAssumption == Shift \in Nat /\ DayLength % Minute = 0 /\ Shift % Minute = 0
(* A price is a double, 0 standing for the subnormal ones too; a volume is *)
(* an int.  Neither is in any range but for what the code checks.          *)
ASSUME NaNAssumption == NaN \notin Int /\ Infinity \in Nat \ {0}
Price == Int \union {NaN}
ASSUME InputAssumption ==
  /\ Ticks \subseteq [price : Price, vol : Int, sane : BOOLEAN]
  /\ SubBars \subseteq [open : Price, high : Price, low : Price, close : Price,
                        vol : Int, sane : BOOLEAN]
  /\ StartTime \in Nat /\ StartTime >= SubPeriod
  /\ Steps \subseteq Nat /\ MaxInputs \in Nat

VARIABLES
  tab,      \* the columns (rows), latestKBar_, countOfSubKBar_, latestSubKBar_
  now,      \* time of the last input
  aborted,  \* a CHECK failed
  inputs,   \* number of calls so far
  fed,      \* history: volume passed in
  refused   \* history: the last call's own item fails the check on its entry

vars == <<tab, now, aborted, inputs, fed, refused>>

SubsPerBar == Period \div SubPeriod

(* A bar that memset has cleared.  "set" stands for symbol[0] != 0.        *)
NoBar == [set |-> FALSE, time |-> 0, open |-> 0, high |-> 0, low |-> 0,
          close |-> 0, vol |-> 0, sane |-> TRUE, parts |-> <<>>]

-----------------------------------------------------------------------------
(* The calendar of localtime_s: what day n since 1970-01-01, a Thursday,   *)
(* is called.  Starts has the days before each month of a common year.     *)
Leap(y) == y % 400 = 0 \/ (y % 4 = 0 /\ y % 100 # 0)
Starts == <<0, 31, 59, 90, 120, 151, 181, 212, 243, 273, 304, 334>>
YearDay(y) ==
  365 * (y - 1970) + (y - 1) \div 4 - (y - 1) \div 100 + (y - 1) \div 400 - 477
DateOf(n) ==
  LET y == CHOOSE z \in 1970 + n \div 366 .. 1970 + n \div 365 :
             YearDay(z) <= n /\ n < YearDay(z + 1)
      d == n - YearDay(y)
      first(m) == Starts[m] + (IF Leap(y) /\ m > 2 THEN 1 ELSE 0)
      m == CHOOSE k \in 1..12 : first(k) <= d /\ (k = 12 \/ d < first(k + 1))
  IN  [year |-> y, month |-> m, day |-> d - first(m) + 1]
WeekDay(n) == (n + 4) % 7

(* bpm_daysofctime: the months are those of a common year, and whether any *)
(* year since 1900 has 366 days is decided by y itself.  So February 29    *)
(* and March 1 have one number, and numbers jump at New Year.              *)
DaysOfCtime(date) ==
  (date.year - 1900) * (IF Leap(date.year) THEN 366 ELSE 365)
    + Starts[date.month] + date.day - 1

(* bpm_sametradingday: the trading day begins at 18:00 local time; a       *)
(* Saturday's (Friday night's) time also belongs to the day of a Monday    *)
(* whose number is two away.                                               *)
SameTradingDay(t1, t2) ==
  LET n1 == (t1 + Shift) \div DayLength
      n2 == (t2 + Shift) \div DayLength
      d1 == DaysOfCtime(DateOf(n1))
      d2 == DaysOfCtime(DateOf(n2))
  IN  d1 = d2 \/ (WeekDay(n1) = 6 /\ WeekDay(n2) = 1 /\ d2 - d1 \in {2, -2})

-----------------------------------------------------------------------------
(* The order of doubles: a NaN is less than nothing, and nothing less than *)
(* it.  std::max and std::min return their first argument unless the       *)
(* comparison says otherwise.                                              *)
Less(a, b) == a # NaN /\ b # NaN /\ a < b
Larger(a, b) == IF Less(a, b) THEN b ELSE a
Smaller(a, b) == IF Less(b, a) THEN b ELSE a

(* std::isnormal, of what is not negative.                                 *)
IsNormal(p) == p # NaN /\ 0 < p /\ p < Infinity

IsValidKBarData(b) ==
  /\ IsNormal(b.open) /\ IsNormal(b.high) /\ IsNormal(b.low) /\ IsNormal(b.close)
  /\ b.vol >= 0 /\ b.sane

(* isValidTickData: a price of 0, a NaN and an infinite price pass, and    *)
(* the tick's own volume is not looked at.                                 *)
IsValidTickData(k) == ~Less(k.price, 0) /\ k.sane

(* A fact about one fed item, for the ghost field.                         *)
Part(b) == [time |-> b.time, open |-> b.open, high |-> b.high, low |-> b.low,
            close |-> b.close, vol |-> b.vol]

(* What the code does to the bar being built: the bar a first sub-bar      *)
(* opens, its time cut to the minute, and the fold of one more into it.    *)
(* The order of max's and min's arguments is appendTick's; appendSubKBar's *)
(* is the other one, but no NaN gets there.                                *)
Opened(b) == [b EXCEPT !.time = (@ \div Minute) * Minute, !.parts = <<Part(b)>>]
Merged(k, b) == [k EXCEPT !.high = Larger(b.high, @), !.low = Smaller(b.low, @),
                          !.close = b.close, !.vol = @ + b.vol, !.sane = b.sane,
                          !.parts = Append(@, Part(b))]

-----------------------------------------------------------------------------
(* The calls as functions of the table.  "dropped" counts the volume of    *)
(* bars refused by a full table, "stored" that of the rows, "ok" is        *)
(* cleared when a CHECK fails.                                             *)

Fails(t) == [t EXCEPT !.ok = FALSE]

(* mutant: appendKBar leaves the count of sub-bars alone.                  *)
BugStoreKeepsCount(t, b) ==
  IF ~b.set THEN Fails(t)
  ELSE IF Len(t.rows) >= Cap THEN [t EXCEPT !.dropped = @ + b.vol]
  ELSE IF ~IsValidKBarData(b) THEN Fails(t)
  ELSE [t EXCEPT !.rows = Append(@, b), !.stored = @ + b.vol, !.latest = b]

(* appendKBar: the CHECK on the prices comes after the return on overflow. *)
Store(t, b) ==
  IF ~b.set THEN Fails(t)
  ELSE IF Len(t.rows) >= Cap THEN [t EXCEPT !.dropped = @ + b.vol]
  ELSE IF ~IsValidKBarData(b) THEN Fails(t)
  ELSE [t EXCEPT !.rows = Append(@, b), !.stored = @ + b.vol,
                 !.latest = b, !.count = 0]

(* mutant: the new day's bar begins with the high of the last one.         *)
BugCrossDayHigh(t, b) ==
  LET closed == IF t.count > 0 THEN Store(t, t.latest) ELSE t
  IN  [closed EXCEPT !.latest = [Opened(b) EXCEPT !.high = Larger(t.latest.high, @)],
                     !.count = 1]

(* The sub-bar b of another trading day: a started bar is complete as it   *)
(* stands, and b opens a new one.                                          *)
CrossDay(t, b) ==
  LET closed == IF t.count > 0 THEN Store(t, t.latest) ELSE t
  IN  [closed EXCEPT !.latest = Opened(b), !.count = 1]

(* mutants: a bar is complete one sub-bar early; the count is reset only   *)
(* by appendKBar, which a full table leaves before it gets there.          *)
BugAccumulateEarly(t, b) ==
  LET k == IF t.count = 0 THEN Opened(b) ELSE Merged(t.latest, b)
      u == [t EXCEPT !.latest = k, !.count = @ + 1]
  IN  IF t.count > 0 /\ ~t.latest.set THEN Fails(t)
      ELSE IF u.count >= SubsPerBar - 1 THEN [Store(u, k) EXCEPT !.count = 0]
      ELSE u
BugAccumulateNoReset(t, b) ==
  LET k == IF t.count = 0 THEN Opened(b) ELSE Merged(t.latest, b)
      u == [t EXCEPT !.latest = k, !.count = @ + 1]
  IN  IF t.count > 0 /\ ~t.latest.set THEN Fails(t)
      ELSE IF u.count = SubsPerBar THEN Store(u, k)
      ELSE u

(* The sub-bar b opens the next bar of the day or goes into the started    *)
(* one; the last of them completes the bar, stored or not.                 *)
Accumulate(t, b) ==
  LET k == IF t.count = 0 THEN Opened(b) ELSE Merged(t.latest, b)
      u == [t EXCEPT !.latest = k, !.count = @ + 1]
  IN  IF t.count > 0 /\ ~t.latest.set THEN Fails(t)
      ELSE IF u.count = SubsPerBar THEN [Store(u, k) EXCEPT !.count = 0]
      ELSE u

(* appendSubKBar.                                                          *)
AddSub(t, b) ==
  IF ~(b.set /\ IsValidKBarData(b)) THEN Fails(t)
  ELSE IF SubPeriod = Period THEN Store(t, b)
  ELSE IF ~SameTradingDay(t.latest.time, b.time) THEN CrossDay(t, b)
  ELSE Accumulate(t, b)

-----------------------------------------------------------------------------
Init ==
  /\ tab = [rows |-> <<>>, latest |-> NoBar, count |-> 0, sub |-> NoBar,
            stored |-> 0, dropped |-> 0, discarded |-> 0, ok |-> TRUE]
  /\ now = StartTime /\ aborted = FALSE /\ inputs = 0 /\ fed = 0 /\ refused = FALSE

(* A call that the running process makes at time t; table is what it makes *)
(* of tab.                                                                 *)
Call(table, t) ==
  /\ ~aborted /\ inputs < MaxInputs
  /\ tab' = table /\ aborted' = ~table.ok
  /\ now' = t /\ inputs' = inputs + 1

(* history: a volume is passed in with an item that is valid or not.       *)
Fed(vol, valid) == fed' = fed + vol /\ refused' = ~valid

(* A bar a caller hands in, with what s holds, at time t.                  *)
InputBar(s, t) == [set |-> TRUE, time |-> t, open |-> s.open, high |-> s.high,
                   low |-> s.low, close |-> s.close, vol |-> s.vol,
                   sane |-> s.sane, parts |-> <<>>]

(* mutant: the calls do not look whether a sub-bar is open.               *)
BugFlush(t) == AddSub(t, t.sub)

(* The start of the next sub-bar and finish() complete an open sub-bar.    *)
Flush(t) == IF t.sub.set THEN AddSub(t, t.sub) ELSE t

(* appendTick: a tick of the current sub-bar goes into it; a tick of       *)
(* another one completes it and starts a new one.  newSubBar compares the  *)
(* quotients of the times.                                                 *)
TickBar(k, t) == [set |-> TRUE, time |-> t, open |-> k.price, high |-> k.price,
                  low |-> k.price, close |-> k.price, vol |-> k.vol,
                  sane |-> k.sane, parts |-> <<>>]
AddTick(t, tick) ==
  LET start == [tick EXCEPT !.time = (@ \div SubPeriod) * SubPeriod,
                            !.parts = <<Part(tick)>>]
  IN  IF tick.time \div SubPeriod = t.sub.time \div SubPeriod
      THEN [t EXCEPT !.sub = Merged(@, tick)]
      ELSE [Flush(t) EXCEPT !.sub = start]

AppendTick ==
  \E k \in Ticks, d \in Steps :
    /\ Call(IF IsValidTickData(k) THEN AddTick(tab, TickBar(k, now + d)) ELSE Fails(tab),
            now + d)
    /\ Fed(k.vol, IsValidTickData(k))

AppendSubKBar ==
  \E s \in SubBars, d \in Steps :
    LET b == InputBar(s, now + d)
    IN  Call(AddSub(tab, b), now + d) /\ Fed(s.vol, IsValidKBarData(b))

(* appendKBar called directly: a bar that was being built is overwritten,  *)
(* and "discarded" counts its volume.                                      *)
Direct(t, b) ==
  LET u == Store(t, b)
      lost == IF t.count > 0 /\ u.count = 0 THEN t.latest.vol ELSE 0
  IN  [u EXCEPT !.discarded = @ + lost]

AppendKBar ==
  \E s \in SubBars, d \in Steps :
    LET b == InputBar(s, now + d)
    IN  Call(Direct(tab, b), now + d) /\ Fed(s.vol, IsValidKBarData(b))

(* finish: the open sub-bar, then the open bar, are complete as they are.  *)
Finished(t) ==
  LET u == [Flush(t) EXCEPT !.sub = NoBar]
      v == IF u.ok /\ u.latest.set /\ u.count # 0 THEN Store(u, u.latest) ELSE u
  IN  [v EXCEPT !.latest = NoBar, !.count = 0]

Finish == Call(Finished(tab), now) /\ Fed(0, TRUE)

Next == AppendTick \/ AppendSubKBar \/ AppendKBar \/ Finish

Spec == Init /\ [][Next]_vars

-----------------------------------------------------------------------------
PartType == [time : Nat, open : Price, high : Price, low : Price, close : Price, vol : Int]
BarType == [set : BOOLEAN, time : Nat, open : Price, high : Price, low : Price,
            close : Price, vol : Int, sane : BOOLEAN, parts : Seq(PartType)]
TableType == [rows : Seq(BarType), latest : BarType, count : Nat, sub : BarType,
              stored : Int, dropped : Int, discarded : Int, ok : BOOLEAN]

(* The shape of the state, and what the CHECKs of lines 40, 76, 113 and    *)
(* 123 rely on: while sub-bars are counted the bar under construction is   *)
(* set and valid, and the count never reaches a full bar between two calls. *)
TypeOK ==
  /\ tab \in TableType
  /\ tab.count < SubsPerBar /\ Len(tab.rows) <= Cap
  /\ tab.count > 0 => tab.latest.set /\ IsValidKBarData(tab.latest)
  /\ now \in Nat /\ aborted \in BOOLEAN /\ inputs \in Nat /\ fed \in Int
  /\ refused \in BOOLEAN

(* No volume appears, vanishes or is counted twice: what was passed in is  *)
(* in the rows, in the bar and the sub-bar under construction, or was      *)
(* refused by a full table or overwritten by a direct appendKBar.  This    *)
(* is about the resets and additions all over kbartable.cpp.               *)
VolumeConserved ==
  ~aborted => fed = tab.stored + tab.dropped + tab.discarded + tab.sub.vol
                    + (IF tab.count > 0 THEN tab.latest.vol ELSE 0)

VolumeOfParts(p) == FoldLeft(LAMBDA v, q : v + q.vol, 0, p)

(* The bar b is what its parts, folded from scratch, come to: first open,  *)
(* last close, summed volume and extreme prices, these unless a part has a *)
(* NaN, which makes max and min forget what came before it.                *)
IsAggregate(b) ==
  LET p == b.parts
      I == DOMAIN p
  IN p = <<>> \/
     /\ b.open = p[1].open /\ b.close = p[Len(p)].close
     /\ b.vol = VolumeOfParts(p)
     /\ \/ \E i \in I : NaN \in {p[i].high, p[i].low}
        \/ /\ b.high \in {p[i].high : i \in I} /\ \A i \in I : b.high >= p[i].high
           /\ b.low \in {p[i].low : i \in I} /\ \A i \in I : b.low <= p[i].low

(* Every row and every bar under construction is the aggregate of the      *)
(* pieces that went into it, and these share its trading day as            *)
(* bpm_sametradingday has it (with February 29 and March 1 as one day):    *)
(* nothing of an earlier bar survives in a bar opened after it.  The day   *)
(* is that of all pieces only if no sub-period reaches across the start of *)
(* one; the CHECK of line 10 lets some do (7 seconds, or 86400 with        *)
(* ticks).                                                                 *)
BarsAreAggregates ==
  \A b \in ToSet(tab.rows) \union {tab.latest, tab.sub} :
    /\ IsAggregate(b)
    /\ \A i \in DOMAIN b.parts : SameTradingDay(b.time, b.parts[i].time)

(* A bar is stored with all its sub-bars.  With fewer it is stored only    *)
(* because a sub-bar of another trading day (bpm_sametradingday's again)   *)
(* opened the next bar, or by finish(), which leaves no bar under          *)
(* construction.                                                           *)
ShortBarsEndADay ==
  [][\A i \in Len(tab.rows) + 1 .. Len(tab'.rows) :
       LET n == Len(tab'.rows[i].parts)
       IN  (SubPeriod < Period /\ n > 0) =>
             \/ n = SubsPerBar
             \/ tab'.latest = NoBar
             \/ /\ tab'.count = 1
                /\ ~SameTradingDay(tab'.rows[i].time, tab'.latest.time)]_vars

(* A tick went into the sub-bar b that appendTick let pass and that a bar  *)
(* must not contain: a price of 0, infinity or NaN, a negative volume.     *)
Spoiled(b) == \E i \in DOMAIN b.parts : ~IsNormal(b.parts[i].close) \/ b.parts[i].vol < 0

(* The process dies in a CHECK only in a call whose own item the check on  *)
(* entry refuses, or, later, when the sub-bar is completed (line 59) into  *)
(* which a tick went that isValidTickData should not have let pass.  The   *)
(* CHECKs on bars put together from valid pieces (lines 40, 76, 113, 123)  *)
(* never fail.                                                             *)
AbortsAreInputs ==
  [][aborted' => refused' \/ (tab.sub.set /\ Spoiled(tab.sub) /\ tab'.sub # tab.sub)]_vars
=============================================================================
