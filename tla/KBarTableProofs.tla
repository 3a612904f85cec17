-------------------------- MODULE KBarTableProofs --------------------------
(***************************************************************************)
(* Proofs about KBarTable for every period, capacity and input.  The calls *)
(* are functions of the table, so each of them has a lemma that says what  *)
(* it does to a well-formed table; the steps of Next follow from these.    *)
(***************************************************************************)
EXTENDS KBarTable, WellFoundedInduction, TLAPS

(* The volume that the table t accounts for.                               *)
Pending(t) == IF t.count > 0 THEN t.latest.vol ELSE 0
VolumeOf(t) == t.stored + t.dropped + t.discarded + t.sub.vol + Pending(t)

(* A table as the calls leave it: the bar under construction, which may    *)
(* yet be handed to a CHECK, passes it.                                    *)
WellFormed(t) ==
  /\ t \in TableType
  /\ t.count < SubsPerBar /\ Len(t.rows) <= Cap
  /\ t.count > 0 => t.latest.set
  /\ t.latest.set => IsValidKBarData(t.latest)

(* The open sub-bar is a cleared one, or valid unless its ticks spoil it.  *)
SubFit(b) == /\ ~b.set => b = NoBar
             /\ b.set => Spoiled(b) \/ IsValidKBarData(b)

(* u is a table t that has taken in one more bar of volume v.              *)
TakesIn(t, u, v) ==
  /\ WellFormed(u) /\ u.sub = t.sub
  /\ u.ok => t.ok /\ VolumeOf(u) = VolumeOf(t) + v

-----------------------------------------------------------------------------
(* Arithmetic: one bar holds one sub-bar or several, as the constructor's  *)
(* CHECK (line 9) makes the periods commensurable.                         *)
LEMMA SubsPerBarFacts ==
  /\ SubsPerBar \in Nat /\ SubsPerBar > 0
  /\ SubPeriod = Period => SubsPerBar = 1
  /\ SubPeriod # Period => SubsPerBar > 1
  BY PeriodAssumption, Z3 DEF SubsPerBar

(* Cutting a time to a multiple of m leaves a time.                        *)
LEMMA CutTime ==
  ASSUME NEW x \in Nat, NEW m \in Nat \ {0}
  PROVE  (x \div m) * m \in Nat
<1>1. x \div m \in Nat
  BY Z3
<1> QED
  BY <1>1, Z3

(* A time not before the first period is in another period than time 0.    *)
LEMMA NotPeriodZero ==
  ASSUME NEW x \in Nat, NEW m \in Nat \ {0}, x >= m
  PROVE  x \div m # 0 \div m
  BY Z3

(* What a time is a multiple of and a rest of, it is divided by.           *)
LEMMA Quotient ==
  ASSUME NEW y \in Nat, NEW c \in Nat, NEW e \in Nat, NEW d \in Nat, e < d, y = d * c + e
  PROVE  y \div d = c
  BY Z3

(* Cutting it again changes nothing.                                       *)
LEMMA CutTwice ==
  ASSUME NEW x \in Nat, NEW m \in Nat \ {0}
  PROVE  ((x \div m) * m) \div m = x \div m
<1>1. x \div m \in Nat /\ (x \div m) * m \in Nat
  BY CutTime, Z3
<1> DEFINE c == x \div m
           y == c * m
<1>2. c \in Nat /\ y \in Nat /\ y = m * c + 0
  BY <1>1, Z3
<1> HIDE DEF c, y
<1>3. y \div m = c
  BY <1>2, Quotient
<1> QED
  BY <1>3 DEF y, c

(* The bar a sub-bar opens is a bar, set as the sub-bar is, with its       *)
(* prices and volume.                                                      *)
LEMMA OpenedBar ==
  ASSUME NEW b \in BarType
  PROVE  /\ Opened(b) \in BarType
         /\ Opened(b).set = b.set /\ Opened(b).vol = b.vol
         /\ IsValidKBarData(b) => IsValidKBarData(Opened(b))
<1>1. (b.time \div Minute) * Minute \in Nat
  BY CutTime, PeriodAssumption DEF BarType
<1>2. <<Part(b)>> \in Seq(PartType)
  BY DEF Part, PartType, BarType
<1> QED
  BY <1>1, <1>2 DEF Opened, BarType, IsValidKBarData

(* Folding a sub-bar into a bar gives a bar with the volume of both.       *)
LEMMA MergedBar ==
  ASSUME NEW k \in BarType, NEW b \in BarType
  PROVE  /\ Merged(k, b) \in BarType
         /\ Merged(k, b).set = k.set /\ Merged(k, b).vol = k.vol + b.vol
         /\ IsValidKBarData(k) /\ IsValidKBarData(b) => IsValidKBarData(Merged(k, b))
<1>1. Append(k.parts, Part(b)) \in Seq(PartType)
  BY DEF Part, PartType, BarType
<1>2. /\ Larger(b.high, k.high) \in {k.high, b.high}
      /\ Smaller(b.low, k.low) \in {k.low, b.low}
  BY DEF Larger, Smaller
<1>3. /\ k.high \in Price /\ b.high \in Price /\ k.low \in Price /\ b.low \in Price
      /\ b.close \in Price /\ k.vol \in Int /\ b.vol \in Int
  BY DEF BarType
<1>4. /\ Larger(b.high, k.high) \in Price /\ Smaller(b.low, k.low) \in Price
      /\ k.vol + b.vol \in Int
  BY <1>2, <1>3
<1>5. Merged(k, b) \in BarType
  <2>1. b.sane \in BOOLEAN
    BY DEF BarType
  <2> QED
    BY <1>1, <1>3, <1>4, <2>1 DEF Merged, BarType
<1>6. Merged(k, b).set = k.set /\ Merged(k, b).vol = k.vol + b.vol
  BY DEF Merged, BarType
<1>7. /\ Merged(k, b).open = k.open /\ Merged(k, b).close = b.close
      /\ Merged(k, b).high = Larger(b.high, k.high)
      /\ Merged(k, b).low = Smaller(b.low, k.low)
      /\ Merged(k, b).sane = b.sane
  BY DEF Merged, BarType
<1> QED
  BY <1>2, <1>3, <1>5, <1>6, <1>7 DEF IsValidKBarData

(* appendKBar stores the bar or refuses it, and keeps the open sub-bar.    *)
LEMMA StoreTable ==
  ASSUME NEW t \in TableType, Len(t.rows) <= Cap, NEW b \in BarType
  PROVE  LET u == Store(t, b) IN
         /\ u \in TableType /\ Len(u.rows) <= Cap
         /\ u.sub = t.sub /\ u.discarded = t.discarded
         /\ u.ok => t.ok /\ b.set /\ u.stored + u.dropped = t.stored + t.dropped + b.vol
         /\ \/ u.latest = t.latest /\ u.count = t.count
            \/ u.latest = b /\ u.count = 0 /\ b.set /\ IsValidKBarData(b)
         /\ t.ok /\ b.set /\ IsValidKBarData(b) => u.ok
<1> DEFINE u == Store(t, b)
<1>0. /\ t.stored \in Int /\ t.dropped \in Int /\ t.rows \in Seq(BarType)
      /\ Cap \in Nat
  BY PeriodAssumption DEF TableType
<1>. b.vol \in Int
  BY DEF BarType
<1>1. CASE ~b.set
  BY <1>1 DEF Store, Fails, TableType
<1>2. CASE b.set /\ Len(t.rows) >= Cap
  <2>1. u = [t EXCEPT !.dropped = t.dropped + b.vol]
    BY <1>2 DEF Store
  <2>2. u \in TableType
    BY <1>0, <2>1 DEF TableType
  <2>3. /\ u.rows = t.rows /\ u.sub = t.sub /\ u.discarded = t.discarded
        /\ u.dropped = t.dropped + b.vol /\ u.stored = t.stored
        /\ u.latest = t.latest /\ u.count = t.count /\ u.ok = t.ok
    BY <2>1 DEF TableType
  <2>4. u.stored + u.dropped = t.stored + t.dropped + b.vol
    BY <1>0, <2>3
  <2> QED
    BY <1>2, <2>2, <2>3, <2>4
<1>3. CASE b.set /\ ~(Len(t.rows) >= Cap) /\ ~IsValidKBarData(b)
  BY <1>3 DEF Store, Fails, TableType
<1>4. CASE b.set /\ ~(Len(t.rows) >= Cap) /\ IsValidKBarData(b)
  <2>1. Append(t.rows, b) \in Seq(BarType) /\ Len(Append(t.rows, b)) = Len(t.rows) + 1
    BY <1>0
  <2>2. Len(t.rows) + 1 <= Cap
    BY <1>0, <1>4
  <2>3. u = [t EXCEPT !.rows = Append(t.rows, b), !.stored = t.stored + b.vol,
                      !.latest = b, !.count = 0]
    BY <1>4 DEF Store
  <2>4. u \in TableType
    <3> DEFINE rows == Append(t.rows, b)
               stored == t.stored + b.vol
    <3>1. rows \in Seq(BarType) /\ stored \in Int
      BY <1>0, <2>1
    <3>2. u = [t EXCEPT !.rows = rows, !.stored = stored, !.latest = b, !.count = 0]
      BY <2>3
    <3> HIDE DEF rows, stored
    <3>3. u = [rows |-> rows, latest |-> b, count |-> 0, sub |-> t.sub,
               stored |-> stored, dropped |-> t.dropped,
               discarded |-> t.discarded, ok |-> t.ok]
      BY <3>2 DEF TableType
    <3>4. /\ t.sub \in BarType /\ t.dropped \in Int /\ t.discarded \in Int
          /\ t.ok \in BOOLEAN
      BY DEF TableType
    <3> QED
      BY <3>1, <3>3, <3>4 DEF TableType
  <2>5. /\ u.rows = Append(t.rows, b) /\ u.dropped = t.dropped /\ u.sub = t.sub
        /\ u.stored = t.stored + b.vol /\ u.discarded = t.discarded
        /\ u.latest = b /\ u.count = 0 /\ u.ok = t.ok
    BY <2>3 DEF TableType
  <2>6. u.stored + u.dropped = t.stored + t.dropped + b.vol
    BY <1>0, <2>5
  <2> QED
    BY <1>4, <2>1, <2>2, <2>4, <2>5, <2>6
<1> QED
  BY <1>1, <1>2, <1>3, <1>4

(* Numbers of a table.                                                     *)
LEMMA TableNumbers ==
  ASSUME NEW t \in TableType
  PROVE  /\ t.stored \in Int /\ t.dropped \in Int /\ t.discarded \in Int
         /\ t.count \in Nat /\ t.latest \in BarType /\ t.sub \in BarType
         /\ t.latest.vol \in Int /\ t.sub.vol \in Int
         /\ t.latest.set \in BOOLEAN /\ t.ok \in BOOLEAN
  BY DEF TableType, BarType

(* The volume of a table is a number.                                      *)
LEMMA VolumeInt ==
  ASSUME NEW t, WellFormed(t)
  PROVE  VolumeOf(t) \in Int
<1>1. t \in TableType
  BY DEF WellFormed
<1>2. /\ t.stored \in Int /\ t.dropped \in Int /\ t.discarded \in Int
      /\ t.sub.vol \in Int /\ Pending(t) \in Int
  BY <1>1, TableNumbers DEF Pending
<1> QED
  BY <1>2 DEF VolumeOf

(* A failed CHECK changes nothing but ok.                                  *)
LEMMA FailsTable ==
  ASSUME NEW t, WellFormed(t), NEW v
  PROVE  TakesIn(t, Fails(t), v)
  BY DEF TakesIn, WellFormed, Fails, TableType

(* A sub-bar of another trading day: the started bar is stored once, and   *)
(* the new one holds the sub-bar alone.                                    *)
LEMMA CrossDayTable ==
  ASSUME NEW t, WellFormed(t), NEW b \in BarType, b.set, IsValidKBarData(b),
         SubPeriod # Period, NEW u, u = CrossDay(t, b)
  PROVE  TakesIn(t, u, b.vol) /\ (t.ok => u.ok)
<1> DEFINE closed == IF t.count > 0 THEN Store(t, t.latest) ELSE t
<1>1. /\ t \in TableType /\ Len(t.rows) <= Cap
      /\ t.count > 0 => t.latest.set /\ IsValidKBarData(t.latest)
  BY DEF WellFormed
<1>2. /\ closed \in TableType /\ Len(closed.rows) <= Cap
      /\ closed.sub = t.sub /\ closed.discarded = t.discarded
      /\ closed.ok => t.ok /\ closed.stored + closed.dropped = t.stored + t.dropped + Pending(t)
      /\ t.ok => closed.ok
  <2>1. CASE t.count > 0
    <3>1. closed = Store(t, t.latest) /\ Pending(t) = t.latest.vol /\ t.latest \in BarType
      BY <1>1, <2>1, TableNumbers DEF Pending
    <3> HIDE DEF closed
    <3> QED
      BY <1>1, <2>1, <3>1, StoreTable
  <2>2. CASE ~(t.count > 0)
    BY <1>1, <2>2, TableNumbers DEF Pending
  <2> QED
    BY <2>1, <2>2
<1>3. u = [closed EXCEPT !.latest = Opened(b), !.count = 1]
  BY DEF CrossDay
<1> HIDE DEF closed
<1>4. /\ u \in TableType /\ u.latest = Opened(b) /\ u.count = 1
      /\ u.rows = closed.rows /\ u.sub = closed.sub /\ u.ok = closed.ok
      /\ u.stored = closed.stored /\ u.dropped = closed.dropped
      /\ u.discarded = closed.discarded
  <2> DEFINE o == Opened(b)
  <2>1. o \in BarType /\ closed \in TableType
    BY <1>2, OpenedBar
  <2>2. u = [closed EXCEPT !.latest = o, !.count = 1]
    BY <1>3
  <2> HIDE DEF o
  <2>3. u = [rows |-> closed.rows, latest |-> o, count |-> 1, sub |-> closed.sub,
             stored |-> closed.stored, dropped |-> closed.dropped,
             discarded |-> closed.discarded, ok |-> closed.ok]
    BY <2>1, <2>2 DEF TableType
  <2>4. u \in TableType
    BY <2>1, <2>3 DEF TableType
  <2> QED
    BY <2>3, <2>4 DEF o
<1>5. WellFormed(u)
  BY <1>2, <1>4, OpenedBar, SubsPerBarFacts DEF WellFormed
<1>6. Pending(u) = b.vol
  BY <1>4, OpenedBar DEF Pending
<1>7. u.ok => VolumeOf(u) = VolumeOf(t) + b.vol
  <2>1. b.vol \in Int /\ Pending(t) \in Int
    BY <1>1, TableNumbers DEF BarType, Pending
  <2>2. /\ t.stored \in Int /\ t.dropped \in Int /\ t.discarded \in Int
        /\ t.sub.vol \in Int
    BY <1>1, TableNumbers
  <2>3. closed.stored \in Int /\ closed.dropped \in Int
    BY <1>2, TableNumbers
  <2>4. VolumeOf(u) = closed.stored + closed.dropped + t.discarded + t.sub.vol + b.vol
    BY <1>2, <1>4, <1>6 DEF VolumeOf
  <2>5. u.ok => closed.stored + closed.dropped = t.stored + t.dropped + Pending(t)
    BY <1>2, <1>4
  <2> QED
    BY <2>1, <2>2, <2>3, <2>4, <2>5 DEF VolumeOf
<1> QED
  BY <1>2, <1>4, <1>5, <1>7 DEF TakesIn

(* A sub-bar of the same day is counted in the bar under construction, and *)
(* the bar it completes is stored or refused once.                         *)
LEMMA AccumulateTable ==
  ASSUME NEW t, WellFormed(t), NEW b \in BarType, b.set, IsValidKBarData(b),
         SubPeriod # Period, NEW u, u = Accumulate(t, b)
  PROVE  TakesIn(t, u, b.vol) /\ (t.ok => u.ok)
<1> DEFINE k == IF t.count = 0 THEN Opened(b) ELSE Merged(t.latest, b)
           w == [t EXCEPT !.latest = k, !.count = t.count + 1]
<1>1. /\ t \in TableType /\ Len(t.rows) <= Cap /\ t.count < SubsPerBar
      /\ t.count > 0 => t.latest.set /\ IsValidKBarData(t.latest)
  BY DEF WellFormed
<1>2. /\ k \in BarType /\ k.set /\ k.vol = Pending(t) + b.vol
      /\ IsValidKBarData(k)
  <2>1. t.latest \in BarType /\ t.count \in Nat /\ b.vol \in Int
    BY <1>1, TableNumbers DEF BarType
  <2>2. CASE t.count = 0
    BY <2>1, <2>2, OpenedBar DEF Pending
  <2>3. CASE t.count # 0
    BY <1>1, <2>1, <2>3, MergedBar DEF Pending
  <2> QED
    BY <2>2, <2>3
<1>3. u = IF w.count = SubsPerBar THEN [Store(w, k) EXCEPT !.count = 0] ELSE w
  BY <1>1 DEF Accumulate
<1> HIDE DEF k
<1>4. /\ w \in TableType /\ w.latest = k /\ w.count = t.count + 1
      /\ w.rows = t.rows /\ w.sub = t.sub /\ w.ok = t.ok
      /\ w.stored = t.stored /\ w.dropped = t.dropped /\ w.discarded = t.discarded
  <2>1. t.count + 1 \in Nat
    BY <1>1, TableNumbers
  <2> QED
    BY <1>1, <1>2, <2>1 DEF TableType
<1> HIDE DEF w
<1>5. b.vol \in Int /\ k.vol \in Int /\ Pending(t) \in Int
  BY <1>1, <1>2, TableNumbers DEF BarType, Pending
<1>6. /\ t.stored \in Int /\ t.dropped \in Int /\ t.discarded \in Int
      /\ t.sub.vol \in Int
  BY <1>1, TableNumbers
<1>7. CASE w.count # SubsPerBar
  <2>1. u = w /\ WellFormed(u)
    BY <1>1, <1>2, <1>3, <1>4, <1>7, SubsPerBarFacts, TableNumbers DEF WellFormed
  <2>2. VolumeOf(u) = VolumeOf(t) + b.vol
    <3>1. Pending(u) = k.vol
      BY <1>1, <1>4, <2>1, TableNumbers DEF Pending
    <3>2. VolumeOf(u) = t.stored + t.dropped + t.discarded + t.sub.vol + k.vol
      BY <1>4, <2>1, <3>1 DEF VolumeOf
    <3> QED
      BY <1>2, <1>5, <1>6, <3>2 DEF VolumeOf
  <2> QED
    BY <1>4, <2>1, <2>2 DEF TakesIn
<1>8. CASE w.count = SubsPerBar
  <2> DEFINE x == Store(w, k)
  <2>1. /\ x \in TableType /\ Len(x.rows) <= Cap
        /\ x.sub = w.sub /\ x.discarded = w.discarded
        /\ x.ok => w.ok /\ x.stored + x.dropped = w.stored + w.dropped + k.vol
        /\ x.latest = k
        /\ w.ok /\ IsValidKBarData(k) => x.ok
    BY <1>1, <1>2, <1>4, StoreTable
  <2> HIDE DEF x
  <2>2. u = [x EXCEPT !.count = 0]
    BY <1>3, <1>8 DEF x
  <2>3. /\ u \in TableType /\ u.count = 0 /\ u.latest = x.latest /\ u.rows = x.rows
        /\ u.sub = x.sub /\ u.ok = x.ok /\ u.stored = x.stored
        /\ u.dropped = x.dropped /\ u.discarded = x.discarded
    BY <2>1, <2>2 DEF TableType
  <2>4. WellFormed(u)
    BY <1>2, <2>1, <2>3, SubsPerBarFacts DEF WellFormed
  <2>5. u.ok => VolumeOf(u) = VolumeOf(t) + b.vol
    <3>1. Pending(u) = 0
      BY <2>3 DEF Pending
    <3>2. VolumeOf(u) = x.stored + x.dropped + t.discarded + t.sub.vol + 0
      BY <1>4, <2>1, <2>3, <3>1 DEF VolumeOf
    <3>3. u.ok => x.stored + x.dropped = t.stored + t.dropped + k.vol
      BY <1>4, <2>1, <2>3
    <3>4. x.stored \in Int /\ x.dropped \in Int
      BY <2>1, TableNumbers
    <3> QED
      BY <1>2, <1>5, <1>6, <3>2, <3>3, <3>4 DEF VolumeOf
  <2> QED
    BY <1>2, <1>4, <2>1, <2>3, <2>4, <2>5 DEF TakesIn
<1> QED
  BY <1>7, <1>8

(* appendSubKBar takes in the volume of its bar, whichever way it goes.    *)
LEMMA AddSubTable ==
  ASSUME NEW t, WellFormed(t), NEW b \in BarType
  PROVE  /\ TakesIn(t, AddSub(t, b), b.vol)
         /\ t.ok /\ b.set /\ IsValidKBarData(b) => AddSub(t, b).ok
<1> DEFINE u == AddSub(t, b)
<1>1. /\ t \in TableType /\ Len(t.rows) <= Cap /\ t.count < SubsPerBar
      /\ t.count \in Nat /\ t.latest \in BarType
  BY TableNumbers DEF WellFormed
<1>2. CASE ~(b.set /\ IsValidKBarData(b))
  <2>1. u = Fails(t)
    BY <1>2 DEF AddSub
  <2> QED
    BY <1>2, <2>1, FailsTable
<1>3. CASE b.set /\ IsValidKBarData(b) /\ SubPeriod = Period
  <2>1. u = Store(t, b)
    BY <1>3 DEF AddSub
  <2>2. t.count = 0
    BY <1>1, <1>3, SubsPerBarFacts
  <2> HIDE DEF u
  <2>3. /\ u \in TableType /\ Len(u.rows) <= Cap
        /\ u.sub = t.sub /\ u.discarded = t.discarded
        /\ u.ok => t.ok /\ u.stored + u.dropped = t.stored + t.dropped + b.vol
        /\ \/ u.latest = t.latest /\ u.count = t.count
           \/ u.latest = b /\ u.count = 0
        /\ u.latest.set => IsValidKBarData(u.latest)
        /\ t.ok => u.ok
    BY <1>1, <1>3, <2>1, StoreTable DEF WellFormed
  <2>4. u.count = 0
    BY <2>2, <2>3
  <2>5. WellFormed(u)
    BY <2>3, <2>4, SubsPerBarFacts DEF WellFormed
  <2>6. u.ok => VolumeOf(u) = VolumeOf(t) + b.vol
    <3>1. Pending(u) = 0 /\ Pending(t) = 0
      BY <2>2, <2>4 DEF Pending
    <3>2. VolumeOf(u) = u.stored + u.dropped + t.discarded + t.sub.vol + 0
      BY <2>3, <3>1 DEF VolumeOf
    <3>3. /\ t.stored \in Int /\ t.dropped \in Int /\ t.discarded \in Int
          /\ t.sub.vol \in Int /\ u.stored \in Int /\ u.dropped \in Int
          /\ b.vol \in Int
      BY <1>1, <2>3, TableNumbers DEF BarType
    <3>4. VolumeOf(t) = t.stored + t.dropped + t.discarded + t.sub.vol + 0
      BY <3>1 DEF VolumeOf
    <3>5. u.ok => u.stored + u.dropped = t.stored + t.dropped + b.vol
      BY <2>3
    <3> HIDE DEF u
    <3> QED
      BY <3>2, <3>3, <3>4, <3>5
  <2> QED
    BY <2>3, <2>5, <2>6 DEF TakesIn, u
<1>4. CASE /\ b.set /\ IsValidKBarData(b) /\ SubPeriod # Period
           /\ ~SameTradingDay(t.latest.time, b.time)
  <2>1. u = CrossDay(t, b)
    BY <1>4 DEF AddSub
  <2> HIDE DEF u
  <2> QED
    BY <1>4, <2>1, CrossDayTable DEF u
<1>5. CASE /\ b.set /\ IsValidKBarData(b) /\ SubPeriod # Period
           /\ SameTradingDay(t.latest.time, b.time)
  <2>1. u = Accumulate(t, b)
    BY <1>5 DEF AddSub
  <2> HIDE DEF u
  <2> QED
    BY <1>5, <2>1, AccumulateTable DEF u
<1> QED
  BY <1>2, <1>3, <1>4, <1>5

(* The open sub-bar, if there is one, goes into the table, and its volume  *)
(* is then counted twice until the caller clears or replaces it.           *)
LEMMA FlushTable ==
  ASSUME NEW t, WellFormed(t), SubFit(t.sub)
  PROVE  /\ TakesIn(t, Flush(t), t.sub.vol)
         /\ t.ok => Flush(t).ok \/ (t.sub.set /\ Spoiled(t.sub))
<1>1. t \in TableType /\ t.sub \in BarType
  BY TableNumbers DEF WellFormed
<1>2. CASE t.sub.set
  <2>1. Flush(t) = AddSub(t, t.sub)
    BY <1>2 DEF Flush
  <2> QED
    BY <1>1, <1>2, <2>1, AddSubTable DEF SubFit
<1>3. CASE ~t.sub.set
  <2>1. Flush(t) = t /\ t.sub.vol = 0
    BY <1>3 DEF Flush, NoBar, SubFit
  <2>2. VolumeOf(t) = VolumeOf(t) + 0
    <3>1. /\ t.stored \in Int /\ t.dropped \in Int /\ t.discarded \in Int
          /\ t.sub.vol \in Int /\ Pending(t) \in Int
      BY <1>1, TableNumbers DEF Pending
    <3> QED
      BY <3>1 DEF VolumeOf
  <2> QED
    BY <2>1, <2>2 DEF TakesIn
<1> QED
  BY <1>2, <1>3

(* A table with another open sub-bar.                                      *)
LEMMA WithSub ==
  ASSUME NEW t, WellFormed(t), NEW b \in BarType,
         NEW u, u = [t EXCEPT !.sub = b]
  PROVE  /\ WellFormed(u) /\ u.sub = b /\ u.ok = t.ok /\ u.latest = t.latest
         /\ VolumeOf(u) + t.sub.vol = VolumeOf(t) + b.vol
<1>1. t \in TableType
  BY DEF WellFormed
<1>2. /\ u \in TableType /\ u.sub = b /\ u.ok = t.ok /\ u.latest = t.latest
      /\ u.count = t.count /\ u.rows = t.rows /\ u.stored = t.stored
      /\ u.dropped = t.dropped /\ u.discarded = t.discarded
  BY <1>1 DEF TableType
<1>3. /\ t.stored \in Int /\ t.dropped \in Int /\ t.discarded \in Int
      /\ t.sub.vol \in Int /\ Pending(t) \in Int
  BY <1>1, TableNumbers DEF Pending
<1>4. Pending(u) = Pending(t)
  BY <1>2 DEF Pending
<1>5. b.vol \in Int
  BY DEF BarType
<1> QED
  BY <1>2, <1>3, <1>4, <1>5 DEF WellFormed, VolumeOf

(* The cleared bar is a bar, unset and without volume.                     *)
LEMMA NoBarIsBar == NoBar \in BarType /\ NoBar.vol = 0 /\ ~NoBar.set
  BY DEF NoBar, BarType, PartType, Price

(* One more tick leaves a sub-bar valid unless it is one that spoils it.   *)
LEMMA TickMerged ==
  ASSUME NEW k \in BarType, k.set, SubFit(k), NEW b \in BarType, b.sane,
         b.open = b.close, b.high = b.close, b.low = b.close
  PROVE  SubFit(Merged(k, b))
<1> DEFINE r == Merged(k, b)
           p == k.parts
           n == Len(p)
<1>1. /\ p \in Seq(PartType) /\ n \in Nat /\ Part(b) \in PartType
      /\ Part(b).close = b.close /\ Part(b).vol = b.vol
  BY DEF Part, PartType, BarType
<1>2. r.set /\ r.parts = Append(p, Part(b))
  BY DEF Merged, BarType
<1>3. /\ DOMAIN p = 1..n /\ DOMAIN Append(p, Part(b)) = 1..n + 1
      /\ \A i \in 1..n : Append(p, Part(b))[i] = p[i]
      /\ Append(p, Part(b))[n + 1] = Part(b)
  BY <1>1
<1> SUFFICES ASSUME ~Spoiled(r) PROVE IsValidKBarData(r)
  BY <1>2 DEF SubFit
<1>4. \A i \in 1..n + 1 : /\ IsNormal(Append(p, Part(b))[i].close)
                         /\ ~(Append(p, Part(b))[i].vol < 0)
  BY <1>2, <1>3 DEF Spoiled
<1>5. ~Spoiled(k)
  <2>1. \A i \in 1..n : IsNormal(p[i].close) /\ ~(p[i].vol < 0)
    BY <1>1, <1>3, <1>4
  <2> QED
    BY <1>3, <2>1 DEF Spoiled
<1>6. IsValidKBarData(k)
  BY <1>5 DEF SubFit
<1>7. IsValidKBarData(b)
  <2>1. n + 1 \in 1..n + 1 /\ b.vol \in Int
    BY <1>1 DEF BarType
  <2>2. IsNormal(b.close) /\ ~(b.vol < 0)
    BY <1>1, <1>3, <1>4, <2>1
  <2> QED
    BY <2>1, <2>2 DEF IsValidKBarData
<1> QED
  BY <1>6, <1>7, MergedBar

(* appendTick takes in the tick's volume: in the open sub-bar, or in a new *)
(* one after the old one went into the table.                              *)
LEMMA AddTickTable ==
  ASSUME NEW t, WellFormed(t), SubFit(t.sub),
         NEW b \in BarType, b.set, b.time >= SubPeriod, b.sane,
         b.open = b.close, b.high = b.close, b.low = b.close
  PROVE  LET u == AddTick(t, b) IN
         /\ WellFormed(u) /\ u.sub.set /\ SubFit(u.sub)
         /\ u.ok => t.ok /\ VolumeOf(u) = VolumeOf(t) + b.vol
         /\ t.ok => u.ok \/ (t.sub.set /\ Spoiled(t.sub) /\ u.sub # t.sub)
<1> DEFINE u == AddTick(t, b)
           start == [b EXCEPT !.time = (b.time \div SubPeriod) * SubPeriod,
                              !.parts = <<Part(b)>>]
<1>1. /\ t \in TableType /\ t.sub \in BarType /\ b.vol \in Int /\ t.sub.vol \in Int
      /\ b.time \in Nat
  BY TableNumbers DEF WellFormed, BarType
<1>2. CASE b.time \div SubPeriod = t.sub.time \div SubPeriod
  <2>1. t.sub.set
    <3>1. b.time \div SubPeriod # 0 \div SubPeriod
      BY <1>1, NotPeriodZero, PeriodAssumption
    <3>2. t.sub # NoBar
      BY <1>2, <3>1 DEF NoBar
    <3> QED
      BY <3>2 DEF SubFit
  <2>2. u = [t EXCEPT !.sub = Merged(t.sub, b)]
    BY <1>2 DEF AddTick
  <2>3. /\ Merged(t.sub, b) \in BarType /\ Merged(t.sub, b).set
        /\ Merged(t.sub, b).vol = t.sub.vol + b.vol
        /\ SubFit(Merged(t.sub, b))
    BY <1>1, <2>1, MergedBar, TickMerged
  <2> HIDE DEF u
  <2>4. /\ WellFormed(u) /\ u.sub = Merged(t.sub, b) /\ u.ok = t.ok
        /\ VolumeOf(u) + t.sub.vol = VolumeOf(t) + (t.sub.vol + b.vol)
    BY <2>2, <2>3, WithSub
  <2>5. VolumeOf(u) = VolumeOf(t) + b.vol
    <3>1. VolumeOf(t) \in Int /\ VolumeOf(u) \in Int
      BY <2>4, VolumeInt
    <3> QED
      BY <1>1, <2>4, <3>1
  <2> QED
    BY <2>3, <2>4, <2>5 DEF u
<1>3. CASE b.time \div SubPeriod # t.sub.time \div SubPeriod
  <2>1. u = [Flush(t) EXCEPT !.sub = start]
    BY <1>3 DEF AddTick
  <2>2. /\ start \in BarType /\ start.set /\ start.vol = b.vol
        /\ start.time = (b.time \div SubPeriod) * SubPeriod
        /\ start.parts = <<Part(b)>> /\ (IsValidKBarData(b) => IsValidKBarData(start))
    <3>1. (b.time \div SubPeriod) * SubPeriod \in Nat
      BY <1>1, CutTime, PeriodAssumption
    <3>2. <<Part(b)>> \in Seq(PartType)
      BY DEF Part, PartType, BarType
    <3> QED
      BY <3>1, <3>2 DEF BarType, IsValidKBarData
  <2>3. /\ TakesIn(t, Flush(t), t.sub.vol)
        /\ t.ok => Flush(t).ok \/ (t.sub.set /\ Spoiled(t.sub))
    BY FlushTable
  <2> HIDE DEF u, start
  <2>4. /\ WellFormed(u) /\ u.sub = start /\ u.ok = Flush(t).ok
        /\ VolumeOf(u) + Flush(t).sub.vol = VolumeOf(Flush(t)) + b.vol
    BY <2>1, <2>2, <2>3, WithSub DEF TakesIn
  <2>5. u.ok => t.ok /\ VolumeOf(u) = VolumeOf(t) + b.vol
    <3>1. VolumeOf(t) \in Int /\ VolumeOf(u) \in Int
      BY <2>4, VolumeInt
    <3>2. Flush(t).sub = t.sub /\ (Flush(t).ok => VolumeOf(Flush(t)) = VolumeOf(t) + t.sub.vol)
      BY <2>3 DEF TakesIn
    <3>3. Flush(t).ok => t.ok
      BY <2>3 DEF TakesIn
    <3> QED
      BY <1>1, <2>4, <3>1, <3>2, <3>3
  <2>6. u.sub # t.sub
    <3>1. start.time \div SubPeriod = b.time \div SubPeriod
      BY <1>1, <2>2, CutTwice, PeriodAssumption
    <3> QED
      BY <1>3, <2>4, <3>1
  <2>7. SubFit(start)
    <3> SUFFICES ASSUME ~Spoiled(start) PROVE IsValidKBarData(b)
      BY <2>2 DEF SubFit
    <3>1. 1 \in DOMAIN start.parts /\ start.parts[1] = Part(b)
      BY <2>2
    <3>2. IsNormal(Part(b).close) /\ ~(Part(b).vol < 0)
      BY <3>1 DEF Spoiled
    <3>3. Part(b).close = b.close /\ Part(b).vol = b.vol
      BY DEF Part
    <3> QED
      BY <1>1, <3>2, <3>3 DEF IsValidKBarData
  <2> QED
    BY <2>2, <2>3, <2>4, <2>5, <2>6, <2>7 DEF u
<1> QED
  BY <1>2, <1>3

(* finish() leaves nothing open and loses nothing: all the volume is in    *)
(* the rows or was refused.                                                *)
LEMMA FinishedTable ==
  ASSUME NEW t, WellFormed(t), SubFit(t.sub)
  PROVE  LET r == Finished(t) IN
         /\ WellFormed(r) /\ r.sub = NoBar
         /\ r.ok => t.ok /\ VolumeOf(r) = VolumeOf(t)
         /\ t.ok => r.ok \/ (t.sub.set /\ Spoiled(t.sub))
<1> DEFINE u == [Flush(t) EXCEPT !.sub = NoBar]
           stores == u.ok /\ u.latest.set /\ u.count # 0
           v == IF stores THEN Store(u, u.latest) ELSE u
           r == Finished(t)
<1>1. r = [v EXCEPT !.latest = NoBar, !.count = 0]
  BY DEF Finished
<1>2. /\ t.sub.vol \in Int
      /\ TakesIn(t, Flush(t), t.sub.vol)
      /\ t.ok => Flush(t).ok \/ (t.sub.set /\ Spoiled(t.sub))
  BY FlushTable, TableNumbers DEF WellFormed
<1>3. /\ WellFormed(u) /\ u.sub = NoBar /\ u.ok = Flush(t).ok
      /\ u.latest = Flush(t).latest
      /\ VolumeOf(u) + Flush(t).sub.vol = VolumeOf(Flush(t)) + 0
  <2> HIDE DEF u
  <2>1. u = [Flush(t) EXCEPT !.sub = NoBar]
    BY DEF u
  <2> QED
    BY <1>2, <2>1, NoBarIsBar, WithSub DEF TakesIn
<1> HIDE DEF u
<1>4. VolumeOf(t) \in Int /\ VolumeOf(u) \in Int
  BY <1>3, VolumeInt
<1>5. u.ok => t.ok /\ VolumeOf(u) = VolumeOf(t)
  BY <1>2, <1>3, <1>4 DEF TakesIn
<1>6. /\ u \in TableType /\ Len(u.rows) <= Cap /\ u.latest \in BarType
      /\ u.count \in Nat /\ u.latest.vol \in Int
      /\ u.stored \in Int /\ u.dropped \in Int /\ u.discarded \in Int
      /\ u.count > 0 => u.latest.set
  BY <1>3, TableNumbers DEF WellFormed
<1>7. /\ v \in TableType /\ Len(v.rows) <= Cap /\ v.sub = NoBar
      /\ v.discarded = u.discarded
      /\ v.ok => u.ok /\ v.stored + v.dropped = u.stored + u.dropped + Pending(u)
      /\ u.ok => v.ok
  <2>1. CASE stores
    <3>1. v = Store(u, u.latest) /\ Pending(u) = u.latest.vol
      BY <1>6, <2>1 DEF Pending
    <3> HIDE DEF v
    <3>2. /\ v \in TableType /\ Len(v.rows) <= Cap
          /\ v.sub = u.sub /\ v.discarded = u.discarded
          /\ v.ok => u.ok /\ v.stored + v.dropped = u.stored + u.dropped + u.latest.vol
          /\ u.ok /\ u.latest.set /\ IsValidKBarData(u.latest) => v.ok
      BY <1>6, <3>1, StoreTable
    <3>3. IsValidKBarData(u.latest)
      BY <1>3, <2>1 DEF WellFormed
    <3>4. u.sub = NoBar /\ u.latest.set
      BY <1>3, <2>1
    <3> HIDE DEF stores
    <3> QED
      BY <3>1, <3>2, <3>3, <3>4
  <2>2. CASE ~stores
    <3>1. v = u /\ (u.ok => Pending(u) = 0)
      BY <1>6, <2>2 DEF Pending
    <3> QED
      BY <1>3, <1>6, <3>1
  <2> QED
    BY <2>1, <2>2
<1> HIDE DEF v
<1>8. r = [rows |-> v.rows, latest |-> NoBar, count |-> 0, sub |-> v.sub,
           stored |-> v.stored, dropped |-> v.dropped,
           discarded |-> v.discarded, ok |-> v.ok]
  BY <1>1, <1>7 DEF TableType
<1> HIDE DEF r
<1>9. WellFormed(r)
  <2>1. r \in TableType
    BY <1>7, <1>8, NoBarIsBar DEF TableType
  <2> QED
    BY <1>7, <1>8, <2>1, NoBarIsBar, SubsPerBarFacts DEF WellFormed
<1>10. r.ok => VolumeOf(r) = VolumeOf(u)
  <2>1. VolumeOf(r) = v.stored + v.dropped + u.discarded + 0 + 0
    BY <1>7, <1>8, NoBarIsBar DEF VolumeOf, Pending
  <2>2. VolumeOf(u) = u.stored + u.dropped + u.discarded + 0 + Pending(u)
    BY <1>3, NoBarIsBar DEF VolumeOf
  <2>3. Pending(u) \in Int /\ v.stored \in Int /\ v.dropped \in Int
    BY <1>6, <1>7, TableNumbers DEF Pending
  <2>4. r.ok => v.stored + v.dropped = u.stored + u.dropped + Pending(u)
    BY <1>7, <1>8
  <2> QED
    BY <1>6, <2>1, <2>2, <2>3, <2>4
<1>11. r.sub = NoBar /\ r.latest = NoBar /\ r.ok = v.ok
  BY <1>7, <1>8
<1> QED
  BY <1>2, <1>3, <1>5, <1>7, <1>9, <1>10, <1>11 DEF r

-----------------------------------------------------------------------------
(* The inductive invariant.  VolumeConserved needs to know that the table  *)
(* is well-formed, that an unset sub-bar is a cleared one, and that time   *)
(* has passed the first sub-period, where a tick could fall into the       *)
(* cleared sub-bar; AbortsAreInputs needs the validity of the bar (in      *)
(* WellFormed) and the sub-bar still on their way to a CHECK.              *)
IInv ==
  /\ WellFormed(tab) /\ SubFit(tab.sub)
  /\ aborted = ~tab.ok
  /\ now \in Nat /\ now >= StartTime /\ inputs \in Nat /\ fed \in Int
  /\ refused \in BOOLEAN
  /\ tab.ok => fed = VolumeOf(tab)

(* A new table satisfies it.                                               *)
LEMMA InitIInv == Init => IInv
<1> SUFFICES ASSUME Init PROVE IInv
  OBVIOUS
<1>1. tab \in TableType
  <2>1. <<>> \in Seq(BarType)
    OBVIOUS
  <2> QED
    BY <2>1, NoBarIsBar DEF Init, TableType
<1>2. WellFormed(tab) /\ tab.ok /\ tab.sub = NoBar
  BY <1>1, NoBarIsBar, SubsPerBarFacts, PeriodAssumption DEF Init, WellFormed
<1>3. VolumeOf(tab) = 0
  BY NoBarIsBar DEF Init, VolumeOf, Pending
<1>4. /\ aborted = ~tab.ok /\ now >= StartTime /\ now \in Nat
      /\ inputs \in Nat /\ fed = 0 /\ refused \in BOOLEAN
  <2>1. aborted = FALSE /\ tab.ok = TRUE /\ refused = FALSE
    BY DEF Init
  <2>2. now >= StartTime /\ now \in Nat /\ inputs \in Nat /\ fed = 0
    BY InputAssumption DEF Init
  <2> QED
    BY <2>1, <2>2
<1>5. fed \in Int /\ SubFit(tab.sub)
  BY <1>2, <1>4, NoBarIsBar DEF SubFit
<1> QED
  BY <1>2, <1>3, <1>4, <1>5 DEF IInv

(* Every input is a set bar whose time is past the first sub-period, that  *)
(* of a tick with one price.                                               *)
LEMMA Inputs ==
  ASSUME now \in Nat, now >= StartTime, NEW d \in Steps
  PROVE  /\ now + d \in Nat /\ now + d >= StartTime
         /\ \A k \in Ticks : LET b == TickBar(k, now + d) IN
              /\ b \in BarType /\ b.set /\ b.time >= SubPeriod
              /\ b.open = b.close /\ b.high = b.close /\ b.low = b.close
              /\ b.vol = k.vol /\ b.sane = k.sane
         /\ \A s \in SubBars : LET b == InputBar(s, now + d) IN
              b \in BarType /\ b.set /\ b.vol = s.vol
<1>1. /\ d \in Nat /\ now + d \in Nat /\ now + d >= StartTime /\ now + d >= SubPeriod
  BY InputAssumption, PeriodAssumption
<1>2. <<>> \in Seq(PartType)
  OBVIOUS
<1>3. ASSUME NEW k \in Ticks
      PROVE  LET b == TickBar(k, now + d) IN
               /\ b \in BarType /\ b.set /\ b.time >= SubPeriod
               /\ b.open = b.close /\ b.high = b.close /\ b.low = b.close
               /\ b.vol = k.vol /\ b.sane = k.sane
  <2>1. k.price \in Price /\ k.vol \in Int /\ k.sane \in BOOLEAN
    BY InputAssumption
  <2> QED
    BY <1>1, <1>2, <2>1 DEF TickBar, BarType
<1>4. ASSUME NEW s \in SubBars
      PROVE  LET b == InputBar(s, now + d) IN b \in BarType /\ b.set /\ b.vol = s.vol
  <2>1. s \in [open : Price, high : Price, low : Price, close : Price,
               vol : Int, sane : BOOLEAN]
    BY InputAssumption
  <2> QED
    BY <1>1, <1>2, <2>1 DEF InputBar, BarType
<1> QED
  BY <1>1, <1>3, <1>4

(* appendKBar called directly: what it overwrites is discarded, not lost   *)
(* from the account.                                                       *)
LEMMA DirectTable ==
  ASSUME NEW t, WellFormed(t), NEW b \in BarType, b.set,
         NEW u, u = Direct(t, b)
  PROVE  /\ TakesIn(t, u, b.vol)
         /\ t.ok /\ IsValidKBarData(b) => u.ok
<1> DEFINE w == Store(t, b)
           lost == IF t.count > 0 /\ w.count = 0 THEN t.latest.vol ELSE 0
<1>1. /\ t \in TableType /\ Len(t.rows) <= Cap /\ t.count < SubsPerBar
      /\ t.count > 0 => t.latest.set
      /\ t.count \in Nat /\ t.latest.vol \in Int /\ b.vol \in Int
      /\ t.stored \in Int /\ t.dropped \in Int /\ t.discarded \in Int
      /\ t.sub.vol \in Int
  BY TableNumbers DEF WellFormed, BarType
<1>2. u = [w EXCEPT !.discarded = w.discarded + lost]
  BY DEF Direct
<1>3. /\ w \in TableType /\ Len(w.rows) <= Cap
      /\ w.sub = t.sub /\ w.discarded = t.discarded
      /\ w.ok => t.ok /\ w.stored + w.dropped = t.stored + t.dropped + b.vol
      /\ \/ w.latest = t.latest /\ w.count = t.count
         \/ w.latest = b /\ w.count = 0 /\ IsValidKBarData(b)
      /\ t.ok /\ IsValidKBarData(b) => w.ok
  BY <1>1, StoreTable
<1> HIDE DEF w
<1>4. lost \in Int /\ lost + Pending(w) = Pending(t)
  BY <1>1, <1>3 DEF Pending
<1> HIDE DEF lost
<1>5. /\ u \in TableType /\ u.latest = w.latest /\ u.count = w.count /\ u.rows = w.rows
      /\ u.sub = w.sub /\ u.ok = w.ok /\ u.stored = w.stored /\ u.dropped = w.dropped
      /\ u.discarded = t.discarded + lost
  <2>1. t.discarded + lost \in Int
    BY <1>1, <1>4
  <2> QED
    BY <1>2, <1>3, <2>1 DEF TableType
<1>6. WellFormed(u)
  <2>1. w.latest.set => IsValidKBarData(w.latest)
    BY <1>3 DEF WellFormed
  <2> QED
    BY <1>1, <1>3, <1>5, <2>1, SubsPerBarFacts DEF WellFormed
<1>7. u.ok => VolumeOf(u) = VolumeOf(t) + b.vol
  <2>1. Pending(u) = Pending(w)
    BY <1>5 DEF Pending
  <2>2. /\ VolumeOf(u) = w.stored + w.dropped + (t.discarded + lost) + t.sub.vol + Pending(w)
        /\ VolumeOf(t) = t.stored + t.dropped + t.discarded + t.sub.vol + Pending(t)
    BY <1>3, <1>5, <2>1 DEF VolumeOf
  <2>3. Pending(w) \in Int /\ w.stored \in Int /\ w.dropped \in Int
    BY <1>3, TableNumbers DEF Pending
  <2>4. u.ok => w.stored + w.dropped = t.stored + t.dropped + b.vol
    BY <1>3, <1>5
  <2>5. Pending(t) \in Int /\ t.discarded \in Int /\ t.sub.vol \in Int /\ b.vol \in Int
    BY <1>1 DEF Pending
  <2>6. t.stored \in Int /\ t.dropped \in Int
    BY <1>1
  <2> QED
    BY <1>4, <2>2, <2>3, <2>4, <2>5, <2>6
<1> QED
  BY <1>3, <1>5, <1>6, <1>7 DEF TakesIn

(* What a call may do about a failed CHECK.                                *)
AbortCause ==
  aborted' => refused' \/ (tab.sub.set /\ Spoiled(tab.sub) /\ tab'.sub # tab.sub)

(* Every call keeps the inductive invariant, and fails as it should.       *)
LEMMA CallIInv ==
  ASSUME IInv, Next
  PROVE  IInv' /\ AbortCause
<1>1. CASE AppendTick
  <2>1. PICK k \in Ticks, d \in Steps :
          /\ Call(IF IsValidTickData(k) THEN AddTick(tab, TickBar(k, now + d)) ELSE Fails(tab),
                  now + d)
          /\ Fed(k.vol, IsValidTickData(k))
    BY <1>1 DEF AppendTick
  <2> DEFINE b == TickBar(k, now + d)
  <2>2. /\ b \in BarType /\ b.set /\ b.time >= SubPeriod
        /\ b.open = b.close /\ b.high = b.close /\ b.low = b.close
        /\ b.vol = k.vol /\ b.sane = k.sane
        /\ now + d \in Nat /\ now + d >= StartTime /\ k.vol \in Int
    BY Inputs, InputAssumption DEF IInv
  <2> HIDE DEF b
  <2>3. tab.ok /\ aborted' = ~tab'.ok /\ now' = now + d /\ inputs' = inputs + 1
    BY <2>1 DEF Call, IInv
  <2>4. fed' = fed + k.vol /\ fed' \in Int
    BY <2>1, <2>2 DEF Fed, IInv
  <2>5. CASE IsValidTickData(k)
    <3>1. tab' = AddTick(tab, b) /\ b.sane
      BY <2>1, <2>2, <2>5 DEF Call, b, IsValidTickData
    <3>2. /\ WellFormed(tab') /\ SubFit(tab'.sub)
          /\ tab'.ok => VolumeOf(tab') = VolumeOf(tab) + b.vol
          /\ tab'.ok \/ (tab.sub.set /\ Spoiled(tab.sub) /\ tab'.sub # tab.sub)
      BY <2>2, <2>3, <3>1, AddTickTable DEF IInv
    <3>3. refused' = FALSE
      BY <2>1, <2>5 DEF Fed
    <3>4. AbortCause
      BY <2>3, <3>2 DEF AbortCause
    <3>5. now' \in Nat /\ now' >= StartTime /\ inputs' \in Nat
      BY <2>2, <2>3 DEF IInv
    <3>6. refused' \in BOOLEAN
      BY <3>3, Zenon
    <3>7. tab'.ok => fed' = VolumeOf(tab')
      BY <2>2, <2>3, <2>4, <3>2 DEF IInv
    <3> QED
      BY <2>3, <2>4, <3>2, <3>4, <3>5, <3>6, <3>7 DEF IInv
  <2>6. CASE ~IsValidTickData(k)
    <3>1. tab' = Fails(tab) /\ refused' = TRUE
      BY <2>1, <2>6 DEF Call, Fed
    <3>2. WellFormed(tab') /\ tab'.sub = tab.sub /\ ~tab'.ok
      BY <3>1 DEF IInv, WellFormed, Fails, TableType
    <3> QED
      BY <2>2, <2>3, <2>4, <3>1, <3>2 DEF IInv, AbortCause
  <2> QED
    BY <2>5, <2>6
<1>2. ASSUME NEW s \in SubBars, NEW d \in Steps, NEW u,
             Call(u, now + d), Fed(s.vol, IsValidKBarData(InputBar(s, now + d))),
             u = AddSub(tab, InputBar(s, now + d)) \/ u = Direct(tab, InputBar(s, now + d))
      PROVE  IInv' /\ AbortCause
  <2> DEFINE b == InputBar(s, now + d)
  <2>1. b \in BarType /\ b.set /\ b.vol = s.vol /\ now + d \in Nat /\ now + d >= StartTime
    BY Inputs DEF IInv
  <2>2. b.vol \in Int
    BY <2>1 DEF BarType
  <2> HIDE DEF b
  <2>3. tab.ok /\ tab' = u /\ aborted' = ~u.ok /\ now' = now + d /\ inputs' = inputs + 1
    BY <1>2 DEF Call, IInv
  <2>4. /\ TakesIn(tab, u, b.vol)
        /\ IsValidKBarData(b) => u.ok
    BY <1>2, <2>1, <2>3, AddSubTable, DirectTable DEF IInv, b
  <2>5. fed' = fed + b.vol /\ refused' = ~IsValidKBarData(b)
    BY <1>2, <2>1 DEF Fed, b
  <2>6. refused' \in BOOLEAN /\ (~refused' => IsValidKBarData(b))
    BY <2>5, Zenon
  <2> QED
    BY <2>1, <2>2, <2>3, <2>4, <2>5, <2>6 DEF IInv, TakesIn, AbortCause
<1>3. CASE AppendSubKBar
  BY <1>2, <1>3 DEF AppendSubKBar
<1>4. CASE AppendKBar
  BY <1>2, <1>4 DEF AppendKBar
<1>5. CASE Finish
  <2>1. tab.ok /\ tab' = Finished(tab) /\ aborted' = ~tab'.ok
        /\ now' = now /\ inputs' = inputs + 1 /\ fed' = fed + 0 /\ refused' = FALSE
    BY <1>5 DEF Finish, Call, Fed, IInv
  <2>2. /\ WellFormed(tab') /\ tab'.sub = NoBar
        /\ tab'.ok => VolumeOf(tab') = VolumeOf(tab)
        /\ tab'.ok \/ (tab.sub.set /\ Spoiled(tab.sub))
    BY <2>1, FinishedTable DEF IInv
  <2>3. SubFit(tab'.sub) /\ (tab.sub.set => tab'.sub # tab.sub)
    BY <2>2, NoBarIsBar DEF SubFit
  <2>4. AbortCause
    BY <2>1, <2>2, <2>3 DEF AbortCause
  <2>5. fed' \in Int /\ (tab'.ok => fed' = VolumeOf(tab'))
    BY <2>1, <2>2 DEF IInv
  <2>6. now' \in Nat /\ now' >= StartTime /\ inputs' \in Nat
    BY <2>1 DEF IInv
  <2>7. refused' \in BOOLEAN
    BY <2>1, Zenon
  <2> QED
    BY <2>1, <2>2, <2>3, <2>4, <2>5, <2>6, <2>7 DEF IInv
<1> QED
  BY <1>1, <1>3, <1>4, <1>5 DEF Next

LEMMA NextIInv == IInv /\ [Next]_vars => IInv'
<1> SUFFICES ASSUME IInv, [Next]_vars PROVE IInv'
  OBVIOUS
<1>1. CASE UNCHANGED vars
  BY <1>1 DEF IInv, vars
<1> QED
  BY <1>1, CallIInv

(* The shape of the state, for all periods, capacities and inputs, and     *)
(* what the CHECKs in the middle of appendSubKBar (lines 76, 113 and 123)  *)
(* and of the appendKBar it calls (line 40) rely on.                       *)
THEOREM TypeCorrect == Spec => []TypeOK
<1>1. IInv => TypeOK
  BY DEF IInv, WellFormed, TypeOK
<1> QED
  BY <1>1, InitIInv, NextIInv, PTL DEF Spec

(* No volume is lost or counted twice by any sequence of calls.            *)
THEOREM VolumeIsConserved == Spec => []VolumeConserved
<1>1. IInv => VolumeConserved
  BY DEF IInv, VolumeConserved, VolumeOf, Pending
<1> QED
  BY <1>1, InitIInv, NextIInv, PTL DEF Spec

(* The process dies in a CHECK of kbartable.cpp only for an item that the  *)
(* check on entry refuses, or when a sub-bar is completed into which a     *)
(* tick went that isValidTickData let pass although no bar may contain it. *)
THEOREM OnlyInputsAbort == Spec => AbortsAreInputs
<1>1. IInv /\ [Next]_vars =>
        [aborted' => refused' \/ (tab.sub.set /\ Spoiled(tab.sub) /\ tab'.sub # tab.sub)]_vars
  BY CallIInv DEF AbortCause
<1> QED
  BY <1>1, InitIInv, NextIInv, PTL DEF Spec, AbortsAreInputs

-----------------------------------------------------------------------------
(* Short bars.  The ghost field of the bar under construction has one      *)
(* entry per sub-bar that was counted.                                     *)
Counted(t) ==
  SubPeriod # Period => (t.count > 0 => Len(t.latest.parts) = t.count)

(* u has the rows of t, or one more that is complete or ends its day.      *)
Justified(t, u) ==
  \/ u.rows = t.rows
  \/ \E r \in BarType :
       /\ u.rows = Append(t.rows, r)
       /\ \/ Len(r.parts) = SubsPerBar
          \/ u.count = 1 /\ ~SameTradingDay(r.time, u.latest.time)

(* Cutting a time to a multiple of m leaves it in its day, if days are     *)
(* whole multiples of m and begin at one.                                  *)
LEMMA CutInDay ==
  ASSUME NEW m \in Nat \ {0}, DayLength % m = 0, Shift % m = 0, NEW x \in Nat
  PROVE  ((x \div m) * m + Shift) \div DayLength = (x + Shift) \div DayLength
<1>1. m \in Nat /\ m > 0 /\ DayLength \in Nat /\ DayLength > 0 /\ Shift \in Nat
  BY PeriodAssumption, DayAssumption
<1> DEFINE q == DayLength \div m
           k == Shift \div m
           b == x \div m
           a == b + k
           c == a \div q
           e == a % q
           r == x % m
<1>2. q \in Nat /\ DayLength = m * q
  BY <1>1, Z3
<1>3. q > 0
  <2>1. q = 0 => DayLength = 0
    BY <1>1, <1>2, Z3
  <2> QED
    BY <1>1, <1>2, <2>1
<1>4. a \in Nat /\ r \in Nat /\ r < m /\ b * m + Shift = m * a /\ x + Shift = m * a + r
  <2>1. b \in Nat /\ r \in Nat /\ r < m /\ x = m * b + r
    BY <1>1, Z3
  <2>2. k \in Nat /\ Shift = m * k
    BY <1>1, Z3
  <2> HIDE DEF b, k, r
  <2>3. m * (b + k) = m * b + m * k /\ b * m = m * b /\ m * b \in Nat /\ m * k \in Nat
    BY <1>1, <2>1, <2>2, Z3
  <2> QED
    BY <2>1, <2>2, <2>3
<1> HIDE DEF q, a, b, k, r
<1>5. c \in Nat /\ e \in Nat /\ e < q /\ a = q * c + e
  BY <1>2, <1>3, <1>4, Z3
<1> HIDE DEF c, e
<1>6. m * e \in Nat /\ m * e + r \in Nat /\ m * e + r < m * q
  <2>1. m * e + m <= m * q
    <3>1. e + 1 <= q
      BY <1>2, <1>5
    <3>2. m * (e + 1) <= m * q
      BY <1>1, <1>2, <1>5, <3>1, Z3
    <3>3. m * (e + 1) = m * e + m
      BY <1>1, <1>5, Z3
    <3> QED
      BY <3>2, <3>3
  <2>2. m * e \in Nat /\ m * q \in Nat
    BY <1>1, <1>2, <1>5, Z3
  <2> QED
    BY <1>1, <1>4, <2>1, <2>2
<1>7. m * a = DayLength * c + m * e
  <2>1. m * a = m * (q * c) + m * e
    BY <1>1, <1>2, <1>5, Z3
  <2>2. m * (q * c) = (m * q) * c
    BY <1>1, <1>2, <1>5, Z3
  <2> QED
    BY <1>2, <2>1, <2>2
<1>8. b * m + Shift \in Nat /\ b * m + Shift = DayLength * c + m * e
  <2>1. m * a \in Nat
    BY <1>1, <1>4, Z3
  <2> QED
    BY <1>4, <1>7, <2>1
<1>9. x + Shift \in Nat /\ x + Shift = DayLength * c + (m * e + r)
  <2>1. DayLength * c \in Nat
    BY <1>1, <1>5, Z3
  <2>2. x + Shift = (DayLength * c + m * e) + r
    BY <1>4, <1>7
  <2> QED
    BY <1>1, <1>4, <1>6, <2>1, <2>2
<1>10. m * e < DayLength /\ m * e + r < DayLength
  BY <1>2, <1>4, <1>6
<1>11. (b * m + Shift) \div DayLength = c
  <2> DEFINE y == b * m + Shift
  <2>1. y \in Nat /\ y = DayLength * c + m * e
    BY <1>8
  <2> HIDE DEF y
  <2>2. y \div DayLength = c
    BY <1>1, <1>5, <1>6, <1>10, <2>1, Quotient
  <2> QED
    BY <2>2 DEF y
<1>12. (x + Shift) \div DayLength = c
  BY <1>1, <1>5, <1>6, <1>9, <1>10, Quotient
<1> QED
  BY <1>11, <1>12 DEF b

(* Cutting a time to the minute leaves it in its day.                      *)
LEMMA SameDayCut ==
  ASSUME NEW x, NEW y \in Nat
  PROVE  SameTradingDay(x, (y \div Minute) * Minute) <=> SameTradingDay(x, y)
<1>1. ((y \div Minute) * Minute + Shift) \div DayLength = (y + Shift) \div DayLength
  BY CutInDay, PeriodAssumption, DayAssumption
<1> QED
  BY <1>1 DEF SameTradingDay

(* appendKBar adds its bar to the rows or nothing.                         *)
LEMMA StoreRows ==
  ASSUME NEW t \in TableType, NEW b \in BarType
  PROVE  LET u == Store(t, b) IN
         /\ u.rows = t.rows \/ u.rows = Append(t.rows, b)
         /\ \/ u.latest = t.latest /\ u.count = t.count
            \/ u.count = 0
  BY DEF Store, Fails, TableType

(* appendSubKBar stores only a bar with all its sub-bars, or one whose day *)
(* is over; after it the ghost field agrees with the count again.          *)
LEMMA AddSubShort ==
  ASSUME NEW t, WellFormed(t), Counted(t), NEW b \in BarType, SubPeriod # Period,
         NEW u, u = AddSub(t, b)
  PROVE  Counted(u) /\ Justified(t, u)
<1>1. /\ t \in TableType /\ t.count \in Nat /\ t.latest \in BarType
      /\ t.count < SubsPerBar /\ t.latest.parts \in Seq(PartType)
  BY TableNumbers DEF WellFormed, BarType
<1>2. CASE u = Fails(t)
  BY <1>1, <1>2 DEF Fails, TableType, Counted, Justified
<1>3. CASE u = CrossDay(t, b) /\ ~SameTradingDay(t.latest.time, b.time)
  <2> DEFINE closed == IF t.count > 0 THEN Store(t, t.latest) ELSE t
             o == Opened(b)
  <2>1. closed \in TableType /\ (closed.rows = t.rows \/ closed.rows = Append(t.rows, t.latest))
    <3>1. Store(t, t.latest) \in TableType
      BY <1>1, StoreTable DEF WellFormed
    <3>2. \/ Store(t, t.latest).rows = t.rows
          \/ Store(t, t.latest).rows = Append(t.rows, t.latest)
      BY <1>1, StoreRows
    <3> QED
      BY <1>1, <3>1, <3>2
  <2>2. u = [closed EXCEPT !.latest = o, !.count = 1]
    BY <1>3 DEF CrossDay
  <2>3. o.time = (b.time \div Minute) * Minute /\ Len(o.parts) = 1
    BY DEF Opened, BarType
  <2>4. ~SameTradingDay(t.latest.time, o.time)
    <3>1. b.time \in Nat
      BY DEF BarType
    <3> QED
      BY <1>3, <2>3, <3>1, SameDayCut
  <2> HIDE DEF closed, o
  <2>5. u.latest = o /\ u.count = 1 /\ u.rows = closed.rows
    BY <2>1, <2>2 DEF TableType
  <2> QED
    BY <1>1, <2>1, <2>3, <2>4, <2>5 DEF Counted, Justified
<1>4. CASE u = Accumulate(t, b) /\ u # Fails(t)
  <2> DEFINE k == IF t.count = 0 THEN Opened(b) ELSE Merged(t.latest, b)
             w == [t EXCEPT !.latest = k, !.count = t.count + 1]
  <2>1. k \in BarType /\ Len(k.parts) = t.count + 1
    <3>1. CASE t.count = 0
      <4>1. k = Opened(b) /\ Len(Opened(b).parts) = 1
        BY <3>1 DEF Opened, BarType
      <4> QED
        BY <3>1, <4>1, OpenedBar
    <3>2. CASE t.count # 0
      <4>1. k = Merged(t.latest, b) /\ Len(t.latest.parts) = t.count
        BY <1>1, <3>2 DEF Counted
      <4>2. Merged(t.latest, b).parts = Append(t.latest.parts, Part(b))
        BY <1>1 DEF Merged, BarType
      <4>3. Len(Append(t.latest.parts, Part(b))) = Len(t.latest.parts) + 1
        BY <1>1
      <4> QED
        BY <1>1, <4>1, <4>2, <4>3, MergedBar
    <3> QED
      BY <3>1, <3>2
  <2>2. u = IF w.count = SubsPerBar THEN [Store(w, k) EXCEPT !.count = 0] ELSE w
    BY <1>4 DEF Accumulate
  <2> HIDE DEF k
  <2>3. w \in TableType /\ w.latest = k /\ w.count = t.count + 1 /\ w.rows = t.rows
    <3>1. t.count + 1 \in Nat
      BY <1>1
    <3> QED
      BY <1>1, <2>1, <3>1 DEF TableType
  <2> HIDE DEF w
  <2>4. CASE w.count = SubsPerBar
    <3> DEFINE x == Store(w, k)
    <3>1. x \in TableType /\ (x.rows = t.rows \/ x.rows = Append(t.rows, k))
      <4>1. Len(w.rows) <= Cap
        BY <2>3 DEF WellFormed
      <4>2. x \in TableType
        BY <2>1, <2>3, <4>1, StoreTable
      <4>3. x.rows = w.rows \/ x.rows = Append(w.rows, k)
        BY <2>1, <2>3, StoreRows
      <4> QED
        BY <2>3, <4>2, <4>3
    <3>2. u = [x EXCEPT !.count = 0]
      BY <2>2, <2>4
    <3> HIDE DEF x
    <3>3. u.count = 0 /\ u.rows = x.rows
      BY <3>1, <3>2 DEF TableType
    <3> QED
      BY <2>1, <2>3, <2>4, <3>1, <3>3 DEF Counted, Justified
  <2>5. CASE w.count # SubsPerBar
    BY <2>1, <2>2, <2>3, <2>5 DEF Counted, Justified
  <2> QED
    BY <2>4, <2>5
<1> QED
  BY <1>2, <1>3, <1>4 DEF AddSub

(* An input that goes through the open sub-bar, or leaves it.              *)
LEMMA AddTickShort ==
  ASSUME NEW t, WellFormed(t), Counted(t), NEW b \in BarType, SubPeriod # Period,
         SubFit(t.sub), NEW u, u = AddTick(t, b)
  PROVE  Counted(u) /\ Justified(t, u)
<1>1. t \in TableType /\ t.sub \in BarType
  BY TableNumbers DEF WellFormed
<1>2. Flush(t) \in TableType
  BY FlushTable DEF TakesIn, WellFormed
<1>3. Counted(Flush(t)) /\ Justified(t, Flush(t))
  <2>1. CASE t.sub.set
    <3>1. Flush(t) = AddSub(t, t.sub)
      BY <2>1 DEF Flush
    <3> QED
      BY <1>1, <3>1, AddSubShort
  <2>2. CASE ~t.sub.set
    <3>1. Flush(t) = t
      BY <2>2 DEF Flush
    <3> QED
      BY <3>1 DEF Justified
  <2> QED
    BY <2>1, <2>2
<1>4. PICK v \in {t, Flush(t)} : \E s : u = [v EXCEPT !.sub = s]
  <2>1. \E s : u = [t EXCEPT !.sub = s] \/ u = [Flush(t) EXCEPT !.sub = s]
    BY DEF AddTick
  <2> QED
    BY <2>1
<1>5. u.rows = v.rows /\ u.latest = v.latest /\ u.count = v.count
  BY <1>1, <1>2, <1>4 DEF TableType
<1>6. Counted(v) /\ Justified(t, v)
  BY <1>3, <1>4 DEF Justified
<1> QED
  BY <1>5, <1>6 DEF Counted, Justified

(* A justified table satisfies what the property says of new rows.         *)
LEMMA NewRows ==
  ASSUME NEW t \in TableType, NEW u, Justified(t, u),
         NEW i \in Len(t.rows) + 1 .. Len(u.rows)
  PROVE  \/ Len(u.rows[i].parts) = SubsPerBar
         \/ u.count = 1 /\ ~SameTradingDay(u.rows[i].time, u.latest.time)
<1>1. t.rows \in Seq(BarType) /\ Len(t.rows) \in Nat
  BY DEF TableType
<1>2. PICK r \in BarType :
        /\ u.rows = Append(t.rows, r)
        /\ \/ Len(r.parts) = SubsPerBar
           \/ u.count = 1 /\ ~SameTradingDay(r.time, u.latest.time)
  BY <1>1 DEF Justified
<1>3. i = Len(t.rows) + 1 /\ u.rows[i] = r
  BY <1>1, <1>2
<1> QED
  BY <1>2, <1>3

LEMMA NextCounted ==
  ASSUME IInv, Counted(tab), [Next]_vars
  PROVE  /\ Counted(tab')
         /\ \A i \in Len(tab.rows) + 1 .. Len(tab'.rows) :
              LET n == Len(tab'.rows[i].parts)
              IN  (SubPeriod < Period /\ n > 0) =>
                    \/ n = SubsPerBar
                    \/ tab'.latest = NoBar
                    \/ /\ tab'.count = 1
                       /\ ~SameTradingDay(tab'.rows[i].time, tab'.latest.time)
<1>1. WellFormed(tab) /\ tab \in TableType /\ Len(tab.rows) \in Nat
      /\ SubFit(tab.sub)
  BY DEF IInv, WellFormed, TableType
<1>2. CASE SubPeriod = Period
  <2>1. ~(SubPeriod < Period)
    BY <1>2, PeriodAssumption
  <2> QED
    BY <1>2, <2>1 DEF Counted
<1>3. CASE SubPeriod # Period /\ Counted(tab') /\ Justified(tab, tab')
  BY <1>1, <1>3, NewRows
<1>4. CASE SubPeriod # Period /\ AppendTick
  <2>1. PICK k \in Ticks, d \in Steps :
          /\ tab' = AddTick(tab, TickBar(k, now + d)) \/ tab' = Fails(tab)
          /\ TickBar(k, now + d) \in BarType
    BY <1>4, Inputs DEF AppendTick, Call, IInv
  <2>2. CASE tab' = Fails(tab)
    BY <1>1, <1>3, <1>4, <2>2 DEF Fails, TableType, Counted, Justified
  <2> QED
    BY <1>1, <1>3, <1>4, <2>1, <2>2, AddTickShort
<1>5. CASE SubPeriod # Period /\ AppendSubKBar
  <2>1. PICK s \in SubBars, d \in Steps :
          tab' = AddSub(tab, InputBar(s, now + d)) /\ InputBar(s, now + d) \in BarType
    BY <1>5, Inputs DEF AppendSubKBar, Call, IInv
  <2> QED
    BY <1>1, <1>3, <1>5, <2>1, AddSubShort
<1>6. CASE SubPeriod # Period /\ AppendKBar
  <2>1. PICK s \in SubBars, d \in Steps :
          tab' = Direct(tab, InputBar(s, now + d)) /\ InputBar(s, now + d) \in BarType
    BY <1>6, Inputs DEF AppendKBar, Call, IInv
  <2> DEFINE b == InputBar(s, now + d)
             w == Store(tab, b)
  <2>2. Len(b.parts) = 0
    BY DEF InputBar
  <2>3. /\ w.rows = tab.rows \/ w.rows = Append(tab.rows, b)
        /\ (w.latest = tab.latest /\ w.count = tab.count) \/ w.count = 0
    BY <1>1, <2>1, StoreRows, StoreTable DEF WellFormed
  <2>4. tab'.rows = w.rows /\ tab'.count = w.count /\ tab'.latest = w.latest
    <3>1. w \in TableType
      BY <1>1, <2>1, StoreTable DEF WellFormed
    <3> QED
      BY <2>1, <3>1 DEF Direct, TableType
  <2> HIDE DEF b, w
  <2>5. Counted(tab')
    BY <1>1, <2>3, <2>4, TableNumbers DEF Counted
  <2>6. \A i \in Len(tab.rows) + 1 .. Len(tab'.rows) : Len(tab'.rows[i].parts) = 0
    <3>1. tab.rows \in Seq(BarType)
      BY <1>1 DEF TableType
    <3>2. CASE tab'.rows = tab.rows
      BY <1>1, <3>2
    <3>3. CASE tab'.rows = Append(tab.rows, b)
      <4>1. ASSUME NEW i \in Len(tab.rows) + 1 .. Len(tab'.rows) PROVE tab'.rows[i] = b
        BY <1>1, <3>1, <3>3
      <4> QED
        BY <2>2, <4>1
    <3> QED
      BY <2>3, <2>4, <3>2, <3>3
  <2> QED
    BY <2>5, <2>6
<1>7. CASE Finish
  <2>1. tab'.latest = NoBar /\ tab'.count = 0
    <3>1. PICK v : tab' = [v EXCEPT !.latest = NoBar, !.count = 0]
      BY <1>7 DEF Finish, Call, Finished
    <3>2. tab' \in TableType
      BY <1>1, <1>7, FinishedTable DEF Finish, Call, WellFormed
    <3> QED
      BY <3>1, <3>2 DEF TableType
  <2> QED
    BY <2>1 DEF Counted
<1>8. CASE UNCHANGED vars
  <2>1. tab' = tab
    BY <1>8 DEF vars
  <2> QED
    BY <1>1, <2>1
<1> QED
  BY <1>2, <1>4, <1>5, <1>6, <1>7, <1>8 DEF Next

(* For all periods and inputs a bar goes into the table short of sub-bars  *)
(* only because its trading day is over, the new bar's cut time included,  *)
(* or because of finish().                                                 *)
THEOREM ShortBarsDoEndADay == Spec => ShortBarsEndADay
<1>1. Init => Counted(tab)
  BY DEF Init, Counted
<1>2. IInv /\ Counted(tab) /\ [Next]_vars => Counted(tab)'
  BY NextCounted
<1>3. IInv /\ Counted(tab) /\ [Next]_vars =>
        [\A i \in Len(tab.rows) + 1 .. Len(tab'.rows) :
           LET n == Len(tab'.rows[i].parts)
           IN  (SubPeriod < Period /\ n > 0) =>
                 \/ n = SubsPerBar
                 \/ tab'.latest = NoBar
                 \/ /\ tab'.count = 1
                    /\ ~SameTradingDay(tab'.rows[i].time, tab'.latest.time)]_vars
  BY NextCounted
<1> QED
  BY <1>1, <1>2, <1>3, InitIInv, NextIInv, PTL DEF Spec, ShortBarsEndADay
-----------------------------------------------------------------------------
(* Sums of volumes.  VolumeOfParts is a fold, and the fold a recursive     *)
(* function on the sets of indices: it exists for every sequence, and by   *)
(* induction on the length one more part adds its volume.                  *)

(* A set that has 0, and n + 1 with every n, has every number.             *)
LEMMA Induction ==
  ASSUME NEW T, 0 \in T, \A n \in Nat : n \in T => n + 1 \in T
  PROVE  \A n \in Nat : n \in T
<1> SUFFICES ASSUME Nat \ T # {} PROVE FALSE
  OBVIOUS
<1>1. PICK x \in Nat \ T : \A y \in Nat \ T : <<y, x>> \notin OpToRel(<, Nat)
  BY NatLessThanWellFounded, WFMin
<1>2. ASSUME NEW y \in Nat, y < x PROVE <<y, x>> \in OpToRel(<, Nat)
  BY <1>2 DEF OpToRel
<1>3. x - 1 \in Nat /\ x - 1 < x /\ x - 1 + 1 = x
  <2>1. x # 0
    OBVIOUS
  <2> QED
    BY <2>1
<1>4. x - 1 \in T
  BY <1>1, <1>2, <1>3
<1> QED
  BY <1>3, <1>4

(* A set of numbers up to n that is not empty has a largest one.           *)
LEMMA Maximum ==
  ASSUME NEW n \in Nat, NEW s, s \subseteq 1..n, s # {}
  PROVE  Max(s) \in s /\ \A i \in s : Max(s) >= i
<1> DEFINE Has(m) == \A r \in SUBSET (1..m) : r # {} => \E x \in r : \A y \in r : x >= y
           T == {m \in Nat : Has(m)}
<1>1. Has(0)
  <2>1. 1..0 = {}
    OBVIOUS
  <2> QED
    BY <2>1
<1>2. ASSUME NEW m \in Nat, Has(m) PROVE Has(m + 1)
  <2> SUFFICES ASSUME NEW r \in SUBSET (1..m + 1), r # {}
               PROVE  \E x \in r : \A y \in r : x >= y
    OBVIOUS
  <2>1. CASE m + 1 \in r
    BY <2>1
  <2>2. CASE m + 1 \notin r
    <3>1. r \subseteq 1..m
      BY <2>2
    <3> QED
      BY <1>2, <3>1
  <2> QED
    BY <2>1, <2>2
<1>3. 0 \in T /\ \A m \in Nat : m \in T => m + 1 \in T
  BY <1>1, <1>2
<1> HIDE DEF Has, T
<1>4. n \in T
  BY <1>3, Induction
<1>5. \E x \in s : \A y \in s : x >= y
  BY <1>4 DEF Has, T
<1> QED
  BY <1>5 DEF Max

(* f is the function the fold computes for the first n parts of p.         *)
IsSum(f, p, n) ==
  f = [s \in SUBSET (1..n) |-> IF s = {} THEN 0 ELSE f[s \ {Max(s)}] + p[Max(s)].vol]

(* There is such a function.                                               *)
LEMMA SumExists ==
  ASSUME NEW n \in Nat, NEW p
  PROVE  \E f : IsSum(f, p, n)
<1> DEFINE T == {m \in Nat : \E f : IsSum(f, p, m)}
<1>1. 0 \in T
  <2> DEFINE f == [s \in {{}} |-> 0]
  <2>1. SUBSET (1..0) = {{}}
    OBVIOUS
  <2>2. IsSum(f, p, 0)
    BY <2>1 DEF IsSum
  <2> QED
    BY <2>2
<1>2. ASSUME NEW m \in Nat, m \in T PROVE m + 1 \in T
  <2>1. PICK f : IsSum(f, p, m)
    BY <1>2
  <2> DEFINE D == SUBSET (1..m + 1)
             g == [s \in D |-> IF m + 1 \in s THEN f[s \ {m + 1}] + p[m + 1].vol ELSE f[s]]
             h == [s \in D |-> IF s = {} THEN 0 ELSE g[s \ {Max(s)}] + p[Max(s)].vol]
  <2>2. ASSUME NEW s \in D PROVE g[s] = h[s]
    <3>1. CASE m + 1 \in s
      <4>1. Max(s) = m + 1
        <5>1. m + 1 \in Nat /\ s \subseteq 1..m + 1 /\ s # {}
          BY <3>1
        <5>2. Max(s) \in s /\ \A i \in s : Max(s) >= i
          BY <5>1, Maximum
        <5>3. Max(s) \in 1..m + 1
          BY <5>2
        <5> HIDE DEF g, h
        <5> QED
          BY <3>1, <5>2, <5>3
      <4>2. s \ {m + 1} \in D /\ m + 1 \notin s \ {m + 1}
        OBVIOUS
      <4> QED
        BY <3>1, <4>1, <4>2
    <3>2. CASE m + 1 \notin s /\ s # {}
      <4>1. s \in SUBSET (1..m)
        BY <3>2
      <4>2. Max(s) \in s
        BY <3>2, <4>1, Maximum
      <4>3. f[s] = f[s \ {Max(s)}] + p[Max(s)].vol
        BY <2>1, <3>2, <4>1 DEF IsSum
      <4>4. s \ {Max(s)} \in D /\ m + 1 \notin s \ {Max(s)}
        BY <3>2
      <4> QED
        BY <3>2, <4>3, <4>4
    <3>3. CASE s = {}
      <4>1. f[{}] = 0
        BY <2>1 DEF IsSum
      <4> QED
        BY <3>3, <4>1
    <3> QED
      BY <3>1, <3>2, <3>3
  <2>3. g = h
    BY <2>2
  <2>4. IsSum(g, p, m + 1)
    BY <2>3 DEF IsSum
  <2> QED
    BY <2>4
<1> HIDE DEF T
<1>3. n \in T
  BY <1>1, <1>2, Induction
<1> QED
  BY <1>3 DEF T

(* The fold is such a function's value for all indices.                    *)
LEMMA VolumeIsSum ==
  ASSUME NEW p \in Seq(PartType)
  PROVE  \E f : IsSum(f, p, Len(p)) /\ VolumeOfParts(p) = f[1..Len(p)]
<1>1. \E f : IsSum(f, p, Len(p))
  BY SumExists
<1>2. DOMAIN p = 1..Len(p)
  OBVIOUS
<1> DEFINE f == CHOOSE f : IsSum(f, p, Len(p))
<1>3. IsSum(f, p, Len(p))
  BY <1>1
<1>4. VolumeOfParts(p) = f[1..Len(p)]
  BY <1>2 DEF VolumeOfParts, FoldLeft, MapThenFoldSet, IsSum
<1> QED
  BY <1>3, <1>4

(* Its values for the first indices are the running sums.                  *)
LEMMA SumSteps ==
  ASSUME NEW f, NEW n \in Nat, NEW p, IsSum(f, p, n)
  PROVE  /\ f[1..0] = 0
         /\ \A k \in 0..n - 1 : f[1..k + 1] = f[1..k] + p[k + 1].vol
<1>1. 1..0 = {} /\ f[{}] = 0
  BY DEF IsSum
<1>2. ASSUME NEW k \in 0..n - 1 PROVE f[1..k + 1] = f[1..k] + p[k + 1].vol
  <2> DEFINE s == 1..k + 1
  <2>1. s # {} /\ s \in SUBSET (1..n)
    OBVIOUS
  <2>2. Max(s) = k + 1
    BY <2>1 DEF Max
  <2>3. s \ {k + 1} = 1..k
    OBVIOUS
  <2> HIDE DEF s
  <2>4. f[s] = f[s \ {Max(s)}] + p[Max(s)].vol
    BY <2>1 DEF IsSum
  <2> QED
    BY <2>2, <2>3, <2>4 DEF s
<1> QED
  BY <1>1, <1>2

(* No parts have no volume, and one more part adds its own.                *)
LEMMA VolumeOfNoParts == VolumeOfParts(<<>>) = 0
<1>1. <<>> \in Seq(PartType) /\ Len(<<>>) = 0
  OBVIOUS
<1>2. PICK f : IsSum(f, <<>>, 0) /\ VolumeOfParts(<<>>) = f[1..0]
  BY <1>1, VolumeIsSum
<1> QED
  BY <1>2, SumSteps

LEMMA VolumeOfOneMore ==
  ASSUME NEW p \in Seq(PartType), NEW e \in PartType
  PROVE  VolumeOfParts(Append(p, e)) = VolumeOfParts(p) + e.vol
<1> DEFINE r == Append(p, e)
           n == Len(p)
<1>1. /\ r \in Seq(PartType) /\ Len(r) = n + 1 /\ n \in Nat
      /\ \A i \in 1..n : p[i] = r[i]
      /\ r[n + 1] = e
  OBVIOUS
<1> HIDE DEF r
<1>2. PICK f : IsSum(f, p, n) /\ VolumeOfParts(p) = f[1..n]
  BY VolumeIsSum
<1>3. PICK g : IsSum(g, r, Len(r)) /\ VolumeOfParts(r) = g[1..Len(r)]
  BY <1>1, VolumeIsSum
<1>4. f[1..n] = g[1..n]
  <2> DEFINE T == {k \in Nat : k <= n => f[1..k] = g[1..k]}
  <2>1. 0 \in T
    BY <1>1, <1>2, <1>3, SumSteps
  <2>2. ASSUME NEW k \in Nat, k \in T PROVE k + 1 \in T
    <3> SUFFICES ASSUME k + 1 <= n PROVE f[1..k + 1] = g[1..k + 1]
      OBVIOUS
    <3>1. k \in 0..n - 1 /\ k \in 0..Len(r) - 1 /\ k + 1 \in 1..n /\ Len(r) \in Nat
      BY <1>1
    <3>2. f[1..k + 1] = f[1..k] + p[k + 1].vol
      BY <1>1, <1>2, <3>1, SumSteps
    <3>3. g[1..k + 1] = g[1..k] + r[k + 1].vol
      BY <1>3, <3>1, SumSteps
    <3> QED
      BY <1>1, <2>2, <3>1, <3>2, <3>3
  <2> HIDE DEF T
  <2>3. n \in T
    BY <1>1, <2>1, <2>2, Induction
  <2> QED
    BY <1>1, <2>3 DEF T
<1>5. g[1..n + 1] = g[1..n] + e.vol
  <2>1. n \in 0..Len(r) - 1 /\ Len(r) \in Nat
    BY <1>1
  <2> QED
    BY <1>1, <1>3, <2>1, SumSteps
<1> QED
  BY <1>1, <1>2, <1>3, <1>4, <1>5 DEF r
-----------------------------------------------------------------------------
(* Bars are aggregates.  The prices and the volume are those of the parts  *)
(* whatever the periods are; that all parts are of one trading day takes   *)
(* sub-periods that do not reach across the start of a day, which the      *)
(* CHECKs of the constructor do not ask for.                               *)
SubPeriodInDay == DayLength % SubPeriod = 0 /\ Shift % SubPeriod = 0

OneDay(b) == \A i \in DOMAIN b.parts : SameTradingDay(b.time, b.parts[i].time)

Sound(b) == IsAggregate(b) /\ (SubPeriodInDay => OneDay(b))

(* Every bar of the table is sound, and the ones under construction have   *)
(* been given a part.                                                      *)
AllSound(t) ==
  /\ \A i \in DOMAIN t.rows : Sound(t.rows[i])
  /\ Sound(t.latest) /\ Sound(t.sub)
  /\ t.count > 0 => t.latest.parts # <<>>
  /\ t.sub.set => t.sub.parts # <<>>

(* A bar nothing was folded into.                                          *)
LEMMA NoPartsSound ==
  ASSUME NEW b, b.parts = <<>>
  PROVE  Sound(b)
<1>1. DOMAIN b.parts = {}
  OBVIOUS
<1> QED
  BY <1>1 DEF Sound, IsAggregate, OneDay

(* A bar with one part, from which it differs by its time at most, which   *)
(* is cut to a multiple of m.                                              *)
LEMMA OnePartSound ==
  ASSUME NEW b \in BarType, NEW m \in Nat \ {0}, NEW o \in BarType,
         o.parts = <<Part(b)>>, o.time = (b.time \div m) * m,
         o.open = b.open, o.high = b.high, o.low = b.low, o.close = b.close,
         o.vol = b.vol,
         SubPeriodInDay => DayLength % m = 0 /\ Shift % m = 0
  PROVE  Sound(o) /\ o.parts # <<>>
<1>1. Part(b) \in PartType /\ <<>> \in Seq(PartType)
  BY DEF Part, PartType, BarType
<1>2. /\ Len(o.parts) = 1 /\ DOMAIN o.parts = {1} /\ o.parts[1] = Part(b)
      /\ o.parts = Append(<<>>, Part(b)) /\ o.parts # <<>>
  OBVIOUS
<1>3. VolumeOfParts(o.parts) = 0 + Part(b).vol
  BY <1>1, <1>2, VolumeOfNoParts, VolumeOfOneMore
<1>4. IsAggregate(o)
  <2>1. /\ b.vol \in Int /\ b.high \in Price /\ b.low \in Price
        /\ Part(b).open = b.open /\ Part(b).high = b.high /\ Part(b).low = b.low
        /\ Part(b).close = b.close /\ Part(b).vol = b.vol
    BY DEF Part, BarType
  <2>2. CASE NaN \in {b.high, b.low}
    BY <1>2, <1>3, <2>1, <2>2 DEF IsAggregate
  <2>3. CASE NaN \notin {b.high, b.low}
    <3>1. b.high \in Int /\ b.low \in Int
      BY <2>1, <2>3 DEF Price
    <3> QED
      BY <1>2, <1>3, <2>1, <3>1 DEF IsAggregate
  <2> QED
    BY <2>2, <2>3
<1>5. SubPeriodInDay => OneDay(o)
  <2>1. b.time \in Nat /\ Part(b).time = b.time
    BY DEF Part, BarType
  <2>2. SubPeriodInDay => (o.time + Shift) \div DayLength = (b.time + Shift) \div DayLength
    BY <2>1, CutInDay
  <2> QED
    BY <1>2, <2>1, <2>2 DEF OneDay, SameTradingDay
<1> QED
  BY <1>2, <1>4, <1>5 DEF Sound

LEMMA OpenedSound ==
  ASSUME NEW b \in BarType
  PROVE  Sound(Opened(b)) /\ Opened(b).parts # <<>>
<1> DEFINE o == Opened(b)
<1>1. /\ o \in BarType /\ o.parts = <<Part(b)>> /\ o.time = (b.time \div Minute) * Minute
      /\ o.open = b.open /\ o.high = b.high /\ o.low = b.low /\ o.close = b.close
      /\ o.vol = b.vol
  BY OpenedBar DEF Opened, BarType
<1> HIDE DEF o
<1>2. Sound(o) /\ o.parts # <<>>
  BY <1>1, OnePartSound, PeriodAssumption, DayAssumption
<1> QED
  BY <1>2 DEF o

(* A bar with one more part, of its day.                                   *)
LEMMA MergedSound ==
  ASSUME NEW k \in BarType, NEW b \in BarType, Sound(k), k.parts # <<>>,
         SubPeriodInDay => SameTradingDay(k.time, b.time)
  PROVE  Sound(Merged(k, b)) /\ Merged(k, b).parts # <<>>
<1> DEFINE r == Merged(k, b)
           p == k.parts
           e == Part(b)
           n == Len(p)
<1>1. /\ p \in Seq(PartType) /\ e \in PartType /\ e.time = b.time /\ e.vol = b.vol
      /\ e.high = b.high /\ e.low = b.low /\ e.close = b.close
      /\ b.high \in Price /\ b.low \in Price /\ k.high \in Price /\ k.low \in Price
  BY DEF Part, PartType, BarType
<1>2. /\ r.parts = Append(p, e) /\ r.open = k.open /\ r.close = b.close
      /\ r.time = k.time /\ r.vol = k.vol + b.vol
      /\ r.high = Larger(b.high, k.high) /\ r.low = Smaller(b.low, k.low)
  BY DEF Merged, BarType
<1>3. /\ n \in Nat /\ n > 0 /\ DOMAIN p = 1..n /\ DOMAIN Append(p, e) = 1..n + 1
      /\ Len(Append(p, e)) = n + 1 /\ Append(p, e) # <<>>
      /\ \A i \in 1..n : Append(p, e)[i] = p[i]
      /\ Append(p, e)[n + 1] = e
  BY <1>1
<1> DEFINE q == Append(p, e)
<1>4. VolumeOfParts(q) = VolumeOfParts(p) + b.vol
  BY <1>1, VolumeOfOneMore
<1> DEFINE Numbers == \A i \in 1..n + 1 : NaN \notin {q[i].high, q[i].low}
<1>5. /\ k.open = p[1].open /\ k.vol = VolumeOfParts(p)
      /\ Numbers =>
           /\ k.high \in {p[i].high : i \in 1..n} /\ \A i \in 1..n : k.high >= p[i].high
           /\ k.low \in {p[i].low : i \in 1..n} /\ \A i \in 1..n : k.low <= p[i].low
  <2>1. IsAggregate(k)
    BY DEF Sound
  <2>2. k.open = p[1].open /\ k.vol = VolumeOfParts(p)
    BY <2>1 DEF IsAggregate
  <2>3. ASSUME Numbers PROVE ~\E i \in 1..n : NaN \in {p[i].high, p[i].low}
    <3>1. ASSUME NEW i \in 1..n PROVE NaN \notin {p[i].high, p[i].low}
      <4>1. i \in 1..n + 1 /\ q[i] = p[i]
        BY <1>3, <3>1
      <4> QED
        BY <2>3, <4>1
    <3> QED
      BY <3>1
  <2>4. ASSUME Numbers
        PROVE  /\ k.high \in {p[i].high : i \in 1..n} /\ \A i \in 1..n : k.high >= p[i].high
               /\ k.low \in {p[i].low : i \in 1..n} /\ \A i \in 1..n : k.low <= p[i].low
    <3>1. DOMAIN k.parts = 1..n /\ p = k.parts /\ k.parts # <<>>
      BY <1>3
    <3>2. ~\E i \in 1..n : NaN \in {p[i].high, p[i].low}
      BY <2>3, <2>4
    <3> HIDE DEF p, n, Numbers
    <3> QED
      BY <2>1, <3>1, <3>2 DEF IsAggregate
  <2> QED
    BY <2>2, <2>4
<1>6. Numbers => /\ \A i \in 1..n : p[i].high \in Int /\ p[i].low \in Int
                 /\ k.high \in Int /\ k.low \in Int /\ e.high \in Int /\ e.low \in Int
  <2> SUFFICES ASSUME Numbers
               PROVE  /\ \A i \in 1..n : p[i].high \in Int /\ p[i].low \in Int
                      /\ k.high \in Int /\ k.low \in Int /\ e.high \in Int /\ e.low \in Int
    OBVIOUS
  <2>1. ASSUME NEW i \in 1..n PROVE p[i].high \in Int /\ p[i].low \in Int
    <3>1. p[i] \in PartType
      BY <1>1, <1>3
    <3>2. NaN \notin {p[i].high, p[i].low}
      BY <1>3
    <3> QED
      BY <3>1, <3>2 DEF PartType, Price
  <2>2. NaN \notin {e.high, e.low}
    BY <1>3
  <2> QED
    BY <1>1, <1>5, <2>1, <2>2 DEF Price
<1>10. /\ n + 1 \in 1..n + 1 /\ q[n + 1] = e /\ 1 \in 1..n
       /\ \A i \in 1..n : i \in 1..n + 1 /\ q[i] = p[i]
       /\ \A i \in 1..n + 1 : i \in 1..n \/ i = n + 1
  BY <1>3
<1> HIDE DEF r, q, n, e, p, Numbers
<1>7. ASSUME Numbers
      PROVE  r.high \in {q[i].high : i \in 1..n + 1} /\ \A i \in 1..n + 1 : r.high >= q[i].high
  <2>1. /\ r.high = k.high \/ r.high = e.high
        /\ r.high >= k.high /\ r.high >= e.high /\ r.high \in Int
    <3>1. k.high # NaN /\ e.high # NaN
      BY <1>6, <1>7, NaNAssumption
    <3> QED
      BY <1>1, <1>2, <1>6, <1>7, <3>1 DEF Larger, Less
  <2>2. r.high \in {q[i].high : i \in 1..n + 1}
    BY <1>5, <1>7, <1>10, <2>1
  <2>3. ASSUME NEW i \in 1..n + 1 PROVE r.high >= q[i].high
    <3>1. CASE i \in 1..n
      <4>1. k.high >= p[i].high /\ p[i].high \in Int /\ q[i] = p[i] /\ k.high \in Int
        BY <1>5, <1>6, <1>7, <1>10, <3>1
      <4> QED
        BY <2>1, <4>1
    <3>2. CASE i = n + 1
      BY <1>10, <2>1, <3>2
    <3> QED
      BY <1>10, <3>1, <3>2
  <2> QED
    BY <2>2, <2>3
<1>8. ASSUME Numbers
      PROVE  r.low \in {q[i].low : i \in 1..n + 1} /\ \A i \in 1..n + 1 : r.low <= q[i].low
  <2>1. /\ r.low = k.low \/ r.low = e.low
        /\ r.low <= k.low /\ r.low <= e.low /\ r.low \in Int
    <3>1. k.low # NaN /\ e.low # NaN
      BY <1>6, <1>8, NaNAssumption
    <3> QED
      BY <1>1, <1>2, <1>6, <1>8, <3>1 DEF Smaller, Less
  <2>2. r.low \in {q[i].low : i \in 1..n + 1}
    BY <1>5, <1>8, <1>10, <2>1
  <2>3. ASSUME NEW i \in 1..n + 1 PROVE r.low <= q[i].low
    <3>1. CASE i \in 1..n
      <4>1. k.low <= p[i].low /\ p[i].low \in Int /\ q[i] = p[i] /\ k.low \in Int
        BY <1>5, <1>6, <1>8, <1>10, <3>1
      <4> QED
        BY <2>1, <4>1
    <3>2. CASE i = n + 1
      BY <1>10, <2>1, <3>2
    <3> QED
      BY <1>10, <3>1, <3>2
  <2> QED
    BY <2>2, <2>3
<1>9. r.parts = q /\ DOMAIN q = 1..n + 1 /\ Len(q) = n + 1 /\ q # <<>>
  BY <1>2, <1>3 DEF q
<1>11. IsAggregate(r)
  <2>1. /\ r.open = q[1].open /\ r.close = q[Len(q)].close /\ r.vol = VolumeOfParts(q)
    BY <1>1, <1>2, <1>4, <1>5, <1>9, <1>10
  <2>2. CASE Numbers
    BY <1>7, <1>8, <1>9, <2>1, <2>2 DEF IsAggregate
  <2>3. CASE ~Numbers
    <3>1. \E i \in DOMAIN q : NaN \in {q[i].high, q[i].low}
      BY <1>9, <2>3 DEF Numbers
    <3> QED
      BY <1>9, <2>1, <3>1 DEF IsAggregate
  <2> QED
    BY <2>2, <2>3
<1>12. SubPeriodInDay => OneDay(r)
  <2> SUFFICES ASSUME SubPeriodInDay, NEW i \in 1..n + 1
               PROVE  SameTradingDay(k.time, q[i].time)
    BY <1>2, <1>9 DEF OneDay
  <2>1. \A j \in 1..n : SameTradingDay(k.time, p[j].time)
    BY <1>3 DEF Sound, OneDay, p
  <2> QED
    BY <1>1, <1>10, <2>1
<1> QED
  BY <1>9, <1>11, <1>12 DEF Sound, r
(* Another bar under construction, or a count of 0.                        *)
LEMMA WithLatestSound ==
  ASSUME NEW t \in TableType, AllSound(t), NEW k \in BarType, Sound(k), NEW c \in Nat,
         c > 0 => k.parts # <<>>, NEW u, u = [t EXCEPT !.latest = k, !.count = c]
  PROVE  AllSound(u)
<1>1. u.latest = k /\ u.count = c /\ u.rows = t.rows /\ u.sub = t.sub
  BY DEF TableType
<1> QED
  BY <1>1 DEF AllSound

(* appendKBar keeps the bars sound if its bar is.                          *)
LEMMA StoreSound ==
  ASSUME NEW t \in TableType, AllSound(t), NEW b \in BarType, Sound(b)
  PROVE  AllSound(Store(t, b))
<1> DEFINE u == Store(t, b)
<1>1. t.rows \in Seq(BarType) /\ t.count \in Nat
  BY DEF TableType
<1>2. \/ u.rows = t.rows /\ u.latest = t.latest /\ u.count = t.count /\ u.sub = t.sub
      \/ u.rows = Append(t.rows, b) /\ u.latest = b /\ u.count = 0 /\ u.sub = t.sub
  BY DEF Store, Fails, TableType
<1> HIDE DEF u
<1>3. ASSUME u.rows = Append(t.rows, b), u.latest = b, u.count = 0, u.sub = t.sub
      PROVE  AllSound(u)
  <2>1. \A i \in DOMAIN Append(t.rows, b) :
          \/ i \in DOMAIN t.rows /\ Append(t.rows, b)[i] = t.rows[i]
          \/ Append(t.rows, b)[i] = b
    BY <1>1
  <2>2. \A i \in DOMAIN u.rows : Sound(u.rows[i])
    BY <1>3, <2>1 DEF AllSound
  <2>3. Sound(u.latest) /\ Sound(u.sub) /\ (u.sub.set => u.sub.parts # <<>>)
    BY <1>3 DEF AllSound
  <2>4. ~(u.count > 0)
    BY <1>3
  <2> QED
    BY <2>2, <2>3, <2>4 DEF AllSound
<1>4. ASSUME u.rows = t.rows, u.latest = t.latest, u.count = t.count, u.sub = t.sub
      PROVE  AllSound(u)
  BY <1>4 DEF AllSound
<1> QED
  BY <1>2, <1>3, <1>4 DEF u

(* appendSubKBar does.                                                     *)
LEMMA AddSubSound ==
  ASSUME NEW t, WellFormed(t), AllSound(t), NEW b \in BarType, Sound(b)
  PROVE  AllSound(AddSub(t, b))
<1> DEFINE u == AddSub(t, b)
<1>1. /\ t \in TableType /\ t.count \in Nat /\ t.latest \in BarType /\ Len(t.rows) <= Cap
  BY TableNumbers DEF WellFormed
<1>2. AllSound(Fails(t))
  BY <1>1 DEF Fails, TableType, AllSound
<1>3. AllSound(Store(t, b))
  BY <1>1, StoreSound
<1>4. AllSound(CrossDay(t, b))
  <2> DEFINE closed == IF t.count > 0 THEN Store(t, t.latest) ELSE t
             r == CrossDay(t, b)
  <2>1. closed \in TableType /\ AllSound(closed)
    BY <1>1, StoreTable, StoreSound DEF AllSound
  <2>2. r = [closed EXCEPT !.latest = Opened(b), !.count = 1]
    BY DEF CrossDay
  <2> HIDE DEF closed, r
  <2>3. AllSound(r)
    BY <2>1, <2>2, OpenedBar, OpenedSound, WithLatestSound
  <2> QED
    BY <2>3 DEF r
<1>5. ASSUME SameTradingDay(t.latest.time, b.time) PROVE AllSound(Accumulate(t, b))
  <2> DEFINE k == IF t.count = 0 THEN Opened(b) ELSE Merged(t.latest, b)
             w == [t EXCEPT !.latest = k, !.count = t.count + 1]
             x == Store(w, k)
             r == Accumulate(t, b)
  <2>1. k \in BarType /\ Sound(k) /\ k.parts # <<>>
    <3>1. CASE t.count = 0
      BY <3>1, OpenedBar, OpenedSound
    <3>2. CASE t.count # 0
      <4>1. Sound(t.latest) /\ t.latest.parts # <<>>
        BY <1>1, <3>2 DEF AllSound
      <4> QED
        BY <1>1, <1>5, <3>2, <4>1, MergedBar, MergedSound
    <3> QED
      BY <3>1, <3>2
  <2> HIDE DEF k
  <2>2. w \in TableType /\ AllSound(w) /\ w.rows = t.rows
    <3>1. t.count + 1 \in Nat
      BY <1>1
    <3>2. w \in TableType /\ w.rows = t.rows
      BY <1>1, <2>1, <3>1 DEF TableType
    <3> QED
      BY <1>1, <2>1, <3>1, <3>2, WithLatestSound
  <2>3. r = Fails(t) \/ r = [x EXCEPT !.count = 0] \/ r = w
    BY DEF Accumulate, k
  <2> HIDE DEF w
  <2>4. x \in TableType /\ AllSound(x)
    BY <1>1, <2>1, <2>2, StoreTable, StoreSound
  <2> HIDE DEF x
  <2>5. AllSound([x EXCEPT !.count = 0])
    BY <2>4 DEF TableType, AllSound
  <2> QED
    BY <1>2, <2>2, <2>3, <2>5
<1> QED
  BY <1>2, <1>3, <1>4, <1>5 DEF AddSub

(* The open sub-bar is one of the sound bars.                              *)
LEMMA FlushSound ==
  ASSUME NEW t, WellFormed(t), AllSound(t)
  PROVE  AllSound(Flush(t))
<1>1. t.sub \in BarType
  BY TableNumbers DEF WellFormed
<1> QED
  BY <1>1, AddSubSound DEF Flush, AllSound

(* Another open sub-bar.                                                   *)
LEMMA WithSubSound ==
  ASSUME NEW t \in TableType, AllSound(t), NEW b, Sound(b), b.set => b.parts # <<>>,
         NEW u, u = [t EXCEPT !.sub = b]
  PROVE  AllSound(u)
<1>1. u.latest = t.latest /\ u.count = t.count /\ u.rows = t.rows /\ u.sub = b
  BY DEF TableType
<1> QED
  BY <1>1 DEF AllSound

(* Times of one sub-period are of one day if sub-periods are within days.  *)
LEMMA SameSubPeriod ==
  ASSUME NEW x \in Nat, NEW y \in Nat, x \div SubPeriod = y \div SubPeriod, SubPeriodInDay
  PROVE  SameTradingDay(x, y)
<1>1. (x + Shift) \div DayLength = (y + Shift) \div DayLength
  <2>1. ((x \div SubPeriod) * SubPeriod + Shift) \div DayLength = (x + Shift) \div DayLength
    BY CutInDay, PeriodAssumption DEF SubPeriodInDay
  <2>2. ((y \div SubPeriod) * SubPeriod + Shift) \div DayLength = (y + Shift) \div DayLength
    BY CutInDay, PeriodAssumption DEF SubPeriodInDay
  <2> QED
    BY <2>1, <2>2
<1> QED
  BY <1>1 DEF SameTradingDay

(* appendTick: a tick of the open sub-bar's period is of its day, and a    *)
(* new sub-bar starts with the tick alone.                                 *)
LEMMA AddTickSound ==
  ASSUME NEW t, WellFormed(t), AllSound(t), SubFit(t.sub),
         NEW b \in BarType, b.time >= SubPeriod
  PROVE  AllSound(AddTick(t, b))
<1> DEFINE u == AddTick(t, b)
           start == [b EXCEPT !.time = (b.time \div SubPeriod) * SubPeriod,
                              !.parts = <<Part(b)>>]
<1>1. /\ t \in TableType /\ t.sub \in BarType /\ b.time \in Nat /\ t.sub.time \in Nat
  BY TableNumbers DEF WellFormed, BarType
<1>2. CASE b.time \div SubPeriod = t.sub.time \div SubPeriod
  <2>1. t.sub.set
    <3>1. b.time \div SubPeriod # 0 \div SubPeriod
      BY <1>1, NotPeriodZero, PeriodAssumption
    <3>2. t.sub # NoBar
      BY <1>2, <3>1 DEF NoBar
    <3> QED
      BY <3>2 DEF SubFit
  <2>2. u = [t EXCEPT !.sub = Merged(t.sub, b)]
    BY <1>2 DEF AddTick
  <2>3. SubPeriodInDay => SameTradingDay(t.sub.time, b.time)
    BY <1>1, <1>2, SameSubPeriod
  <2>4. Sound(Merged(t.sub, b)) /\ Merged(t.sub, b).parts # <<>>
    BY <1>1, <2>1, <2>3, MergedSound DEF AllSound
  <2> HIDE DEF u
  <2>5. AllSound(u)
    BY <1>1, <2>2, <2>4, WithSubSound
  <2> QED
    BY <2>5 DEF u
<1>3. CASE b.time \div SubPeriod # t.sub.time \div SubPeriod
  <2>1. u = [Flush(t) EXCEPT !.sub = start]
    BY <1>3 DEF AddTick
  <2>2. Sound(start) /\ start.parts # <<>>
    <3>1. (b.time \div SubPeriod) * SubPeriod \in Nat
      BY CutTime, PeriodAssumption DEF BarType
    <3>2. <<Part(b)>> \in Seq(PartType)
      BY DEF Part, PartType, BarType
    <3>3. /\ start \in BarType /\ start.parts = <<Part(b)>>
          /\ start.time = (b.time \div SubPeriod) * SubPeriod
          /\ start.open = b.open /\ start.high = b.high /\ start.low = b.low
          /\ start.close = b.close /\ start.vol = b.vol
      BY <3>1, <3>2 DEF BarType
    <3> HIDE DEF start
    <3> QED
      BY <3>3, OnePartSound, PeriodAssumption DEF SubPeriodInDay
  <2> HIDE DEF u, start
  <2>3. Flush(t) \in TableType /\ AllSound(Flush(t))
    BY FlushTable, FlushSound DEF TakesIn, WellFormed
  <2>4. AllSound(u)
    BY <2>1, <2>2, <2>3, WithSubSound
  <2> QED
    BY <2>4 DEF u
<1> QED
  BY <1>2, <1>3

(* finish() stores the open bars and clears both.                          *)
LEMMA FinishedSound ==
  ASSUME NEW t, WellFormed(t), AllSound(t), SubFit(t.sub)
  PROVE  AllSound(Finished(t))
<1> DEFINE u == [Flush(t) EXCEPT !.sub = NoBar]
           v == IF u.ok /\ u.latest.set /\ u.count # 0 THEN Store(u, u.latest) ELSE u
           r == Finished(t)
<1>1. NoBar \in BarType /\ ~NoBar.set /\ Sound(NoBar)
  <2>1. NoBar.parts = <<>>
    BY DEF NoBar
  <2> QED
    BY <2>1, NoBarIsBar, NoPartsSound
<1>2. r = [v EXCEPT !.latest = NoBar, !.count = 0]
  BY DEF Finished
<1>3. Flush(t) \in TableType /\ Len(Flush(t).rows) <= Cap /\ AllSound(Flush(t))
  BY FlushTable, FlushSound DEF TakesIn, WellFormed
<1>4. u \in TableType /\ Len(u.rows) <= Cap /\ AllSound(u)
  <2>1. u \in TableType /\ u.rows = Flush(t).rows
    BY <1>1, <1>3 DEF TableType
  <2>2. AllSound(u)
    <3> HIDE DEF u
    <3>1. u = [Flush(t) EXCEPT !.sub = NoBar]
      BY DEF u
    <3> QED
      BY <1>1, <1>3, <3>1, WithSubSound
  <2> QED
    BY <1>3, <2>1, <2>2
<1> HIDE DEF u
<1>5. v \in TableType /\ AllSound(v)
  <2>1. u.latest \in BarType /\ Sound(u.latest)
    BY <1>4 DEF TableType, AllSound
  <2> QED
    BY <1>4, <2>1, StoreTable, StoreSound
<1> HIDE DEF v, r
<1>6. AllSound(r)
  <2>1. 0 \in Nat /\ ~(0 > 0)
    OBVIOUS
  <2> QED
    BY <1>1, <1>2, <1>5, <2>1, WithLatestSound
<1> QED
  BY <1>6 DEF r

(* Every call keeps all bars sound.                                        *)
LEMMA NextSound ==
  ASSUME IInv, AllSound(tab), [Next]_vars
  PROVE  AllSound(tab')
<1>1. WellFormed(tab) /\ tab \in TableType /\ SubFit(tab.sub)
  BY DEF IInv, WellFormed
<1>2. CASE AppendTick
  <2>1. PICK k \in Ticks, d \in Steps :
          tab' = AddTick(tab, TickBar(k, now + d)) \/ tab' = Fails(tab)
    BY <1>2 DEF AppendTick, Call
  <2>2. TickBar(k, now + d) \in BarType /\ TickBar(k, now + d).time >= SubPeriod
    BY Inputs DEF IInv
  <2>3. AllSound(Fails(tab))
    BY <1>1 DEF Fails, TableType, AllSound
  <2> QED
    BY <1>1, <2>1, <2>2, <2>3, AddTickSound
<1>3. CASE AppendSubKBar
  <2>1. PICK s \in SubBars, d \in Steps : tab' = AddSub(tab, InputBar(s, now + d))
    BY <1>3 DEF AppendSubKBar, Call
  <2>2. InputBar(s, now + d) \in BarType /\ Sound(InputBar(s, now + d))
    <3>1. InputBar(s, now + d).parts = <<>>
      BY DEF InputBar
    <3> QED
      BY <3>1, Inputs, NoPartsSound DEF IInv
  <2> QED
    BY <1>1, <2>1, <2>2, AddSubSound
<1>4. CASE AppendKBar
  <2>1. PICK s \in SubBars, d \in Steps : tab' = Direct(tab, InputBar(s, now + d))
    BY <1>4 DEF AppendKBar, Call
  <2> DEFINE b == InputBar(s, now + d)
             w == Store(tab, b)
  <2>2. b \in BarType /\ Sound(b)
    <3>1. b.parts = <<>>
      BY DEF InputBar
    <3> QED
      BY <3>1, Inputs, NoPartsSound DEF IInv
  <2>3. w \in TableType /\ AllSound(w)
    BY <1>1, <2>2, StoreTable, StoreSound DEF WellFormed
  <2>4. \E x : tab' = [w EXCEPT !.discarded = x]
    BY <2>1 DEF Direct
  <2> HIDE DEF b, w
  <2> QED
    BY <2>3, <2>4 DEF TableType, AllSound
<1>5. CASE Finish
  BY <1>1, <1>5, FinishedSound DEF Finish, Call
<1>6. CASE UNCHANGED vars
  BY <1>6 DEF vars
<1> QED
  BY <1>2, <1>3, <1>4, <1>5, <1>6 DEF Next

LEMMA InitSound == Init => AllSound(tab)
<1> SUFFICES ASSUME Init PROVE AllSound(tab)
  OBVIOUS
<1>1. NoBar.parts = <<>> /\ ~NoBar.set
  BY DEF NoBar
<1>2. Sound(NoBar) /\ DOMAIN tab.rows = {} /\ tab.count = 0
  BY <1>1, NoPartsSound DEF Init
<1> QED
  BY <1>1, <1>2 DEF Init, AllSound

(* The bars of BarsAreAggregates are those of AllSound.                    *)
LEMMA SoundBars ==
  ASSUME AllSound(tab), NEW b \in ToSet(tab.rows) \union {tab.latest, tab.sub}
  PROVE  Sound(b)
  BY DEF AllSound, ToSet

(* Whatever the periods, the prices and the volume of every bar are those  *)
(* of the pieces that went into it.                                        *)
THEOREM EveryBarIsAnAggregate ==
  Spec => []\A b \in ToSet(tab.rows) \union {tab.latest, tab.sub} : IsAggregate(b)
<1>1. AllSound(tab) =>
        \A b \in ToSet(tab.rows) \union {tab.latest, tab.sub} : IsAggregate(b)
  BY SoundBars DEF Sound
<1>2. IInv /\ AllSound(tab) /\ [Next]_vars => AllSound(tab)'
  BY NextSound
<1> QED
  BY <1>1, <1>2, InitSound, InitIInv, NextIInv, PTL DEF Spec

(* And where the sub-periods keep within the days, these pieces are all of *)
(* one trading day.                                                        *)
THEOREM BarsAreAggregatesOfADay ==
  ASSUME SubPeriodInDay
  PROVE  Spec => []BarsAreAggregates
<1>1. AllSound(tab) => BarsAreAggregates
  BY SoundBars DEF Sound, OneDay, BarsAreAggregates
<1>2. IInv /\ AllSound(tab) /\ [Next]_vars => AllSound(tab)'
  BY NextSound
<1> QED
  BY <1>1, <1>2, InitSound, InitIInv, NextIInv, PTL DEF Spec
=============================================================================
