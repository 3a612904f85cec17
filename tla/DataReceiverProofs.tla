------------------------- MODULE DataReceiverProofs -------------------------
(***************************************************************************)
(* Proofs about DataReceiver for every set of contracts, every size of     *)
(* the storage and the cache, and every number of ticks and restarts: what *)
(* the collector stores, what it still has to save, and who owns a tick's  *)
(* block of memory.                                                        *)
(***************************************************************************)
EXTENDS DataReceiver, WellFoundedInduction, SequenceTheorems, FiniteSetTheorems, TLAPS

Record == [id : 0..MaxTicks, total : Nat, volume : Nat]

(* Where ticks may come from, and what they may be of: contracts of the    *)
(* pool, on their way as the exchange sent them, in the order of their     *)
(* numbers.                                                                *)
AsSent(b) == tape[b.id] = [sym |-> b.sym, total |-> b.total]

Pipeline ==
  /\ ToSet(todo) \cup feed \subseteq ToSet(pool) /\ born <= arrived /\ Len(tape) = arrived
  /\ \A i \in DOMAIN queue : /\ queue[i].sym \in ToSet(pool)
                             /\ queue[i].id \in born + 1..arrived /\ AsSent(queue[i])
  /\ \A i, j \in DOMAIN queue : i < j => queue[i].id < queue[j].id
  /\ Len(hand) = IF col \in {"onTick", "free"} THEN 1 ELSE 0
  /\ hand # <<>> =>
       /\ hand[1].sym \in ToSet(pool) /\ hand[1].id \in born + 1..arrived /\ AsSent(hand[1])
       /\ \A i \in DOMAIN queue : hand[1].id < queue[i].id

(* The steps of the controlling thread and the collector that go together. *)
Phases ==
  /\ quit <=> main \in {"unsubscribe", "clear", "freeing", "check"}
  /\ main \in {"subscribe", "subscribed"} => todo # <<>>
  /\ main \in {"idle", "launch"} =>
       /\ col = "none" /\ feed = {} /\ queue = <<>> /\ heap = {} /\ arrived = born
  /\ main = "idle" =>
       /\ pool = <<>> /\ mainContract = NoContract
       /\ \A x \in Symbols : storage[x] = <<>> /\ cache[x] = <<>> /\ found[x] = Len(disk[x])

(* The storages: what start() loaded, then the ticks of this process.      *)
Storages ==
  /\ \A x \in Symbols : IF x \in FilesOf(pool) THEN FromFile(x) <= Len(storage[x])
                                       ELSE storage[x] = <<>>
  /\ mainContract # NoContract => mainContract \in ToSet(pool)

(* A tick this process stored came before those in the queue and the one   *)
(* about to be looked at.                                                  *)
Ordered ==
  \A c \in Contracts :
    /\ \A i \in DOMAIN Received(c) :
         /\ Received(c)[i].id \in born + 1..arrived
         /\ \A j \in DOMAIN queue : Received(c)[i].id < queue[j].id
         /\ col = "onTick" => Received(c)[i].id < hand[1].id
    /\ \A i, j \in DOMAIN Received(c) : i < j => Received(c)[i].id < Received(c)[j].id

(* Blocks of memory: owned by the queue or the hand; a tick that left them *)
(* before stop() was stored.                                               *)
Blocks ==
  /\ heap = Ids(queue) \cup Ids(hand)
  /\ ~quit => born + 1..arrived = heap \cup UNION {Ids(Received(c)) : c \in Contracts}
  /\ col = "free" /\ ~quit => hand[1].id \in Ids(Received(hand[1].sym))

(* The index follows the main contract until its storage is full.          *)
Follows ==
  mainContract # NoContract =>
    /\ IsPrefix(Received(Index), Received(mainContract))
    /\ Len(storage[Index]) < StoreCap => Received(Index) = Received(mainContract)

Unsaved ==
  /\ CacheIsUnsaved
  /\ \A c \in Contracts : c \notin cached => cache[c] = <<>>

IInv == /\ TypeOK /\ Pipeline /\ Phases /\ Storages /\ Ordered /\ Blocks /\ Follows
        /\ Unsaved /\ VolumesFollowTicks
-----------------------------------------------------------------------------
(* Numbers.                                                                *)

(* A set that has 0, and n + 1 with every n, has every number.             *)
LEMMA Induction ==
  ASSUME NEW T, 0 \in T, \A n \in Nat : n \in T => n + 1 \in T
  PROVE  \A n \in Nat : n \in T
<1> SUFFICES ASSUME Nat \ T # {} PROVE FALSE
  OBVIOUS
<1>1. PICK x \in Nat \ T : \A y \in Nat \ T : <<y, x>> \notin OpToRel(<, Nat)
  BY NatLessThanWellFounded, WFMin
<1>2. ASSUME NEW y \in Nat, y < x PROVE <<y, x>> \in OpToRel(<, Nat)
  BY <1>2 DEF OpToRel
<1>3. x - 1 \in Nat /\ x - 1 < x /\ x - 1 + 1 = x
  <2>1. x # 0
    OBVIOUS
  <2> QED
    BY <2>1
<1>4. x - 1 \in T
  BY <1>1, <1>2, <1>3
<1> QED
  BY <1>3, <1>4

(* A set of numbers up to n that is not empty has a largest one.           *)
LEMMA Maximum ==
  ASSUME NEW n \in Nat, NEW s, s \subseteq 1..n, s # {}
  PROVE  Max(s) \in s /\ \A i \in s : Max(s) >= i
<1> DEFINE Has(m) == \A r \in SUBSET (1..m) : r # {} => \E x \in r : \A y \in r : x >= y
           T == {m \in Nat : Has(m)}
<1>1. Has(0)
  <2>1. 1..0 = {}
    OBVIOUS
  <2> QED
    BY <2>1
<1>2. ASSUME NEW m \in Nat, Has(m) PROVE Has(m + 1)
  <2> SUFFICES ASSUME NEW r \in SUBSET (1..m + 1), r # {}
               PROVE  \E x \in r : \A y \in r : x >= y
    OBVIOUS
  <2>1. CASE m + 1 \in r
    BY <2>1
  <2>2. CASE m + 1 \notin r
    <3>1. r \subseteq 1..m
      BY <2>2
    <3> QED
      BY <1>2, <3>1
  <2> QED
    BY <2>1, <2>2
<1>3. 0 \in T /\ \A m \in Nat : m \in T => m + 1 \in T
  BY <1>1, <1>2
<1> HIDE DEF Has, T
<1>4. n \in T
  BY <1>3, Induction
<1>5. \E x \in s : \A y \in s : x >= y
  BY <1>4 DEF Has, T
<1> QED
  BY <1>5 DEF Max

-----------------------------------------------------------------------------
(* Sequences.                                                              *)

(* The records after the first k.                                          *)
LEMMA AfterFirst ==
  ASSUME NEW s \in Seq(Record), NEW k \in Nat
  PROVE  LET r == SubSeq(s, k + 1, Len(s)) IN
         /\ r \in Seq(Record)
         /\ Len(r) = IF k <= Len(s) THEN Len(s) - k ELSE 0
         /\ \A i \in 1..Len(r) : r[i] = s[k + i]
<1> DEFINE n == Len(s)
           m == k + 1
           r == SubSeq(s, m, n)
<1>1. n \in Nat /\ m \in Int /\ m = k + 1 /\ \A i \in m..n : s[i] \in Record
  OBVIOUS
<1> HIDE DEF n, m
<1>2. /\ r \in Seq(Record)
      /\ Len(r) = IF m <= n THEN n - m + 1 ELSE 0
      /\ \A i \in 1..n - m + 1 : r[i] = s[m + i - 1]
  BY <1>1, SMT
<1> HIDE DEF r
<1>3. Len(r) = IF k <= n THEN n - k ELSE 0
  BY <1>1, <1>2
<1>4. ASSUME NEW i \in 1..Len(r) PROVE r[i] = s[k + i]
  <2>1. i \in 1..n - m + 1 /\ m + i - 1 = k + i
    BY <1>1, <1>3
  <2> QED
    BY <1>2, <2>1
<1> QED
  BY <1>2, <1>3, <1>4 DEF r, n, m

(* One more record comes last among them.                                  *)
LEMMA AfterFirstAppend ==
  ASSUME NEW s \in Seq(Record), NEW k \in Nat, k <= Len(s), NEW e \in Record
  PROVE  LET t == Append(s, e) IN
         SubSeq(t, k + 1, Len(t)) = Append(SubSeq(s, k + 1, Len(s)), e)
<1> DEFINE t == Append(s, e)
           a == SubSeq(t, k + 1, Len(t))
           b == SubSeq(s, k + 1, Len(s))
           c == Append(b, e)
<1>1. /\ t \in Seq(Record) /\ Len(t) = Len(s) + 1 /\ Len(s) \in Nat
      /\ \A i \in 1..Len(s) : t[i] = s[i]
      /\ t[Len(s) + 1] = e
  OBVIOUS
<1> HIDE DEF t
<1>2. a \in Seq(Record) /\ Len(a) = Len(s) + 1 - k /\ \A i \in 1..Len(a) : a[i] = t[k + i]
  <2>1. a \in Seq(Record) /\ Len(a) = (IF k <= Len(t) THEN Len(t) - k ELSE 0)
        /\ \A i \in 1..Len(a) : a[i] = t[k + i]
    BY <1>1, AfterFirst
  <2> QED
    BY <1>1, <2>1
<1>3. b \in Seq(Record) /\ Len(b) = Len(s) - k /\ \A i \in 1..Len(b) : b[i] = s[k + i]
  BY <1>1, AfterFirst
<1> HIDE DEF a, b
<1>4. /\ c \in Seq(Record) /\ Len(c) = Len(b) + 1 /\ c[Len(b) + 1] = e
      /\ \A i \in 1..Len(b) : c[i] = b[i]
  BY <1>3
<1> HIDE DEF c
<1>5. ASSUME NEW i \in 1..Len(a) PROVE a[i] = c[i]
  <2>1. CASE i <= Len(b)
    <3>1. i \in 1..Len(b) /\ k + i \in 1..Len(s)
      BY <1>1, <1>2, <1>3, <2>1
    <3> QED
      BY <1>1, <1>2, <1>3, <1>4, <3>1
  <2>2. CASE i > Len(b)
    <3>1. i = Len(b) + 1 /\ k + i = Len(s) + 1
      BY <1>1, <1>2, <1>3, <2>2
    <3> QED
      BY <1>1, <1>2, <1>4, <3>1
  <2> QED
    BY <1>2, <1>3, <2>1, <2>2
<1>6. Len(a) = Len(c)
  BY <1>1, <1>2, <1>3, <1>4
<1>7. a = c
  BY <1>2, <1>4, <1>5, <1>6, SeqEqual
<1> QED
  BY <1>7 DEF a, b, c, t

(* There is none if the first k are all.                                   *)
LEMMA AfterAll ==
  ASSUME NEW s \in Seq(Record), NEW k \in Nat, Len(s) <= k
  PROVE  SubSeq(s, k + 1, Len(s)) = <<>>
<1>1. Len(s) \in Nat
  OBVIOUS
<1>2. SubSeq(s, k + 1, Len(s)) \in Seq(Record) /\ Len(SubSeq(s, k + 1, Len(s))) = 0
  BY <1>1, AfterFirst
<1> QED
  BY <1>2, EmptySeq

(* A sequence is a prefix of itself, and a prefix stays one when the other *)
(* sequence grows.                                                         *)
LEMMA PrefixOfGrown ==
  ASSUME NEW s \in Seq(Record), NEW t \in Seq(Record), NEW e \in Record, IsPrefix(s, t)
  PROVE  IsPrefix(s, Append(t, e))
<1> DEFINE n == Len(s)
           u == Append(t, e)
<1>1. /\ n \in Nat /\ Len(t) \in Nat /\ n <= Len(t) /\ SubSeq(s, 1, n) = SubSeq(t, 1, n)
      /\ u \in Seq(Record) /\ Len(u) = Len(t) + 1 /\ \A i \in 1..Len(t) : u[i] = t[i]
  BY DEF IsPrefix
<1> HIDE DEF u, n
<1>2. /\ SubSeq(t, 1, n) \in Seq(Record) /\ SubSeq(u, 1, n) \in Seq(Record)
      /\ Len(SubSeq(t, 1, n)) = n /\ Len(SubSeq(u, 1, n)) = n
      /\ \A i \in 1..n : SubSeq(t, 1, n)[i] = t[i] /\ SubSeq(u, 1, n)[i] = u[i]
  BY <1>1
<1>3. \A i \in 1..n : SubSeq(t, 1, n)[i] = SubSeq(u, 1, n)[i]
  BY <1>1, <1>2
<1>4. SubSeq(t, 1, n) = SubSeq(u, 1, n)
  BY <1>2, <1>3, SeqEqual
<1> QED
  BY <1>1, <1>4 DEF IsPrefix, n, u

LEMMA PrefixOfItself ==
  ASSUME NEW s \in Seq(Record)
  PROVE  IsPrefix(s, s)
<1>1. Len(s) \in Nat
  OBVIOUS
<1> QED
  BY <1>1 DEF IsPrefix

(* What td_queryMarketData lists is a sequence of contracts.               *)
LEMMA ListsAreSequences ==
  ASSUME NEW list \in Lists
  PROVE  list \in Seq(Contracts)
<1>1. PICK s \in SUBSET Contracts : list \in SetToSeqs(s)
  BY DEF Lists
<1>2. Cardinality(s) \in Nat
  BY ReceiverAssumption, FS_Subset, FS_CardinalityType
<1>3. list \in [1..Cardinality(s) -> Contracts]
  BY <1>1 DEF SetToSeqs
<1> QED
  BY <1>2, <1>3

(* The main contract is one of the list, if there is one.                  *)
LEMMA MainOfList ==
  ASSUME NEW list \in Seq(Contracts), NEW f
  PROVE  MainOf(list, f) \in ToSet(list) \cup {NoContract}
<1> DEFINE positive == {i \in DOMAIN list : f[list[i]] > 0}
<1>1. Len(list) \in Nat /\ DOMAIN list = 1..Len(list)
  OBVIOUS
<1>2. CASE positive = {}
  BY <1>2 DEF MainOf
<1>3. CASE positive # {}
  <2>1. positive \subseteq 1..Len(list)
    BY <1>1
  <2> HIDE DEF positive
  <2>2. Max(positive) \in positive
    BY <1>1, <1>3, <2>1, Maximum
  <2>3. list[Max(positive)] \in ToSet(list)
    BY <2>2 DEF positive, ToSet
  <2> QED
    BY <1>3, <2>3 DEF MainOf, positive
<1> QED
  BY <1>2, <1>3

-----------------------------------------------------------------------------
(* What the parts of the invariant are about.                              *)

(* The records a symbol's storage got from this process.                   *)
LEMMA ReceivedFacts ==
  ASSUME TypeOK, NEW x \in Symbols
  PROVE  /\ FromFile(x) \in Nat /\ Len(storage[x]) \in Nat /\ storage[x] \in Seq(Record)
         /\ Received(x) \in Seq(Record)
         /\ Len(Received(x)) = IF FromFile(x) <= Len(storage[x])
                               THEN Len(storage[x]) - FromFile(x) ELSE 0
         /\ \A i \in 1..Len(Received(x)) : Received(x)[i] = storage[x][FromFile(x) + i]
<1>1. storage[x] \in Seq(Record) /\ found[x] \in Nat
  BY DEF TypeOK, Record
<1>2. FromFile(x) \in Nat
  BY <1>1, ReceiverAssumption DEF FromFile, Fitting
<1>3. Len(storage[x]) \in Nat
  BY <1>1
<1> QED
  BY <1>1, <1>2, <1>3, AfterFirst DEF Received

LEMMA ReceivedKept ==
  ASSUME NEW x \in Symbols, storage'[x] = storage[x], found' = found
  PROVE  Received(x)' = Received(x) /\ FromFile(x)' = FromFile(x) /\ Base(x)' = Base(x)
BY DEF Received, FromFile, Fitting, Base

LEMMA ReceivedMore ==
  ASSUME TypeOK, NEW x \in Symbols, NEW r \in Record, FromFile(x) <= Len(storage[x]),
         storage'[x] = Append(storage[x], r), found' = found
  PROVE  Received(x)' = Append(Received(x), r) /\ FromFile(x)' = FromFile(x)
<1>1. FromFile(x)' = FromFile(x)
  BY DEF FromFile, Fitting
<1>2. FromFile(x) \in Nat /\ storage[x] \in Seq(Record)
  BY ReceivedFacts
<1>3. Received(x)' = SubSeq(storage'[x], FromFile(x) + 1, Len(storage'[x]))
  BY <1>1 DEF Received
<1> QED
  BY <1>1, <1>2, <1>3, AfterFirstAppend DEF Received

(* saveTickToFile: each vector saved adds a record per pointer to its file.*)
LEMMA SaveFacts ==
  ASSUME TypeOK, NEW s \in SUBSET Symbols, Save(s)
  PROVE  /\ disk' \in [Symbols -> Seq(Images)]
         /\ \A x \in Symbols : Len(disk'[x]) =
              Len(disk[x]) + IF folder /\ x \in s THEN Len(cache[x]) ELSE 0
<1> DEFINE open == {x \in s : folder}
           slots == UNION {{x} \X DOMAIN cache[x] : x \in open}
<1>1. PICK image \in [slots -> Images] :
        disk' = [x \in Symbols |->
                   disk[x] \o IF x \in open THEN [i \in DOMAIN cache[x] |-> image[<<x, i>>]]
                              ELSE <<>>]
  BY DEF Save
<1>2. ASSUME NEW x \in Symbols
      PROVE  /\ disk'[x] \in Seq(Images)
             /\ Len(disk'[x]) = Len(disk[x]) + IF folder /\ x \in s THEN Len(cache[x]) ELSE 0
  <2>1. disk[x] \in Seq(Images) /\ cache[x] \in Seq(0..MaxTicks)
    BY DEF TypeOK
  <2>2. DOMAIN cache[x] = 1..Len(cache[x]) /\ Len(cache[x]) \in Nat
    BY <2>1
  <2>3. CASE x \in open
    <3> DEFINE new == [i \in DOMAIN cache[x] |-> image[<<x, i>>]]
    <3>1. \A i \in DOMAIN cache[x] : <<x, i>> \in slots
      BY <2>3
    <3>2. new \in [1..Len(cache[x]) -> Images]
      BY <1>1, <2>2, <3>1
    <3>3. new \in Seq(Images) /\ Len(new) = Len(cache[x])
      BY <2>2, <3>2
    <3>4. disk'[x] = disk[x] \o new
      BY <1>1, <2>3
    <3> HIDE DEF new
    <3>5. disk[x] \o new \in Seq(Images) /\ Len(disk[x] \o new) = Len(disk[x]) + Len(new)
      BY <2>1, <3>3, ConcatProperties
    <3> QED
      BY <2>3, <3>3, <3>4, <3>5
  <2>4. CASE x \notin open
    <3>1. disk'[x] = disk[x] \o <<>>
      BY <1>1, <2>4
    <3>2. disk'[x] = disk[x]
      BY <2>1, <3>1
    <3>3. Len(disk[x]) \in Nat
      BY <2>1
    <3>4. ~(folder /\ x \in s)
      BY <2>4
    <3> DEFINE added == IF folder /\ x \in s THEN Len(cache[x]) ELSE 0
    <3>5. added = 0
      BY <3>4, Zenon
    <3> HIDE DEF added
    <3>6. Len(disk[x]) + added = Len(disk[x])
      BY <3>3, <3>5
    <3> QED
      BY <2>1, <3>2, <3>6 DEF added
  <2> QED
    BY <2>3, <2>4
<1>3. disk' \in [Symbols -> Seq(Images)]
  BY <1>1, <1>2
<1> QED
  BY <1>2, <1>3

-----------------------------------------------------------------------------
(* The invariant is inductive: what a step that leaves a part's variables  *)
(* alone keeps, then the steps one by one.                                 *)

LEMMA VolumesKept ==
  ASSUME VolumesFollowTicks, UNCHANGED <<storage, found, tape, born, mainContract>>
  PROVE  VolumesFollowTicks'
<1> DEFINE After(c, n) ==
             LET before == {k \in born' + 1..n - 1 : tape'[k].sym = c}
             IN  IF before = {} THEN Base(c)' ELSE tape'[Max(before)].total
<1>1. \A x : Received(x)' = Received(x) /\ Base(x)' = Base(x)
  BY DEF Received, FromFile, Base, Fitting
<1>2. \A c, n : After(c, n) = TotalBefore(c, n)
  BY <1>1 DEF TotalBefore
<1> HIDE DEF After
<1>3. ASSUME NEW c \in Contracts, NEW i \in DOMAIN Received(c)'
      PROVE  LET e == Received(c)'[i]
             IN  /\ tape'[e.id] = [sym |-> c, total |-> e.total]
                 /\ e.volume = e.total - After(c, e.id)
  BY <1>1, <1>2, <1>3 DEF VolumesFollowTicks
<1>4. mainContract' # NoContract => IsPrefix(Received(Index)', Received(mainContract)')
  BY <1>1 DEF VolumesFollowTicks
<1> QED
  BY <1>3, <1>4 DEF VolumesFollowTicks, TotalBefore, After

LEMMA DataKept ==
  ASSUME Storages, Follows, Unsaved, VolumesFollowTicks,
         UNCHANGED <<storage, cache, cached, disk, found, folder, pool, mainContract, quit,
                     tape, born>>
  PROVE  Storages' /\ Follows' /\ Unsaved' /\ VolumesFollowTicks'
<1>1. Storages' /\ Follows' /\ Unsaved'
  BY DEF Storages, Follows, Unsaved, CacheIsUnsaved, Received, FromFile, Fitting
<1>2. VolumesFollowTicks'
  BY VolumesKept
<1> QED
  BY <1>1, <1>2

LEMMA ReceivedSame ==
  ASSUME UNCHANGED <<storage, found>>
  PROVE  \A x : Received(x)' = Received(x) /\ FromFile(x)' = FromFile(x) /\ Base(x)' = Base(x)
BY DEF Received, FromFile, Fitting, Base

LEMMA OrderKept ==
  ASSUME Ordered, Blocks,
         UNCHANGED <<storage, found, born, arrived, queue, hand, col, heap, quit>>
  PROVE  Ordered' /\ Blocks'
<1>1. \A x : Received(x)' = Received(x)
  BY ReceivedSame
<1>2. Ordered'
  BY <1>1 DEF Ordered
<1>3. Blocks'
  BY <1>1 DEF Blocks, Ids
<1> QED
  BY <1>2, <1>3

LEMMA PipelineKept ==
  ASSUME Pipeline, UNCHANGED <<todo, feed, pool, queue, hand, col, born, arrived, tape>>
  PROVE  Pipeline'
BY DEF Pipeline, AsSent

(* The types by the groups of variables: a step leaves most of them alone. *)
MainTypes ==
  /\ locked \in BOOLEAN /\ quit \in BOOLEAN
  /\ main \in {"idle", "launch", "subscribe", "subscribed", "running", "unsubscribe",
               "clear", "freeing", "check"}
  /\ todo \in Seq(Contracts) /\ pool \in Seq(Contracts)
  /\ mainContract \in Contracts \cup {NoContract}
DataTypes ==
  /\ storage \in [Symbols -> Seq([id : 0..MaxTicks, total : Nat, volume : Nat])]
  /\ cached \subseteq Symbols /\ cache \in [Symbols -> Seq(0..MaxTicks)]
  /\ disk \in [Symbols -> Seq(Images)]
CollectorTypes ==
  /\ col \in {"none", "loop", "query", "onTick", "free", "ended"}
  /\ hand \in Seq(Block) /\ gaveUp \in BOOLEAN
FeedTypes ==
  /\ feed \subseteq Contracts /\ queue \in Seq(Block) /\ mdQuit \in BOOLEAN
  /\ heap \subseteq 1..MaxTicks /\ arrived \in 0..MaxTicks
RestTypes ==
  /\ abort \in {"none", "load", "subscribe", "unsubscribe", "stop", "volume",
                "overflow", "null", "race"}
  /\ folder \in BOOLEAN /\ found \in [Symbols -> Nat] /\ born \in 0..MaxTicks
  /\ tape \in Seq([sym : Contracts, total : Totals]) /\ restarts \in 0..MaxRestarts

LEMMA TypeGroups ==
  /\ TypeOK => MainTypes /\ DataTypes /\ CollectorTypes /\ FeedTypes /\ RestTypes
  /\ (MainTypes /\ DataTypes /\ CollectorTypes /\ FeedTypes /\ RestTypes => TypeOK)'
<1>1. TypeOK => MainTypes /\ DataTypes /\ CollectorTypes /\ FeedTypes /\ RestTypes
  BY Zenon DEF TypeOK, MainTypes, DataTypes, CollectorTypes, FeedTypes, RestTypes
<1>2. (MainTypes /\ DataTypes /\ CollectorTypes /\ FeedTypes /\ RestTypes => TypeOK)'
  BY Zenon DEF TypeOK, MainTypes, DataTypes, CollectorTypes, FeedTypes, RestTypes
<1> QED
  BY <1>1, <1>2

LEMMA TypesKept ==
  ASSUME TypeOK
  PROVE  /\ UNCHANGED <<locked, quit, main, todo, pool, mainContract>> => MainTypes'
         /\ UNCHANGED <<storage, cached, cache, disk>> => DataTypes'
         /\ UNCHANGED <<col, hand, gaveUp>> => CollectorTypes'
         /\ UNCHANGED <<feed, queue, mdQuit, heap, arrived>> => FeedTypes'
         /\ UNCHANGED <<abort, folder, found, born, tape, restarts>> => RestTypes'
<1>1. UNCHANGED <<locked, quit, main, todo, pool, mainContract>> => MainTypes'
  BY TypeGroups DEF MainTypes
<1>2. UNCHANGED <<storage, cached, cache, disk>> => DataTypes'
  BY TypeGroups DEF DataTypes
<1>3. UNCHANGED <<col, hand, gaveUp>> => CollectorTypes'
  BY TypeGroups DEF CollectorTypes
<1>4. UNCHANGED <<feed, queue, mdQuit, heap, arrived>> => FeedTypes'
  BY TypeGroups DEF FeedTypes
<1>5. UNCHANGED <<abort, folder, found, born, tape, restarts>> => RestTypes'
  BY TypeGroups DEF RestTypes
<1> QED
  BY <1>1, <1>2, <1>3, <1>4, <1>5

(* The process ends, or nothing happens.                                   *)
LEMMA OnlyAbort ==
  ASSUME IInv,
         UNCHANGED <<mainVars, data, colVars, feedVars, folder, found, born, tape, restarts>>,
         abort' \in {"none", "load", "subscribe", "unsubscribe", "stop", "volume",
                     "overflow", "null", "race"}
  PROVE  IInv'
<1> USE DEF mainVars, data, colVars, feedVars
<1>1. TypeOK'
  BY TypeGroups, TypesKept DEF IInv, RestTypes
<1>2. Phases'
  BY DEF IInv, Phases
<1>3. Storages' /\ Follows' /\ Unsaved' /\ VolumesFollowTicks'
  BY DataKept DEF IInv
<1>4. Ordered' /\ Blocks'
  BY OrderKept DEF IInv
<1>5. Pipeline'
  BY PipelineKept DEF IInv
<1> QED
  BY <1>1, <1>2, <1>3, <1>4, <1>5 DEF IInv

LEMMA LaunchStep ==
  ASSUME IInv, Launch
  PROVE  IInv'
<1> USE DEF mainVars, data, colVars, feedVars, rest, MainAt, Launch
<1>1. TypeOK'
  BY DEF IInv, TypeOK
<1>2. quit' = quit /\ hand = <<>>
  <2>1. ~quit /\ quit \in BOOLEAN /\ col = "none"
    BY DEF IInv, Phases, TypeOK
  <2>2. hand \in Seq(Block) /\ Len(hand) = 0
    BY <2>1 DEF IInv, TypeOK, Pipeline
  <2>3. hand = <<>>
    BY <2>2
  <2> QED
    BY <2>1, <2>3
<1>3. Storages' /\ Follows' /\ Unsaved' /\ VolumesFollowTicks'
  BY <1>2, DataKept DEF IInv
<1>4. Phases'
  BY DEF IInv, Phases
<1>5. Pipeline'
  BY <1>2 DEF IInv, Pipeline, AsSent
<1>6. \A x : Received(x)' = Received(x)
  BY ReceivedSame
<1>7. Ordered'
  BY <1>6 DEF IInv, Ordered
<1>8. Blocks'
  BY <1>2, <1>6 DEF IInv, Blocks, Ids
<1> QED
  BY <1>1, <1>3, <1>4, <1>5, <1>7, <1>8 DEF IInv

LEMMA SubscribeStep ==
  ASSUME IInv, Subscribe
  PROVE  IInv'
<1> USE DEF mainVars, data, colVars, feedVars, rest, MainAt, Subscribe
<1>1. todo \in Seq(Contracts) /\ todo # <<>>
  BY DEF IInv, TypeOK, Phases
<1>2. Head(todo) \in Contracts /\ Head(todo) \in ToSet(todo)
  BY <1>1 DEF ToSet
<1>3. TypeOK'
  BY <1>2 DEF IInv, TypeOK, Symbols
<1>4. Pipeline'
  BY <1>2 DEF IInv, Pipeline, AsSent
<1>5. Phases'
  BY DEF IInv, Phases
<1>6. Storages' /\ Follows' /\ VolumesFollowTicks'
  BY VolumesKept DEF IInv, Storages, Follows, Received, FromFile, Fitting
<1>7. Unsaved'
  BY DEF IInv, Unsaved, CacheIsUnsaved, Received, FromFile, Fitting
<1>8. Ordered' /\ Blocks'
  BY OrderKept DEF IInv
<1> QED
  BY <1>3, <1>4, <1>5, <1>6, <1>7, <1>8 DEF IInv

LEMMA SubscribedStep ==
  ASSUME IInv, Subscribed
  PROVE  IInv'
<1>1. CASE Die("subscribe")
  BY <1>1, OnlyAbort DEF Die
<1>2. CASE ~Die("subscribe")
  <2> USE DEF mainVars, data, colVars, feedVars, rest, MainAt
  <2>1. /\ todo' = Tail(todo) /\ main = "subscribed"
        /\ main' \in {"running", "subscribe"} /\ locked' \in {FALSE, locked}
        /\ main' = "subscribe" => todo' # <<>>
        /\ UNCHANGED <<quit, pool, mainContract, data, colVars, feedVars, rest>>
    BY <1>2 DEF Subscribed
  <2>2. todo \in Seq(Contracts) /\ todo # <<>>
    BY <2>1 DEF IInv, TypeOK, Phases
  <2>3. todo' \in Seq(Contracts) /\ ToSet(todo') \subseteq ToSet(todo)
    <3>1. /\ Tail(todo) \in Seq(Contracts)
          /\ \A i \in DOMAIN Tail(todo) : i + 1 \in DOMAIN todo /\ Tail(todo)[i] = todo[i + 1]
      BY <2>2
    <3> QED
      BY <2>1, <3>1 DEF ToSet
  <2>4. TypeOK'
    <3>1. /\ locked' \in BOOLEAN
          /\ main' \in {"idle", "launch", "subscribe", "subscribed", "running",
                        "unsubscribe", "clear", "freeing", "check"}
      BY <2>1 DEF IInv, TypeOK
    <3> QED
      BY <2>1, <2>3, <3>1, TypeGroups, TypesKept DEF IInv, MainTypes
  <2>5. Pipeline'
    BY <2>1, <2>3 DEF IInv, Pipeline, AsSent
  <2>6. Phases'
    BY <2>1 DEF IInv, Phases
  <2>7. Storages' /\ Follows' /\ Unsaved' /\ VolumesFollowTicks'
    BY <2>1, DataKept DEF IInv
  <2>8. Ordered' /\ Blocks'
    BY <2>1, OrderKept DEF IInv
  <2> QED
    BY <2>4, <2>5, <2>6, <2>7, <2>8 DEF IInv
<1> QED
  BY <1>1, <1>2

(* stop() saves every vector as it is: the files get the ticks not saved.  *)
LEMMA StopStep ==
  ASSUME IInv, Stop
  PROVE  IInv'
<1> USE DEF mainVars, data, colVars, feedVars, rest, MainAt
<1>1. /\ main = "running" /\ main' = "unsubscribe" /\ todo' = pool
      /\ locked' = TRUE /\ quit' = TRUE /\ Save(cached)
      /\ UNCHANGED <<pool, mainContract, storage, cached, cache, colVars, feedVars, rest>>
  BY DEF Stop
<1>2. cached \in SUBSET Symbols /\ TypeOK
  BY DEF IInv, TypeOK
<1>3. /\ disk' \in [Symbols -> Seq(Images)]
      /\ \A x \in Symbols : Len(disk'[x]) =
           Len(disk[x]) + IF folder /\ x \in cached THEN Len(cache[x]) ELSE 0
  BY <1>1, <1>2, SaveFacts
<1>4. TypeOK'
  <2>1. /\ locked' \in BOOLEAN /\ quit' \in BOOLEAN
        /\ main' \in {"idle", "launch", "subscribe", "subscribed", "running",
                      "unsubscribe", "clear", "freeing", "check"}
    BY <1>1
  <2> QED
    BY <1>1, <1>2, <1>3, <2>1, TypeGroups, TypesKept DEF MainTypes, DataTypes
<1>5. Pipeline'
  BY <1>1 DEF IInv, Pipeline, AsSent
<1>6. Phases'
  BY <1>1 DEF IInv, Phases
<1>7. \A x : Received(x)' = Received(x) /\ FromFile(x)' = FromFile(x) /\ Base(x)' = Base(x)
  BY <1>1, ReceivedSame
<1>8. Storages' /\ Follows' /\ VolumesFollowTicks'
  BY <1>1, <1>7, VolumesKept DEF IInv, Storages, Follows
<1>9. Ordered'
  BY <1>1, <1>7 DEF IInv, Ordered
<1>10. Blocks'
  BY <1>1, <1>7 DEF IInv, Blocks, Ids
<1>11. Unsaved'
  <2> SUFFICES ASSUME NEW c \in Contracts
               PROVE  LET n == Len(cache[c])
                          m == Len(Received(c))
                      IN  /\ n <= SaveAt /\ n <= m
                          /\ \A i \in 1..n : cache[c][i] = Received(c)[m - n + i].id
                          /\ folder => Len(disk'[c]) = found[c] + m
                          /\ ~folder => Len(disk'[c]) = found[c]
                          /\ c \notin cached => cache[c] = <<>>
    BY <1>1, <1>7, Zenon DEF Unsaved, CacheIsUnsaved
  <2> DEFINE n == Len(cache[c])
             m == Len(Received(c))
  <2>1. /\ n <= SaveAt /\ n <= m
        /\ \A i \in 1..n : cache[c][i] = Received(c)[m - n + i].id
        /\ folder => Len(disk[c]) = found[c] + (IF quit THEN m ELSE m - n)
        /\ ~folder => Len(disk[c]) = found[c]
        /\ c \notin cached => cache[c] = <<>>
    BY DEF IInv, Unsaved, CacheIsUnsaved
  <2>2. ~quit /\ c \in Symbols
    BY <1>1 DEF IInv, Phases, Symbols
  <2>3. n \in Nat /\ m \in Nat /\ found[c] \in Nat
    <3>1. Received(c) \in Seq(Record)
      BY <1>2, <2>2, ReceivedFacts
    <3>2. cache[c] \in Seq(0..MaxTicks) /\ found[c] \in Nat
      BY <1>2, <2>2 DEF TypeOK
    <3> QED
      BY <3>1, <3>2
  <2>4. ASSUME folder PROVE Len(disk'[c]) = found[c] + m
    <3>1. Len(disk[c]) = found[c] + (m - n)
      BY <2>1, <2>2, <2>4
    <3>2. CASE c \in cached
      <4>1. Len(disk'[c]) = Len(disk[c]) + n
        BY <1>3, <2>2, <2>4, <3>2
      <4> HIDE DEF n, m
      <4> QED
        BY <2>3, <3>1, <4>1
    <3>3. CASE c \notin cached
      <4>1. Len(disk'[c]) = Len(disk[c]) + 0
        BY <1>3, <2>2, <3>3
      <4>2. n = 0
        BY <2>1, <3>3
      <4> HIDE DEF n, m
      <4> QED
        BY <2>3, <3>1, <4>1, <4>2
    <3> QED
      BY <3>2, <3>3
  <2>5. ASSUME ~folder PROVE Len(disk'[c]) = found[c]
    <3>1. Len(disk'[c]) = Len(disk[c]) + 0
      BY <1>3, <2>2, <2>5
    <3> HIDE DEF n, m
    <3> QED
      BY <2>1, <2>3, <2>5, <3>1
  <2> QED
    BY <2>1, <2>4, <2>5
<1> QED
  BY <1>4, <1>5, <1>6, <1>8, <1>9, <1>10, <1>11 DEF IInv

LEMMA UnsubscribeStep ==
  ASSUME IInv, Unsubscribe
  PROVE  IInv'
<1>1. CASE Die("unsubscribe")
  BY <1>1, OnlyAbort DEF Die
<1>2. CASE ~Die("unsubscribe")
  <2> USE DEF mainVars, data, colVars, feedVars, rest, MainAt
  <2>1. /\ todo' = Tail(todo) /\ todo # <<>> /\ main = "unsubscribe"
        /\ feed' = feed \ {Head(todo)}
        /\ UNCHANGED <<locked, quit, main, pool, mainContract, data, colVars, queue,
                       mdQuit, heap, arrived, rest>>
    BY <1>2 DEF Unsubscribe
  <2>2. todo \in Seq(Contracts)
    BY DEF IInv, TypeOK
  <2>3. todo' \in Seq(Contracts) /\ ToSet(todo') \subseteq ToSet(todo)
    <3>1. /\ Tail(todo) \in Seq(Contracts)
          /\ \A i \in DOMAIN Tail(todo) : i + 1 \in DOMAIN todo /\ Tail(todo)[i] = todo[i + 1]
      BY <2>1, <2>2
    <3> QED
      BY <2>1, <3>1 DEF ToSet
  <2>4. TypeOK'
    <3>1. feed' \subseteq Contracts
      BY <2>1 DEF IInv, TypeOK
    <3> QED
      BY <2>1, <2>3, <3>1, TypeGroups, TypesKept DEF IInv, MainTypes, FeedTypes
  <2>5. Pipeline'
    BY <2>1, <2>3 DEF IInv, Pipeline, AsSent
  <2>6. Phases'
    BY <2>1 DEF IInv, Phases
  <2>7. Storages' /\ Follows' /\ Unsaved' /\ VolumesFollowTicks'
    BY <2>1, DataKept DEF IInv
  <2>8. Ordered' /\ Blocks'
    BY <2>1, OrderKept DEF IInv
  <2> QED
    BY <2>4, <2>5, <2>6, <2>7, <2>8 DEF IInv
<1> QED
  BY <1>1, <1>2

LEMMA StopWakeStep ==
  ASSUME IInv, StopWake
  PROVE  IInv'
<1> USE DEF mainVars, data, colVars, feedVars, rest, MainAt, StopWake
<1>1. TypeOK'
  <2>1. /\ mdQuit' \in BOOLEAN
        /\ main' \in {"idle", "launch", "subscribe", "subscribed", "running",
                      "unsubscribe", "clear", "freeing", "check"}
    OBVIOUS
  <2> QED
    BY <2>1, TypeGroups, TypesKept DEF IInv, MainTypes, FeedTypes
<1>2. Pipeline'
  BY PipelineKept DEF IInv
<1>3. Phases'
  BY DEF IInv, Phases
<1>4. Storages' /\ Follows' /\ Unsaved' /\ VolumesFollowTicks'
  BY DataKept DEF IInv
<1>5. Ordered' /\ Blocks'
  BY OrderKept DEF IInv
<1> QED
  BY <1>1, <1>2, <1>3, <1>4, <1>5 DEF IInv

LEMMA StopSilenceStep ==
  ASSUME IInv, StopSilence
  PROVE  IInv'
<1> USE DEF mainVars, data, colVars, feedVars, rest, MainAt
<1>1. /\ feed' = {} /\ mdQuit' = FALSE /\ main = "clear" /\ main' = "freeing"
      /\ UNCHANGED <<locked, quit, todo, pool, mainContract, data, colVars, queue, heap,
                     arrived, rest>>
  BY DEF StopSilence
<1>2. TypeOK'
  <2>1. /\ mdQuit' \in BOOLEAN /\ feed' \subseteq Contracts
        /\ main' \in {"idle", "launch", "subscribe", "subscribed", "running",
                      "unsubscribe", "clear", "freeing", "check"}
    BY <1>1
  <2> QED
    BY <1>1, <2>1, TypeGroups, TypesKept DEF IInv, MainTypes, FeedTypes
<1>3. Pipeline'
  BY <1>1 DEF IInv, Pipeline, AsSent
<1>4. Phases'
  BY <1>1 DEF IInv, Phases
<1>5. Storages' /\ Follows' /\ Unsaved' /\ VolumesFollowTicks'
  BY <1>1, DataKept DEF IInv
<1>6. Ordered' /\ Blocks'
  BY <1>1, OrderKept DEF IInv
<1> QED
  BY <1>2, <1>3, <1>4, <1>5, <1>6 DEF IInv

(* md_stop frees what is queued, and leaves the tick in the hand.          *)
LEMMA StopClearStep ==
  ASSUME IInv, StopClear
  PROVE  IInv'
<1> USE DEF mainVars, data, colVars, feedVars, rest, MainAt
<1>1. /\ heap' = heap \ {t.id : t \in ToSet(queue)}
      /\ queue' = <<>>
      /\ main = "freeing" /\ main' = "check"
      /\ UNCHANGED <<locked, quit, todo, pool, mainContract, data, colVars, feed, mdQuit,
                     arrived, rest>>
  BY DEF StopClear
<1>2. TypeOK'
  <2>1. /\ main' \in {"idle", "launch", "subscribe", "subscribed", "running",
                      "unsubscribe", "clear", "freeing", "check"}
    BY <1>1
  <2>2. heap' \subseteq 1..MaxTicks
    BY <1>1 DEF IInv, TypeOK
  <2>3. queue' \in Seq(Block)
    BY <1>1
  <2> QED
    BY <1>1, <2>1, <2>2, <2>3, TypeGroups, TypesKept DEF IInv, MainTypes, FeedTypes
<1>3. Pipeline'
  BY <1>1 DEF IInv, Pipeline, AsSent
<1>4. Phases'
  BY <1>1 DEF IInv, Phases
<1>5. Storages' /\ Follows' /\ Unsaved' /\ VolumesFollowTicks'
  BY <1>1, DataKept DEF IInv
<1>6. \A x : Received(x)' = Received(x)
  BY <1>1, ReceivedSame
<1>7. Ordered'
  BY <1>1, <1>6 DEF IInv, Ordered
<1>8. Blocks'
  <2>1. quit
    BY <1>1 DEF IInv, Phases
  <2>2. {t.id : t \in ToSet(queue)} = Ids(queue)
    BY DEF ToSet, Ids
  <2>3. Ids(hand) \cap Ids(queue) = {}
    <3>1. hand \in Seq(Block) /\ Len(hand) <= 1
      BY DEF IInv, TypeOK, Pipeline
    <3>2. DOMAIN hand \subseteq {1} /\ (DOMAIN hand # {} => hand # <<>>)
      BY <3>1
    <3>3. ASSUME NEW i \in DOMAIN hand, NEW j \in DOMAIN queue
          PROVE  hand[i].id # queue[j].id
      <4>1. hand[1].id < queue[j].id /\ hand[1].id \in born + 1..arrived
            /\ queue[j].id \in born + 1..arrived
        BY <3>2, <3>3 DEF IInv, Pipeline, AsSent
      <4>2. born \in Int /\ arrived \in Int
        BY DEF IInv, TypeOK
      <4> QED
        BY <3>2, <4>1, <4>2
    <3> QED
      BY <3>3 DEF Ids
  <2>4. heap' = Ids(queue') \cup Ids(hand)
    <3>1. heap = Ids(queue) \cup Ids(hand)
      BY DEF IInv, Blocks
    <3>2. Ids(queue') = {}
      BY <1>1 DEF Ids
    <3> QED
      BY <1>1, <2>2, <2>3, <3>1, <3>2
  <2> QED
    BY <1>1, <2>1, <2>4 DEF Blocks, Ids
<1> QED
  BY <1>2, <1>3, <1>4, <1>5, <1>7, <1>8 DEF IInv

LEMMA LoopStep ==
  ASSUME IInv, Loop
  PROVE  IInv'
<1> USE DEF mainVars, data, colVars, feedVars, rest, ColAt
<1>1. /\ col = "loop" /\ col' \in {"ended", "query"}
      /\ UNCHANGED <<mainVars, data, hand, gaveUp, feedVars, rest>>
  BY DEF Loop
<1>2. TypeOK'
  <2>1. col' \in {"none", "loop", "query", "onTick", "free", "ended"}
    BY <1>1
  <2> QED
    BY <1>1, <2>1, TypeGroups, TypesKept DEF IInv, CollectorTypes
<1>3. Pipeline'
  BY <1>1 DEF IInv, Pipeline, AsSent
<1>4. Phases'
  BY <1>1 DEF IInv, Phases
<1>5. Storages' /\ Follows' /\ Unsaved' /\ VolumesFollowTicks'
  BY <1>1, DataKept DEF IInv
<1>6. \A x : Received(x)' = Received(x)
  BY <1>1, ReceivedSame
<1>7. Ordered'
  BY <1>1, <1>6 DEF IInv, Ordered
<1>8. Blocks'
  BY <1>1, <1>6 DEF IInv, Blocks, Ids
<1> QED
  BY <1>2, <1>3, <1>4, <1>5, <1>7, <1>8 DEF IInv

(* The first of the queue goes to the hand; what is left in the queue came *)
(* after it, and what was stored came before it.                           *)
LEMMA QueryStep ==
  ASSUME IInv, Query
  PROVE  IInv'
<1>0. CASE Die("race")
  BY <1>0, OnlyAbort DEF Die
<1> SUFFICES ASSUME ~Die("race") PROVE IInv'
  BY <1>0
<1> USE DEF mainVars, data, colVars, feedVars, rest, ColAt
<1>1. col = "query" /\ UNCHANGED <<mainVars, data, feed, mdQuit, heap, arrived, rest>>
  BY DEF Query
<1>2. Phases'
  <2>1. main \notin {"idle", "launch"}
    BY <1>1 DEF IInv, Phases
  <2> QED
    BY <1>1, <2>1 DEF IInv, Phases
<1>3. Storages' /\ Follows' /\ Unsaved' /\ VolumesFollowTicks'
  BY <1>1, DataKept DEF IInv
<1>4. \A x : Received(x)' = Received(x)
  BY <1>1, ReceivedSame
<1>5. hand = <<>>
  <2>1. hand \in Seq(Block) /\ Len(hand) = 0
    BY <1>1 DEF IInv, TypeOK, Pipeline
  <2> QED
    BY <2>1
<1>6. CASE UNCHANGED <<hand, queue>>
  <2>1. /\ col' \in {"loop", "ended"} /\ gaveUp' \in {gaveUp, TRUE}
        /\ UNCHANGED <<hand, queue>>
    <3>1. hand' # <<Head(queue)>>
      BY <1>5, <1>6
    <3> QED
      BY <1>6, <3>1 DEF Query
  <2>2. TypeOK'
    <3>1. col' \in {"none", "loop", "query", "onTick", "free", "ended"}
      BY <2>1
    <3>2. gaveUp' \in BOOLEAN
      BY <2>1 DEF IInv, TypeOK
    <3> QED
      BY <1>1, <2>1, <3>1, <3>2, TypeGroups, TypesKept DEF IInv, CollectorTypes
  <2>3. Pipeline'
    BY <1>1, <2>1 DEF IInv, Pipeline, AsSent
  <2>4. Ordered'
    BY <1>1, <1>4, <2>1 DEF IInv, Ordered
  <2>5. Blocks'
    BY <1>1, <1>4, <2>1 DEF IInv, Blocks, Ids
  <2> QED
    BY <1>2, <1>3, <2>2, <2>3, <2>4, <2>5 DEF IInv
<1>7. CASE ~(UNCHANGED <<hand, queue>>)
  <2>1. /\ queue # <<>> /\ hand' = <<Head(queue)>> /\ queue' = Tail(queue)
        /\ col' = "onTick" /\ UNCHANGED gaveUp
    BY <1>7 DEF Query
  <2>2. /\ queue \in Seq(Block) /\ Len(queue) \in Nat /\ Len(queue) > 0
        /\ queue' \in Seq(Block) /\ Len(queue') = Len(queue) - 1
        /\ \A i \in 1..Len(queue') : queue'[i] = queue[i + 1]
        /\ Head(queue) = queue[1] /\ queue[1] \in Block
        /\ DOMAIN queue = 1..Len(queue) /\ DOMAIN queue' = 1..Len(queue')
    <3>1. queue \in Seq(Block) /\ Len(queue) \in Nat /\ Len(queue) > 0
      BY <2>1 DEF IInv, TypeOK
    <3> QED
      BY <2>1, <3>1
  <2>3. hand' \in Seq(Block) /\ Len(hand') = 1 /\ DOMAIN hand' = {1} /\ hand'[1] = queue[1]
    BY <2>1, <2>2
  <2>4. TypeOK'
    <3>1. col' \in {"none", "loop", "query", "onTick", "free", "ended"}
      BY <2>1
    <3> QED
      BY <1>1, <2>1, <2>2, <2>3, <3>1, TypeGroups, TypesKept DEF IInv, CollectorTypes, FeedTypes
  <2>5. /\ 1 \in DOMAIN queue
        /\ \A i \in DOMAIN queue' : i + 1 \in DOMAIN queue /\ queue'[i] = queue[i + 1] /\ 1 < i + 1
    BY <2>2
  <2>6. Pipeline'
    <3>1. ToSet(todo') \cup feed' \subseteq ToSet(pool') /\ born' <= arrived'
      BY <1>1 DEF IInv, Pipeline, AsSent
    <3>2. \A i \in DOMAIN queue' :
            /\ queue'[i].sym \in ToSet(pool') /\ queue'[i].id \in born' + 1..arrived'
            /\ tape'[queue'[i].id] = [sym |-> queue'[i].sym, total |-> queue'[i].total]
      BY <1>1, <2>5 DEF IInv, Pipeline, AsSent
    <3>3. \A i, j \in DOMAIN queue' : i < j => queue'[i].id < queue'[j].id
      <4> SUFFICES ASSUME NEW i \in DOMAIN queue', NEW j \in DOMAIN queue', i < j
                   PROVE  queue'[i].id < queue'[j].id
        OBVIOUS
      <4>1. i + 1 < j + 1
        BY <2>2
      <4> QED
        BY <2>5, <4>1 DEF IInv, Pipeline, AsSent
    <3>4. /\ hand'[1].sym \in ToSet(pool') /\ hand'[1].id \in born' + 1..arrived'
          /\ tape'[hand'[1].id] = [sym |-> hand'[1].sym, total |-> hand'[1].total]
          /\ \A i \in DOMAIN queue' : hand'[1].id < queue'[i].id
      BY <1>1, <2>3, <2>5 DEF IInv, Pipeline, AsSent
    <3>5. Len(tape') = arrived'
      BY <1>1 DEF IInv, Pipeline
    <3> QED
      BY <2>1, <2>3, <3>1, <3>2, <3>3, <3>4, <3>5 DEF Pipeline, AsSent
  <2>7. Ordered'
    <3> SUFFICES ASSUME NEW c \in Contracts
                 PROVE  /\ \A i \in DOMAIN Received(c) :
                             /\ Received(c)[i].id \in born + 1..arrived
                             /\ \A j \in DOMAIN queue' : Received(c)[i].id < queue'[j].id
                             /\ Received(c)[i].id < hand'[1].id
                        /\ \A i, j \in DOMAIN Received(c) :
                             i < j => Received(c)[i].id < Received(c)[j].id
      BY <1>1, <1>4, Zenon DEF Ordered
    <3> QED
      BY <2>3, <2>5 DEF IInv, Ordered
  <2>8. Blocks'
    <3>1. Ids(queue) = Ids(queue') \cup Ids(hand')
      <4>1. \A i \in DOMAIN queue : i = 1 \/ (i - 1 \in DOMAIN queue' /\ queue'[i - 1] = queue[i])
        BY <2>2
      <4> QED
        BY <2>3, <2>5, <4>1 DEF Ids
    <3>2. Ids(hand) = {}
      BY <1>5 DEF Ids
    <3>3. heap' = Ids(queue)' \cup Ids(hand)'
      BY <1>1, <3>1, <3>2 DEF IInv, Blocks, Ids
    <3>4. ~quit => born + 1..arrived = heap \cup UNION {Ids(Received(c)) : c \in Contracts}
      BY DEF IInv, Blocks
    <3>5. (~quit => born + 1..arrived = heap \cup UNION {Ids(Received(c)) : c \in Contracts})'
      BY <1>1, <1>4, <3>4 DEF Ids
    <3> QED
      BY <2>1, <3>3, <3>5 DEF Blocks
  <2> QED
    BY <1>2, <1>3, <2>4, <2>6, <2>7, <2>8 DEF IInv
<1> QED
  BY <1>6, <1>7

(* A tick that is freed was stored, unless stop() came before.             *)
LEMMA FreeStep ==
  ASSUME IInv, Free
  PROVE  IInv'
<1> USE DEF mainVars, data, colVars, feedVars, rest, ColAt
<1>1. /\ col = "free" /\ heap' = heap \ {hand[1].id} /\ hand' = <<>> /\ col' = "loop"
      /\ UNCHANGED <<mainVars, data, gaveUp, feed, queue, mdQuit, arrived, rest>>
  BY DEF Free
<1>2. hand \in Seq(Block) /\ Len(hand) = 1 /\ hand # <<>>
  <2>1. hand \in Seq(Block) /\ Len(hand) = 1
    BY <1>1 DEF IInv, TypeOK, Pipeline
  <2> QED
    BY <2>1
<1>3. DOMAIN hand = {1} /\ hand[1] \in Block
  BY <1>2
<1>4. TypeOK'
  <2>1. col' \in {"none", "loop", "query", "onTick", "free", "ended"}
    BY <1>1
  <2>2. heap' \subseteq 1..MaxTicks
    BY <1>1 DEF IInv, TypeOK
  <2>3. hand' \in Seq(Block)
    BY <1>1
  <2> QED
    BY <1>1, <2>1, <2>2, <2>3, TypeGroups, TypesKept DEF IInv, CollectorTypes, FeedTypes
<1>5. Pipeline'
  BY <1>1 DEF IInv, Pipeline, AsSent
<1>6. Phases'
  BY <1>1 DEF IInv, Phases
<1>7. Storages' /\ Follows' /\ Unsaved' /\ VolumesFollowTicks'
  BY <1>1, DataKept DEF IInv
<1>8. \A x : Received(x)' = Received(x)
  BY <1>1, ReceivedSame
<1>9. Ordered'
  BY <1>1, <1>8 DEF IInv, Ordered
<1>10. Blocks'
  <2>1. Ids(hand) = {hand[1].id} /\ Ids(hand') = {}
    BY <1>1, <1>3 DEF Ids
  <2>2. hand[1].id \notin Ids(queue)
    <3>1. ASSUME NEW j \in DOMAIN queue PROVE hand[1].id # queue[j].id
      <4>1. hand[1].id < queue[j].id /\ hand[1].id \in born + 1..arrived
            /\ queue[j].id \in born + 1..arrived
        BY <1>2, <3>1 DEF IInv, Pipeline, AsSent
      <4>2. born \in Int /\ arrived \in Int
        BY DEF IInv, TypeOK
      <4> QED
        BY <4>1, <4>2
    <3> QED
      BY <3>1 DEF Ids
  <2>3. heap = Ids(queue) \cup Ids(hand)
    BY DEF IInv, Blocks
  <2>4. heap' = Ids(queue') \cup Ids(hand')
    BY <1>1, <2>1, <2>2, <2>3 DEF Ids
  <2>5. ASSUME ~quit
        PROVE  born + 1..arrived = heap' \cup UNION {Ids(Received(c)) : c \in Contracts}
    <3>1. born + 1..arrived = heap \cup UNION {Ids(Received(c)) : c \in Contracts}
      BY <2>5 DEF IInv, Blocks
    <3>2. hand[1].sym \in Contracts /\ hand[1].id \in Ids(Received(hand[1].sym))
      BY <1>1, <1>3, <2>5 DEF IInv, Blocks, Block
    <3> QED
      BY <1>1, <3>1, <3>2
  <2>6. (~quit => born + 1..arrived = heap \cup UNION {Ids(Received(c)) : c \in Contracts})'
    BY <1>1, <1>8, <2>5 DEF Ids
  <2> QED
    BY <1>1, <2>4, <2>6 DEF Blocks, Ids
<1> QED
  BY <1>4, <1>5, <1>6, <1>7, <1>9, <1>10 DEF IInv

(* A tick that arrives is the last of the queue, with the highest number.  *)
LEMMA ArriveStep ==
  ASSUME IInv, Arrive
  PROVE  IInv'
<1> USE DEF mainVars, data, colVars, feedVars, rest
<1>1. PICK c \in feed, v \in Totals :
        /\ queue' = Append(queue, [id |-> arrived + 1, sym |-> c, total |-> v])
        /\ tape' = Append(tape, [sym |-> c, total |-> v])
  BY DEF Arrive
<1>2. /\ arrived < MaxTicks /\ arrived' = arrived + 1 /\ heap' = heap \cup {arrived + 1}
      /\ UNCHANGED <<mainVars, data, colVars, feed, mdQuit,
                     abort, folder, found, born, restarts>>
  BY DEF Arrive
<1> DEFINE t == [id |-> arrived + 1, sym |-> c, total |-> v]
<1>3. /\ arrived \in 0..MaxTicks /\ born \in Nat /\ born <= arrived /\ MaxTicks \in Nat
      /\ feed \subseteq Contracts /\ feed \subseteq ToSet(pool)
  BY ReceiverAssumption DEF IInv, TypeOK, Pipeline
<1>4. t \in Block /\ t.id = arrived + 1 /\ t.sym \in ToSet(pool)
  <2>1. arrived + 1 \in 1..MaxTicks
    BY <1>2, <1>3
  <2> QED
    BY <1>1, <1>3, <2>1 DEF Block
<1> HIDE DEF t
<1>5. /\ queue \in Seq(Block) /\ Len(queue) \in Nat /\ DOMAIN queue = 1..Len(queue)
      /\ queue' \in Seq(Block) /\ Len(queue') = Len(queue) + 1
      /\ DOMAIN queue' = 1..Len(queue')
      /\ \A i \in 1..Len(queue) : queue'[i] = queue[i]
      /\ queue'[Len(queue) + 1] = t
  <2>1. queue' = Append(queue, t) /\ queue \in Seq(Block)
    BY <1>1 DEF t, IInv, TypeOK
  <2> QED
    BY <1>4, <2>1
<1>6. TypeOK'
  <2>1. arrived' \in 0..MaxTicks /\ heap' \subseteq 1..MaxTicks
    BY <1>2, <1>3 DEF IInv, TypeOK
  <2>2. tape' \in Seq([sym : Contracts, total : Totals])
    <3>1. [sym |-> c, total |-> v] \in [sym : Contracts, total : Totals]
      BY <1>3
    <3> QED
      BY <1>1, <3>1 DEF IInv, TypeOK
  <2>3. queue' \in Seq(Block)
    BY <1>5
  <2>4. UNCHANGED <<mainVars, data, colVars, feed, mdQuit,
                    abort, folder, found, born, restarts>>
    BY <1>2
  <2> QED
    <3>1. (/\ locked \in BOOLEAN /\ quit \in BOOLEAN /\ mdQuit \in BOOLEAN
           /\ main \in {"idle", "launch", "subscribe", "subscribed", "running",
                       "unsubscribe", "clear", "freeing", "check"}
           /\ todo \in Seq(Contracts) /\ pool \in Seq(Contracts)
           /\ mainContract \in Contracts \cup {NoContract})'
      BY <2>4 DEF IInv, TypeOK
    <3>2. (/\ storage \in [Symbols -> Seq([id : 0..MaxTicks, total : Nat, volume : Nat])]
           /\ cached \subseteq Symbols /\ cache \in [Symbols -> Seq(0..MaxTicks)]
           /\ disk \in [Symbols -> Seq(Images)])'
      BY <2>4 DEF IInv, TypeOK
    <3>3. (/\ col \in {"none", "loop", "query", "onTick", "free", "ended"}
           /\ hand \in Seq(Block) /\ feed \subseteq Contracts /\ gaveUp \in BOOLEAN)'
      BY <2>4 DEF IInv, TypeOK
    <3>4. (/\ folder \in BOOLEAN /\ found \in [Symbols -> Nat] /\ born \in 0..MaxTicks
           /\ restarts \in 0..MaxRestarts
           /\ abort \in {"none", "load", "subscribe", "unsubscribe", "stop", "volume",
                         "overflow", "null", "race"})'
      BY <2>4 DEF IInv, TypeOK
    <3> QED
      BY <2>1, <2>2, <2>3, <3>1, <3>2, <3>3, <3>4 DEF TypeOK
<1>7. /\ 1..Len(queue') = 1..Len(queue) \cup {Len(queue) + 1}
      /\ born + 1..arrived + 1 = (born + 1..arrived) \cup {arrived + 1}
      /\ \A i \in born + 1..arrived : i < arrived + 1
  BY <1>3, <1>5
<1> DEFINE Sent(b) == tape'[b.id] = [sym |-> b.sym, total |-> b.total]
<1>8. /\ Len(tape') = arrived + 1 /\ Sent(t)
       /\ \A i \in born + 1..arrived : tape'[i] = tape[i]
  <2>1. /\ tape \in Seq([sym : Contracts, total : Totals]) /\ Len(tape) = arrived
    BY DEF IInv, TypeOK, Pipeline
  <2>2. [sym |-> c, total |-> v] \in [sym : Contracts, total : Totals]
    BY <1>3
  <2>3. /\ Len(tape') = arrived + 1 /\ \A i \in 1..arrived : tape'[i] = tape[i]
        /\ tape'[arrived + 1] = [sym |-> c, total |-> v]
    BY <1>1, <2>1, <2>2
  <2>4. Sent(t)
    BY <2>3 DEF t
  <2>5. \A i \in born + 1..arrived : i \in 1..arrived
    BY <1>3
  <2> QED
    BY <2>3, <2>4, <2>5
<1>9. Pipeline'
  <2>1. ToSet(todo') \cup feed' \subseteq ToSet(pool') /\ born' <= arrived' /\ Len(tape') = arrived'
    BY <1>2, <1>3, <1>8 DEF IInv, Pipeline
  <2>2. \A i \in DOMAIN queue' : /\ queue'[i].sym \in ToSet(pool)
                                /\ queue'[i].id \in born + 1..arrived + 1 /\ Sent(queue'[i])
    <3> SUFFICES ASSUME NEW i \in DOMAIN queue'
                 PROVE  /\ queue'[i].sym \in ToSet(pool)
                        /\ queue'[i].id \in born + 1..arrived + 1 /\ Sent(queue'[i])
      OBVIOUS
    <3>1. CASE i \in DOMAIN queue
      <4>1. /\ queue'[i] = queue[i] /\ queue[i].sym \in ToSet(pool)
            /\ queue[i].id \in born + 1..arrived /\ AsSent(queue[i])
        BY <1>5, <3>1 DEF IInv, Pipeline
      <4> QED
        BY <1>7, <1>8, <4>1 DEF AsSent
    <3>2. CASE i = Len(queue) + 1
      <4>1. queue'[i] = t
        BY <1>5, <3>2
      <4>2. Sent(queue'[i])
        BY <1>8, <4>1
      <4> QED
        BY <1>4, <1>7, <4>1, <4>2
    <3> QED
      BY <1>5, <1>7, <3>1, <3>2
  <2>3. \A i, j \in DOMAIN queue' : i < j => queue'[i].id < queue'[j].id
    <3> SUFFICES ASSUME NEW i \in DOMAIN queue', NEW j \in DOMAIN queue', i < j
                 PROVE  queue'[i].id < queue'[j].id
      OBVIOUS
    <3>1. i \in 1..Len(queue)
      BY <1>5
    <3>2. CASE j \in 1..Len(queue)
      BY <1>5, <3>1, <3>2 DEF IInv, Pipeline, AsSent
    <3>3. CASE j = Len(queue) + 1
      <4>1. queue[i].id \in born + 1..arrived
        BY <1>5, <3>1 DEF IInv, Pipeline, AsSent
      <4> QED
        BY <1>4, <1>5, <1>7, <3>1, <3>3, <4>1
    <3> QED
      BY <1>5, <1>7, <3>2, <3>3
  <2>4. hand' # <<>> =>
           /\ hand'[1].sym \in ToSet(pool) /\ hand'[1].id \in born + 1..arrived + 1
           /\ Sent(hand'[1])
           /\ \A i \in DOMAIN queue' : hand'[1].id < queue'[i].id
    BY <1>2, <1>4, <1>5, <1>7, <1>8 DEF IInv, Pipeline, AsSent
  <2>5. Len(hand') = IF col' \in {"onTick", "free"} THEN 1 ELSE 0
    BY <1>2 DEF IInv, Pipeline, AsSent
  <2> QED
    BY <1>2, <2>1, <2>2, <2>3, <2>4, <2>5 DEF Pipeline, AsSent
<1>10. Phases'
  BY <1>1, <1>2 DEF IInv, Phases
<1>11. \A x : Received(x)' = Received(x) /\ Base(x)' = Base(x)
  BY <1>2, ReceivedSame
<1> DEFINE After(x, n) ==
             LET before == {k \in born' + 1..n - 1 : tape'[k].sym = x}
             IN  IF before = {} THEN Base(x)' ELSE tape'[Max(before)].total
<1>12. Storages' /\ Follows' /\ Unsaved' /\ VolumesFollowTicks'
  <2>1. Storages' /\ Follows' /\ Unsaved'
    BY <1>2 DEF IInv, Storages, Follows, Unsaved, CacheIsUnsaved, Received, FromFile, Fitting
  <2>2. ASSUME NEW x \in Contracts, NEW i \in DOMAIN Received(x)
        PROVE  LET e == Received(x)[i]
               IN  /\ tape'[e.id] = [sym |-> x, total |-> e.total]
                   /\ e.volume = e.total - After(x, e.id)
    <3> DEFINE e == Received(x)[i]
    <3>1. /\ e.id \in born + 1..arrived /\ tape[e.id] = [sym |-> x, total |-> e.total]
          /\ e.volume = e.total - TotalBefore(x, e.id)
      BY <2>2 DEF IInv, Ordered, VolumesFollowTicks
    <3> HIDE DEF e
    <3>2. \A k \in born + 1..e.id - 1 : tape'[k] = tape[k]
      BY <1>3, <1>8, <3>1
    <3> DEFINE before == {k \in born + 1..e.id - 1 : tape[k].sym = x}
               after == {k \in born + 1..e.id - 1 : tape'[k].sym = x}
    <3>3. before = after
      BY <3>2
    <3>4. before = {} \/ Max(before) \in before
      <4>1. before \subseteq 1..arrived
        BY <1>3, <3>1
      <4>2. arrived \in Nat
        BY <1>3
      <4> HIDE DEF before
      <4> QED
        BY <4>1, <4>2, Maximum, Zenon
    <3>5. TotalBefore(x, e.id) = IF before = {} THEN Base(x) ELSE tape[Max(before)].total
      BY DEF TotalBefore
    <3>6. After(x, e.id) = IF after = {} THEN Base(x)' ELSE tape'[Max(after)].total
      BY <1>2
    <3>7. After(x, e.id) = TotalBefore(x, e.id)
      <4>1. before = {} \/ tape'[Max(before)] = tape[Max(before)]
        BY <3>2, <3>4
      <4> HIDE DEF before, after
      <4> QED
        BY <1>11, <3>3, <3>5, <3>6, <4>1
    <3> QED
      BY <1>8, <3>1, <3>7 DEF e
  <2>3. VolumesFollowTicks'
    <3>1. mainContract' # NoContract => IsPrefix(Received(Index)', Received(mainContract)')
      BY <2>1 DEF Follows
    <3> QED
      BY <1>11, <2>2, <3>1 DEF VolumesFollowTicks, TotalBefore
  <2> QED
    BY <2>1, <2>3
<1>13. Ordered'
  <2> SUFFICES ASSUME NEW x \in Contracts
               PROVE  /\ \A i \in DOMAIN Received(x) :
                           /\ Received(x)[i].id \in born + 1..arrived + 1
                           /\ \A j \in DOMAIN queue' : Received(x)[i].id < queue'[j].id
                           /\ col = "onTick" => Received(x)[i].id < hand[1].id
                      /\ \A i, j \in DOMAIN Received(x) :
                           i < j => Received(x)[i].id < Received(x)[j].id
    BY <1>2, <1>11, Zenon DEF Ordered
  <2> QED
    BY <1>4, <1>5, <1>7 DEF IInv, Ordered
<1>14. Blocks'
  <2>1. Ids(queue') = Ids(queue) \cup {arrived + 1}
    BY <1>4, <1>5, <1>7 DEF Ids
  <2>2. heap' = Ids(queue') \cup Ids(hand)
    BY <1>2, <2>1 DEF IInv, Blocks
  <2>3. ~quit => born + 1..arrived + 1 = heap' \cup UNION {Ids(Received(x)) : x \in Contracts}
    BY <1>2, <1>7 DEF IInv, Blocks
  <2>4. (~quit => born + 1..arrived = heap \cup UNION {Ids(Received(x)) : x \in Contracts})'
    BY <1>2, <1>11, <2>3 DEF Ids
  <2>5. (col = "free" /\ ~quit => hand[1].id \in Ids(Received(hand[1].sym)))'
    BY <1>2, <1>11 DEF IInv, Blocks, Ids
  <2> QED
    BY <1>2, <2>2, <2>4, <2>5 DEF Blocks, Ids
<1> QED
  BY <1>6, <1>9, <1>10, <1>12, <1>13, <1>14 DEF IInv

(* A restart finds on file what was saved, and begins to count there.      *)
LEMMA RestartStep ==
  ASSUME IInv, Restart
  PROVE  IInv'
<1> USE DEF mainVars, data, colVars, feedVars, rest
<1>1. /\ restarts < MaxRestarts /\ restarts' = restarts + 1
      /\ locked' = FALSE /\ quit' = FALSE /\ main' = "idle" /\ todo' = <<>>
      /\ pool' = <<>> /\ mainContract' = NoContract
      /\ storage' = [x \in Symbols |-> <<>>] /\ cached' = {}
      /\ cache' = [x \in Symbols |-> <<>>]
      /\ col' = "none" /\ hand' = <<>> /\ gaveUp' = FALSE
      /\ feed' = {} /\ queue' = <<>> /\ mdQuit' = FALSE /\ heap' = {} /\ abort' = "none"
      /\ found' = [x \in Symbols |-> Len(disk[x])] /\ born' = arrived
      /\ UNCHANGED <<arrived, tape, folder, disk>>
  BY DEF Restart
<1>2. /\ \A x \in Symbols : storage'[x] = <<>> /\ cache'[x] = <<>> /\ found'[x] = Len(disk[x])
      /\ \A x \in Symbols : Len(disk[x]) \in Nat
      /\ Contracts \subseteq Symbols
  <2>1. \A x \in Symbols : disk[x] \in Seq(Images)
    BY DEF IInv, TypeOK
  <2>2. \A x \in Symbols : Len(disk[x]) \in Nat
    BY <2>1
  <2> QED
    BY <1>1, <2>2 DEF Symbols
<1>3. \A x \in Symbols : Received(x)' = <<>>
  <2> SUFFICES ASSUME NEW x \in Symbols PROVE Received(x)' = <<>>
    OBVIOUS
  <2>1. FromFile(x)' \in Nat
    BY <1>2, ReceiverAssumption DEF FromFile, Fitting
  <2>2. <<>> \in Seq(Record) /\ Len(<<>>) <= FromFile(x)'
    BY <2>1
  <2>3. SubSeq(<<>>, FromFile(x)' + 1, Len(<<>>)) = <<>>
    BY <2>1, <2>2, AfterAll
  <2> QED
    BY <1>2, <2>3 DEF Received
<1>4. TypeOK'
  <2>1. restarts' \in 0..MaxRestarts
    BY <1>1, ReceiverAssumption DEF IInv, TypeOK
  <2>2. /\ todo' \in Seq(Contracts) /\ pool' \in Seq(Contracts)
        /\ hand' \in Seq(Block) /\ queue' \in Seq(Block)
    BY <1>1
  <2>3. storage' \in [Symbols -> Seq([id : 0..MaxTicks, total : Nat, volume : Nat])]
    BY <1>1
  <2>4. cache' \in [Symbols -> Seq(0..MaxTicks)] /\ found' \in [Symbols -> Nat]
    BY <1>1, <1>2
  <2>5. cached' \subseteq Symbols /\ feed' \subseteq Contracts /\ heap' \subseteq 1..MaxTicks
    BY <1>1
  <2>6. disk' \in [Symbols -> Seq(Images)] /\ tape' \in Seq([sym : Contracts, total : Totals])
        /\ arrived' \in 0..MaxTicks /\ born' \in 0..MaxTicks /\ folder' \in BOOLEAN
    BY <1>1 DEF IInv, TypeOK
  <2>7. /\ locked' \in BOOLEAN /\ quit' \in BOOLEAN /\ mdQuit' \in BOOLEAN /\ gaveUp' \in BOOLEAN
        /\ mainContract' \in Contracts \cup {NoContract}
    BY <1>1
  <2> QED
    BY <1>1, <2>1, <2>2, <2>3, <2>4, <2>5, <2>6, <2>7 DEF TypeOK
<1>5. Pipeline'
  <2>1. arrived \in Nat
    BY ReceiverAssumption DEF IInv, TypeOK
  <2> QED
    BY <1>1, <2>1 DEF IInv, Pipeline, ToSet
<1>6. Phases'
  BY <1>1, <1>2 DEF Phases
<1>7. Storages'
  BY <1>1, <1>2 DEF Storages, FilesOf
<1>8. Ordered'
  BY <1>2, <1>3 DEF Ordered
<1>9. Blocks'
  <2>1. born' + 1..arrived' = {}
    <3>1. arrived \in Nat
      BY ReceiverAssumption DEF IInv, TypeOK
    <3> QED
      BY <1>1, <3>1
  <2>2. Ids(queue') = {} /\ Ids(hand') = {}
    BY <1>1 DEF Ids
  <2>3. \A c \in Contracts : Ids(Received(c)') = {}
    BY <1>2, <1>3 DEF Ids
  <2>4. (UNION {Ids(Received(c)) : c \in Contracts})' = {}
    BY <2>3 DEF Ids
  <2> QED
    BY <1>1, <2>1, <2>2, <2>4 DEF Blocks, Ids
<1>10. Follows'
  BY <1>1 DEF Follows
<1>11. Unsaved'
  <2>1. ASSUME NEW c \in Contracts
        PROVE  LET n == Len(cache'[c])
                   m == Len(Received(c)')
               IN  /\ n <= SaveAt /\ n <= m
                   /\ \A i \in 1..n : cache'[c][i] = Received(c)'[m - n + i].id
                   /\ folder' => Len(disk'[c]) = found'[c] + (IF quit' THEN m ELSE m - n)
                   /\ ~folder' => Len(disk'[c]) = found'[c]
    <3>1. /\ cache'[c] = <<>> /\ Received(c)' = <<>> /\ found'[c] = Len(disk'[c])
          /\ Len(disk'[c]) \in Nat /\ ~quit'
      BY <1>1, <1>2, <1>3
    <3> HIDE DEF data, rest
    <3> QED
      BY <3>1, ReceiverAssumption
  <2>2. \A c \in Contracts : cache'[c] = <<>>
    BY <1>2
  <2> QED
    BY <2>1, <2>2, Zenon DEF Unsaved, CacheIsUnsaved
<1>12. VolumesFollowTicks'
  BY <1>1, <1>2, <1>3 DEF VolumesFollowTicks
<1> QED
  BY <1>4, <1>5, <1>6, <1>7, <1>8, <1>9, <1>10, <1>11, <1>12 DEF IInv

(* start() loads the valid records that fit: a storage then ends where its *)
(* file does, and holds no volume yet.                                     *)
LEMMA StartStep ==
  ASSUME IInv, Start
  PROVE  IInv'
<1> USE DEF mainVars, data, colVars, feedVars, rest
<1>1. PICK list \in Lists :
        \/ Die("load")
        \/ /\ ~(\E x \in FilesOf(list) : \E v \in ToSet(Loaded(x)) : v < 0)
           /\ pool' = list /\ todo' = list
           /\ \E f \in [Contracts -> 0..MaxOi] : mainContract' = MainOf(list, f)
           /\ storage' = [x \in Symbols |->
                            IF x \in FilesOf(list)
                            THEN [i \in DOMAIN Loaded(x) |->
                                   [id |-> 0, total |-> Loaded(x)[i], volume |-> 0]]
                            ELSE <<>>]
           /\ cached' = FilesOf(list) \cap {Index}
           /\ locked' = TRUE /\ main' = "launch"
           /\ UNCHANGED <<quit, cache, disk, colVars, feedVars, rest>>
  BY DEF Start
<1>2. CASE Die("load")
  BY <1>2, OnlyAbort DEF Die
<1>3. CASE ~Die("load")
  <2>1. /\ \A x \in FilesOf(list) : \A v \in ToSet(Loaded(x)) : ~(v < 0)
        /\ pool' = list /\ todo' = list
        /\ \E f \in [Contracts -> 0..MaxOi] : mainContract' = MainOf(list, f)
        /\ storage' = [x \in Symbols |->
                         IF x \in FilesOf(list)
                         THEN [i \in DOMAIN Loaded(x) |->
                                [id |-> 0, total |-> Loaded(x)[i], volume |-> 0]]
                         ELSE <<>>]
        /\ cached' = FilesOf(list) \cap {Index}
        /\ locked' = TRUE /\ main' = "launch"
        /\ UNCHANGED <<quit, cache, disk, colVars, feedVars, rest>>
    BY <1>1, <1>3
  <2>2. list \in Seq(Contracts) /\ ToSet(list) \subseteq Contracts
    <3>1. list \in Seq(Contracts)
      BY ListsAreSequences
    <3> QED
      BY <3>1 DEF ToSet
  <2>3. mainContract' \in ToSet(list) \cup {NoContract}
    BY <2>1, <2>2, MainOfList
  <2>4. /\ main = "idle" /\ abort = "none"
        /\ col = "none" /\ feed = {} /\ queue = <<>> /\ heap = {} /\ arrived = born /\ ~quit
        /\ \A x \in Symbols : cache[x] = <<>> /\ found[x] = Len(disk[x])
    BY DEF IInv, Phases, Start, MainAt
  <2>5. ASSUME NEW x \in Symbols
        PROVE  /\ FromFile(x) \in Nat /\ storage'[x] \in Seq(Record)
               /\ Len(storage'[x]) = IF x \in FilesOf(list) THEN FromFile(x) ELSE 0
               /\ \A i \in 1..Len(storage'[x]) : storage'[x][i].volume = 0
    <3>1. disk[x] \in Seq(Images) /\ Len(disk[x]) \in Nat /\ found[x] = Len(disk[x])
      <4>1. disk[x] \in Seq(Images)
        BY DEF IInv, TypeOK
      <4> QED
        BY <2>4, <4>1
    <3>2. /\ FromFile(x) = Fitting(Len(disk[x])) /\ FromFile(x) \in Nat
          /\ FromFile(x) <= Len(disk[x])
      BY <3>1, ReceiverAssumption DEF FromFile, Fitting
    <3>3. CASE x \in FilesOf(list)
      <4> DEFINE n == FromFile(x)
                 l == Loaded(x)
      <4>1. /\ l \in Seq(Images) /\ Len(l) = n /\ DOMAIN l = 1..n
        <5>1. l = SubSeq(disk[x], 1, n)
          BY <3>2 DEF Loaded
        <5> HIDE DEF l, n
        <5> QED
          BY <3>1, <3>2, <5>1 DEF n
      <4>2. \A i \in 1..n : l[i] \in Nat
        <5> SUFFICES ASSUME NEW i \in 1..n PROVE l[i] \in Nat
          OBVIOUS
        <5>1. l[i] \in Images /\ l[i] \in ToSet(l)
          BY <4>1 DEF ToSet
        <5>2. l[i] \in Int /\ ~(l[i] < 0)
          BY <2>1, <3>3, <5>1, ReceiverAssumption
        <5> QED
          BY <5>2
      <4>3. storage'[x] = [i \in 1..n |-> [id |-> 0, total |-> l[i], volume |-> 0]]
        BY <2>1, <3>3, <4>1
      <4>4. 0 \in 0..MaxTicks
        BY ReceiverAssumption
      <4> HIDE DEF l, n
      <4>5. n \in Nat
        BY <3>2 DEF n
      <4>6. storage'[x] \in [1..n -> Record]
        BY <4>2, <4>3, <4>4 DEF Record
      <4>7. storage'[x] \in Seq(Record) /\ Len(storage'[x]) = n
        BY <4>5, <4>6
      <4>8. \A i \in 1..n : storage'[x][i].volume = 0
        BY <4>3
      <4> QED
        BY <3>2, <3>3, <4>7, <4>8 DEF n
    <3>4. CASE x \notin FilesOf(list)
      <4>1. storage'[x] = <<>>
        BY <2>1, <3>4
      <4> QED
        BY <3>2, <3>4, <4>1
    <3> QED
      BY <3>3, <3>4
  <2>6. \A x : FromFile(x)' = FromFile(x)
    BY <2>1 DEF FromFile, Fitting
  <2>7. \A x \in Symbols : Received(x)' = <<>>
    <3> SUFFICES ASSUME NEW x \in Symbols PROVE Received(x)' = <<>>
      OBVIOUS
    <3>1. FromFile(x) \in Nat /\ storage'[x] \in Seq(Record) /\ Len(storage'[x]) <= FromFile(x)
      BY <2>5
    <3>2. SubSeq(storage'[x], FromFile(x) + 1, Len(storage'[x])) = <<>>
      BY <3>1, AfterAll
    <3> QED
      BY <2>6, <3>2 DEF Received
  <2>8. Contracts \subseteq Symbols
    BY DEF Symbols
  <2>9. TypeOK'
    <3>1. /\ locked' \in BOOLEAN
          /\ main' \in {"idle", "launch", "subscribe", "subscribed", "running",
                        "unsubscribe", "clear", "freeing", "check"}
      BY <2>1
    <3>2. pool' \in Seq(Contracts) /\ todo' \in Seq(Contracts)
          /\ mainContract' \in Contracts \cup {NoContract}
      BY <2>1, <2>2, <2>3
    <3>3. storage' \in [Symbols -> Seq([id : 0..MaxTicks, total : Nat, volume : Nat])]
      <4>1. \A x \in Symbols : storage'[x] \in Seq(Record)
        BY <2>5
      <4> QED
        BY <2>1, <4>1 DEF Record
    <3>4. cached' \subseteq Symbols
      BY <2>1 DEF Symbols
    <3>5. UNCHANGED <<quit, cache, disk, colVars, feedVars, rest>>
      BY <2>1
    <3> QED
      BY <3>1, <3>2, <3>3, <3>4, <3>5, TypeGroups, TypesKept DEF IInv, MainTypes, DataTypes
  <2>10. Pipeline'
    BY <2>1, <2>4 DEF IInv, Pipeline, AsSent
  <2>11. Phases'
    BY <2>1, <2>4 DEF Phases
  <2>12. Storages'
    <3>1. \A x \in Symbols : storage'[x] \in Seq(Record) /\ Len(storage'[x]) \in Nat
      BY <2>5
    <3>2. \A x \in Symbols : IF x \in FilesOf(list) THEN FromFile(x) <= Len(storage'[x])
                             ELSE storage'[x] = <<>>
      BY <2>1, <2>5
    <3>3. mainContract' # NoContract => mainContract' \in ToSet(list)
      BY <2>3
    <3> QED
      BY <2>1, <2>6, <3>2, <3>3 DEF Storages
  <2>13. Ordered'
    BY <2>7, <2>8 DEF Ordered
  <2>14. Blocks'
    <3>1. \A c \in Contracts : Ids(Received(c)') = {} /\ Ids(Received(c)) = {}
      <4>1. \A c \in Contracts : Received(c) = <<>>
        <5> SUFFICES ASSUME NEW c \in Contracts PROVE Received(c) = <<>>
          OBVIOUS
        <5>1. storage[c] = <<>>
          BY <2>4, <2>8 DEF IInv, Phases
        <5>2. FromFile(c) \in Nat
          BY <2>5, <2>8
        <5>3. <<>> \in Seq(Record) /\ Len(<<>>) <= FromFile(c)
          BY <5>2
        <5> QED
          BY <5>1, <5>2, <5>3, AfterAll DEF Received
      <4> QED
        BY <2>7, <2>8, <4>1 DEF Ids
    <3>2. (UNION {Ids(Received(c)) : c \in Contracts})' = UNION {Ids(Received(c)) : c \in Contracts}
      BY <3>1 DEF Ids
    <3>3. heap = Ids(queue) \cup Ids(hand)
          /\ (~quit => born + 1..arrived = heap \cup UNION {Ids(Received(c)) : c \in Contracts})
      BY DEF IInv, Blocks
    <3>4. heap' = (Ids(queue) \cup Ids(hand))'
      BY <2>1, <3>3 DEF Ids
    <3>5. (~quit => born + 1..arrived = heap \cup UNION {Ids(Received(c)) : c \in Contracts})'
      BY <2>1, <3>2, <3>3
    <3> QED
      BY <2>1, <2>4, <3>4, <3>5 DEF Blocks
  <2>15. Follows'
    <3> SUFFICES ASSUME mainContract' # NoContract
                 PROVE  /\ IsPrefix(Received(Index)', Received(mainContract)')
                        /\ Received(Index)' = Received(mainContract)'
      BY DEF Follows
    <3>1. Index \in Symbols /\ mainContract' \in Symbols
      BY <2>2, <2>3 DEF Symbols
    <3>2. Received(Index)' = <<>> /\ Received(mainContract)' = <<>>
      BY <2>7, <3>1 DEF Received, FromFile
    <3>3. <<>> \in Seq(Record)
      OBVIOUS
    <3> QED
      BY <3>2, <3>3, PrefixOfItself
  <2>16. Unsaved'
    <3>1. ASSUME NEW c \in Contracts
          PROVE  LET n == Len(cache'[c])
                     m == Len(Received(c)')
                 IN  /\ n <= SaveAt /\ n <= m
                     /\ \A i \in 1..n : cache'[c][i] = Received(c)'[m - n + i].id
                     /\ folder' => Len(disk'[c]) = found'[c] + (IF quit' THEN m ELSE m - n)
                     /\ ~folder' => Len(disk'[c]) = found'[c]
      <4>1. /\ cache'[c] = <<>> /\ Received(c)' = <<>> /\ found'[c] = Len(disk'[c])
            /\ found[c] \in Nat /\ found' = found /\ ~quit'
        BY <2>1, <2>4, <2>7, <2>8 DEF IInv, TypeOK
      <4> HIDE DEF data, rest
      <4> QED
        BY <4>1, ReceiverAssumption
    <3>2. \A c \in Contracts : cache'[c] = <<>>
      BY <2>1, <2>4, <2>8
    <3> QED
      BY <3>1, <3>2, Zenon DEF Unsaved, CacheIsUnsaved
  <2>17. VolumesFollowTicks'
    <3>1. \A c \in Contracts : DOMAIN Received(c)' = {}
      BY <2>7, <2>8
    <3>2. mainContract' # NoContract => IsPrefix(Received(Index)', Received(mainContract)')
      BY <2>15 DEF Follows
    <3> QED
      BY <3>1, <3>2 DEF VolumesFollowTicks
  <2> QED
    BY <2>9, <2>10, <2>11, <2>12, <2>13, <2>14, <2>15, <2>16, <2>17 DEF IInv
<1> QED
  BY <1>2, <1>3

(* onTick stores the tick once, after every tick stored before, with the   *)
(* volume its total adds; and what it clears from the vector it has saved. *)
LEMMA KeepStep ==
  ASSUME IInv, ColAt("onTick"), ~quit, NEW t, t = hand[1],
         VolumeOf(t) >= 0, Len(storage[t.sym]) < StoreCap, t.sym \in cached,
         Keep(t), col' = "free", UNCHANGED <<mainVars, hand, gaveUp, feedVars, rest>>
  PROVE  IInv'
<1> USE DEF mainVars, data, colVars, feedVars, rest
<1> DEFINE r == Stored(t)
<1>1. TypeOK /\ col = "onTick"
  BY DEF IInv, ColAt
<1>2. hand \in Seq(Block) /\ Len(hand) = 1 /\ hand # <<>>
  <2>1. hand \in Seq(Block) /\ Len(hand) = 1
    BY <1>1 DEF IInv, TypeOK, Pipeline
  <2>2. Len(<<>>) # 1
    OBVIOUS
  <2> QED
    BY <2>1, <2>2, Zenon
<1>3. /\ t \in Block /\ t.sym \in Contracts /\ t.id \in 1..MaxTicks /\ t.total \in Nat
      /\ t.sym \in ToSet(pool) /\ t.id \in born + 1..arrived
      /\ \A i \in DOMAIN queue : t.id < queue[i].id
  <2>1. t \in Block
    BY <1>2
  <2>2. t.sym \in Contracts /\ t.id \in 1..MaxTicks /\ t.total \in Nat
    BY <2>1, ReceiverAssumption DEF Block
  <2> QED
    BY <1>2, <2>1, <2>2 DEF IInv, Pipeline, AsSent
<1>4. /\ Contracts \subseteq Symbols /\ Index \in Symbols /\ Index \notin Contracts
      /\ NoContract \notin Symbols
  BY ReceiverAssumption DEF Symbols
<1>5. /\ FilesOf(pool) = ToSet(pool) \cup {Index} /\ t.sym \in FilesOf(pool)
      /\ Index \in FilesOf(pool)
  <2>1. pool # <<>>
    BY <1>3 DEF ToSet
  <2> QED
    BY <1>3, <2>1 DEF FilesOf
<1>6. \A x \in FilesOf(pool) : FromFile(x) <= Len(storage[x])
  <2>1. FilesOf(pool) \subseteq Symbols
    <3>1. ToSet(pool) \subseteq Contracts
      BY <1>1 DEF TypeOK, ToSet
    <3> QED
      BY <1>4, <1>5, <3>1
  <2> QED
    BY <2>1 DEF IInv, Storages
<1>7. /\ r \in Record /\ r.id = t.id /\ r.total = t.total /\ r.volume = VolumeOf(t)
      /\ VolumeOf(t) \in Nat
  <2>1. VolumeOf(t) \in Int
    <3>1. CASE storage[t.sym] = <<>>
      BY <1>3, <3>1 DEF VolumeOf
    <3>2. CASE storage[t.sym] # <<>>
      <4>1. storage[t.sym] \in Seq(Record)
        BY <1>1, <1>3, <1>4, ReceivedFacts
      <4>2. Last(storage[t.sym]) \in Record
        BY <3>2, <4>1 DEF Last
      <4>3. Last(storage[t.sym]).total \in Nat
        BY <4>2 DEF Record
      <4> QED
        BY <1>3, <3>2, <4>3 DEF VolumeOf
    <3> QED
      BY <3>1, <3>2
  <2>2. VolumeOf(t) \in Nat
    BY <2>1
  <2>3. t.id \in 0..MaxTicks
    BY <1>3
  <2> QED
    BY <1>3, <2>2, <2>3 DEF Stored, Record
<1> HIDE DEF r
(* What becomes of each symbol's storage.                                  *)
<1>8. /\ Takers(t) \subseteq FilesOf(pool) /\ Takers(t) \subseteq Symbols
      /\ Takers(t) \cap Contracts = {t.sym}
      /\ Index \in Takers(t) <=> (t.sym = mainContract /\ Len(storage[Index]) < StoreCap)
  BY <1>3, <1>4, <1>5 DEF Takers
<1>9. /\ storage' = [x \in Symbols |-> IF x \in Takers(t) THEN Append(storage[x], r)
                                       ELSE storage[x]]
      /\ cache' = [x \in Symbols |->
                     IF x = t.sym THEN Appended(cache[x], t.id)
                     ELSE IF x = Index /\ t.sym = mainContract THEN Append(cache[x], 0)
                     ELSE cache[x]]
      /\ Save({x \in {t.sym} : Len(cache[x]) = SaveAt})
      /\ UNCHANGED cached
  BY DEF Keep, r
<1>10. ASSUME NEW x \in Symbols
       PROVE  /\ storage[x] \in Seq(Record) /\ FromFile(x) \in Nat /\ Received(x) \in Seq(Record)
  BY <1>1, ReceivedFacts
<1>11. ASSUME NEW x \in Takers(t)
       PROVE  /\ storage'[x] = Append(storage[x], r) /\ Received(x)' = Append(Received(x), r)
              /\ storage'[x] \in Seq(Record) /\ Len(storage'[x]) = Len(storage[x]) + 1
              /\ FromFile(x)' = FromFile(x) /\ FromFile(x) <= Len(storage[x])
  <2>1. x \in Symbols /\ storage[x] \in Seq(Record) /\ FromFile(x) <= Len(storage[x])
    BY <1>1, <1>6, <1>8, ReceivedFacts
  <2>2. storage'[x] = Append(storage[x], r)
    BY <1>9, <2>1
  <2>3. Received(x)' = Append(Received(x), r) /\ FromFile(x)' = FromFile(x)
    BY <1>1, <1>7, <2>1, <2>2, ReceivedMore
  <2> QED
    BY <1>7, <2>1, <2>2, <2>3
<1>12. ASSUME NEW x \in Symbols \ Takers(t)
       PROVE  /\ storage'[x] = storage[x] /\ Received(x)' = Received(x)
              /\ FromFile(x)' = FromFile(x) /\ Base(x)' = Base(x)
  <2>1. storage'[x] = storage[x]
    BY <1>9
  <2> QED
    BY <2>1, ReceivedKept
(* The disk, the cache and the types.                                      *)
<1>13. /\ disk' \in [Symbols -> Seq(Images)]
       /\ \A x \in Symbols : Len(disk'[x]) = Len(disk[x]) +
            IF folder /\ x \in {y \in {t.sym} : Len(cache[y]) = SaveAt} THEN Len(cache[x]) ELSE 0
  <2>1. {y \in {t.sym} : Len(cache[y]) = SaveAt} \in SUBSET Symbols
    BY <1>3, <1>4
  <2> QED
    BY <1>1, <1>9, <2>1, SaveFacts
<1>14. TypeOK'
  <2>1. storage' \in [Symbols -> Seq([id : 0..MaxTicks, total : Nat, volume : Nat])]
    <3>1. \A x \in Symbols : storage'[x] \in Seq(Record)
      BY <1>10, <1>11, <1>12
    <3> QED
      BY <1>9, <3>1 DEF Record
  <2>2. cache' \in [Symbols -> Seq(0..MaxTicks)]
    <3>1. ASSUME NEW x \in Symbols PROVE cache'[x] \in Seq(0..MaxTicks)
      <4>1. cache[x] \in Seq(0..MaxTicks) /\ t.id \in 0..MaxTicks /\ 0 \in 0..MaxTicks
        <5>1. cache[x] \in Seq(0..MaxTicks)
          BY <1>1, <3>1, TypeGroups DEF DataTypes
        <5> QED
          BY <1>3, <5>1, ReceiverAssumption
      <4>2. /\ Appended(cache[x], t.id) \in Seq(0..MaxTicks)
            /\ Append(cache[x], 0) \in Seq(0..MaxTicks)
        <5>1. /\ <<t.id>> \in Seq(0..MaxTicks) /\ Append(cache[x], t.id) \in Seq(0..MaxTicks)
              /\ Append(cache[x], 0) \in Seq(0..MaxTicks)
          BY <4>1
        <5> QED
          BY <5>1 DEF Appended
      <4> QED
        BY <1>9, <4>1, <4>2
    <3> QED
      BY <1>9, <3>1
  <2>3. col' \in {"none", "loop", "query", "onTick", "free", "ended"}
    OBVIOUS
  <2>4. UNCHANGED <<mainVars, cached, hand, gaveUp, feedVars, rest>>
    BY <1>9
  <2> QED
    BY <1>1, <1>13, <2>1, <2>2, <2>3, <2>4, TypeGroups, TypesKept DEF DataTypes, CollectorTypes
<1>15. Pipeline'
  BY <1>1 DEF IInv, Pipeline, AsSent
<1>16. Phases'
  <2>1. main \notin {"idle", "launch"}
    BY <1>1 DEF IInv, Phases
  <2> QED
    BY <1>1, <2>1 DEF IInv, Phases
<1>17. Storages'
  <2>1. ASSUME NEW x \in Symbols
        PROVE  IF x \in FilesOf(pool) THEN FromFile(x)' <= Len(storage'[x])
               ELSE storage'[x] = <<>>
    <3>1. CASE x \in Takers(t)
      <4>1. /\ FromFile(x)' = FromFile(x) /\ FromFile(x) <= Len(storage[x])
            /\ Len(storage'[x]) = Len(storage[x]) + 1
        BY <1>11, <3>1
      <4>2. FromFile(x) \in Nat /\ Len(storage[x]) \in Nat
        BY <1>1, ReceivedFacts
      <4> QED
        BY <1>8, <3>1, <4>1, <4>2
    <3>2. CASE x \notin Takers(t)
      BY <1>12, <3>2 DEF IInv, Storages
    <3> QED
      BY <3>1, <3>2
  <2> QED
    BY <2>1 DEF IInv, Storages
(* The order of the ticks stored, and their blocks.                        *)
<1>18. ASSUME NEW c \in Contracts
       PROVE  /\ Received(c) \in Seq(Record) /\ Len(Received(c)) \in Nat
              /\ DOMAIN Received(c) = 1..Len(Received(c))
              /\ c # t.sym => Received(c)' = Received(c)
              /\ c = t.sym =>
                   /\ DOMAIN Received(c)' = 1..Len(Received(c)) + 1
                   /\ \A i \in DOMAIN Received(c) : Received(c)'[i] = Received(c)[i]
                   /\ Received(c)'[Len(Received(c)) + 1].id = t.id
  <2>1. Received(c) \in Seq(Record)
    BY <1>1, <1>4, ReceivedFacts
  <2>2. CASE c = t.sym
    <3>1. Received(c)' = Append(Received(c), r)
      BY <1>8, <1>11, <2>2
    <3> DEFINE s == Received(c)
    <3>2. s \in Seq(Record) /\ Received(c)' = Append(s, r)
      BY <2>1, <3>1
    <3> HIDE DEF s
    <3>3. /\ Len(s) \in Nat /\ DOMAIN s = 1..Len(s)
          /\ DOMAIN Append(s, r) = 1..Len(s) + 1
          /\ \A i \in 1..Len(s) : Append(s, r)[i] = s[i]
          /\ Append(s, r)[Len(s) + 1] = r
      BY <1>7, <3>2
    <3> QED
      BY <1>7, <2>2, <3>2, <3>3 DEF s
  <2>3. CASE c # t.sym
    <3>1. c \in Symbols \ Takers(t)
      BY <1>4, <1>8, <2>3
    <3>2. Received(c)' = Received(c)
      BY <1>12, <3>1
    <3> DEFINE s == Received(c)
    <3>3. s \in Seq(Record)
      BY <2>1
    <3> HIDE DEF s
    <3>4. Len(s) \in Nat /\ DOMAIN s = 1..Len(s)
      BY <3>3
    <3> QED
      BY <2>1, <2>3, <3>2, <3>4 DEF s
  <2> QED
    BY <2>2, <2>3
<1>19. Ordered'
  <2> SUFFICES ASSUME NEW c \in Contracts
               PROVE  /\ \A i \in DOMAIN Received(c)' :
                           /\ Received(c)'[i].id \in born + 1..arrived
                           /\ \A j \in DOMAIN queue : Received(c)'[i].id < queue[j].id
                      /\ \A i, j \in DOMAIN Received(c)' :
                           i < j => Received(c)'[i].id < Received(c)'[j].id
    BY Zenon DEF Ordered
  <2> DEFINE s == Received(c)
  <2>1. /\ \A i \in DOMAIN s :
             /\ s[i].id \in born + 1..arrived
             /\ \A j \in DOMAIN queue : s[i].id < queue[j].id
             /\ s[i].id < t.id
        /\ \A i, j \in DOMAIN s : i < j => s[i].id < s[j].id
    BY <1>1 DEF IInv, Ordered
  <2>2. CASE c # t.sym
    BY <1>18, <2>1, <2>2
  <2>3. CASE c = t.sym
    <3> DEFINE n == Len(s)
               u == Received(c)'
    <3>1. /\ n \in Nat /\ DOMAIN s = 1..n /\ DOMAIN u = 1..n + 1
          /\ \A i \in DOMAIN s : u[i] = s[i]
          /\ u[n + 1].id = t.id
      BY <1>18, <2>3
    <3> HIDE DEF s, n, u
    <3>2. \A i \in DOMAIN u : i \in DOMAIN s \/ i = n + 1
      BY <3>1
    <3>3. \A i \in DOMAIN u : /\ u[i].id \in born + 1..arrived
                              /\ \A j \in DOMAIN queue : u[i].id < queue[j].id
      BY <1>3, <2>1, <3>1, <3>2
    <3>4. \A i, j \in DOMAIN u : i < j => u[i].id < u[j].id
      <4> SUFFICES ASSUME NEW i \in DOMAIN u, NEW j \in DOMAIN u, i < j
                   PROVE  u[i].id < u[j].id
        OBVIOUS
      <4>1. i \in DOMAIN s
        BY <3>1
      <4> QED
        BY <2>1, <3>1, <3>2, <4>1
    <3> QED
      BY <3>3, <3>4 DEF u
  <2> QED
    BY <2>2, <2>3
<1>20. Blocks'
  <2>1. heap' = (Ids(queue) \cup Ids(hand))'
    BY DEF IInv, Blocks, Ids
  <2> DEFINE old == UNION {Ids(Received(c)) : c \in Contracts}
             new == UNION {Ids(Received(c)') : c \in Contracts}
  <2>2. new = old \cup {t.id}
    <3>1. \A c \in Contracts : c # t.sym => Ids(Received(c)') = Ids(Received(c))
      BY <1>18 DEF Ids
    <3>2. Ids(Received(t.sym)') = Ids(Received(t.sym)) \cup {t.id}
      <4> DEFINE s == Received(t.sym)
                 n == Len(s)
                 u == Received(t.sym)'
      <4>1. /\ n \in Nat /\ DOMAIN s = 1..n /\ DOMAIN u = 1..n + 1
            /\ \A i \in DOMAIN s : u[i] = s[i]
            /\ u[n + 1].id = t.id
        BY <1>3, <1>18
      <4> HIDE DEF s, n, u
      <4>2. \A i \in DOMAIN u : i \in DOMAIN s \/ i = n + 1
        BY <4>1
      <4>3. n + 1 \in DOMAIN u /\ \A i \in DOMAIN s : i \in DOMAIN u
        BY <4>1
      <4>4. Ids(u) = Ids(s) \cup {t.id}
        BY <4>1, <4>2, <4>3 DEF Ids
      <4> QED
        BY <4>4 DEF s, u
    <3> DEFINE Old(c) == Ids(Received(c))
               New(c) == Ids(Received(c)')
    <3>3. /\ t.sym \in Contracts /\ New(t.sym) = Old(t.sym) \cup {t.id}
          /\ \A c \in Contracts : c # t.sym => New(c) = Old(c)
      BY <1>3, <3>1, <3>2
    <3> HIDE DEF Old, New
    <3>4. ASSUME NEW e
          PROVE  (\E c \in Contracts : e \in New(c)) <=>
                   (\E c \in Contracts : e \in Old(c)) \/ e = t.id
      BY <3>3
    <3>5. \A e : e \in new <=> e \in old \/ e = t.id
      BY <3>4 DEF Old, New
    <3> HIDE DEF new, old
    <3> QED
      BY <3>5
  <2>3. t.id \in heap
    <3>1. 1 \in DOMAIN hand
      BY <1>2
    <3> QED
      BY <3>1 DEF IInv, Blocks, Ids
  <2>4. born + 1..arrived = heap \cup old
    BY DEF IInv, Blocks
  <2>5. born + 1..arrived = heap \cup new
    <3> HIDE DEF old, new
    <3> QED
      BY <2>2, <2>3, <2>4
  <2>6. (~quit => born + 1..arrived = heap \cup UNION {Ids(Received(c)) : c \in Contracts})'
    BY <2>5 DEF Ids
  <2>7. t.id \in Ids(Received(t.sym)')
    <3>1. /\ Len(Received(t.sym)) \in Nat
          /\ DOMAIN Received(t.sym)' = 1..Len(Received(t.sym)) + 1
          /\ Received(t.sym)'[Len(Received(t.sym)) + 1].id = t.id
      BY <1>3, <1>18
    <3>2. Len(Received(t.sym)) + 1 \in DOMAIN Received(t.sym)'
      BY <3>1
    <3> QED
      BY <3>1, <3>2 DEF Ids
  <2>8. (hand[1].id \in Ids(Received(hand[1].sym)))'
    BY <2>7 DEF Ids
  <2> QED
    BY <2>1, <2>6, <2>8 DEF Blocks
(* The index.                                                              *)
<1>21. Follows'
  <2> SUFFICES ASSUME mainContract # NoContract
               PROVE  /\ IsPrefix(Received(Index)', Received(mainContract)')
                      /\ Len(storage'[Index]) < StoreCap =>
                           Received(Index)' = Received(mainContract)'
    BY DEF Follows
  <2>1. /\ IsPrefix(Received(Index), Received(mainContract))
        /\ Len(storage[Index]) < StoreCap => Received(Index) = Received(mainContract)
        /\ mainContract \in Contracts
        /\ Received(Index) \in Seq(Record) /\ Received(mainContract) \in Seq(Record)
    <3>1. mainContract \in Contracts
      BY <1>1 DEF TypeOK
    <3> QED
      BY <1>4, <1>10, <3>1 DEF IInv, Follows
  <2>2. CASE t.sym # mainContract
    <3>1. Index \in Symbols \ Takers(t) /\ mainContract \in Symbols \ Takers(t)
      BY <1>4, <1>8, <2>1, <2>2
    <3>2. /\ Received(Index)' = Received(Index) /\ storage'[Index] = storage[Index]
          /\ \A x \in Symbols \ Takers(t) : Received(x)' = Received(x)
      BY <1>12, <3>1
    <3>3. Received(mainContract)' = Received(mainContract)
      BY <3>1, <3>2 DEF Received, FromFile
    <3> QED
      BY <2>1, <3>2, <3>3
  <2>3. CASE t.sym = mainContract
    <3>1. Received(mainContract)' = Append(Received(mainContract), r)
      <4>1. Received(t.sym)' = Append(Received(t.sym), r)
        BY <1>8, <1>11
      <4> QED
        BY <2>3, <4>1 DEF Received, FromFile
    <3>2. CASE Len(storage[Index]) < StoreCap
      <4>1. Received(Index)' = Append(Received(Index), r)
        BY <1>8, <1>11, <2>3, <3>2
      <4>2. Received(Index)' = Received(mainContract)'
        BY <2>1, <3>1, <3>2, <4>1
      <4>3. Append(Received(mainContract), r) \in Seq(Record)
        BY <1>7, <2>1
      <4>4. IsPrefix(Received(mainContract)', Received(mainContract)')
        BY <3>1, <4>3, PrefixOfItself
      <4> QED
        BY <4>2, <4>4
    <3>3. CASE ~(Len(storage[Index]) < StoreCap)
      <4>1. Index \in Symbols \ Takers(t)
        BY <1>4, <1>8, <3>3
      <4>2. Received(Index)' = Received(Index) /\ storage'[Index] = storage[Index]
        BY <1>12, <4>1
      <4>3. IsPrefix(Received(Index), Append(Received(mainContract), r))
        BY <1>7, <2>1, PrefixOfGrown
      <4> QED
        BY <3>1, <3>3, <4>2, <4>3
    <3> QED
      BY <3>2, <3>3
  <2> QED
    BY <2>2, <2>3
(* The vector of pointers, and what of it is on file.                      *)
<1>22. Unsaved'
  <2> SUFFICES ASSUME NEW c \in Contracts
               PROVE  /\ LET n == Len(cache'[c])
                             m == Len(Received(c)')
                         IN  /\ n <= SaveAt /\ n <= m
                             /\ \A i \in 1..n : cache'[c][i] = Received(c)'[m - n + i].id
                             /\ folder => Len(disk'[c]) = found[c] + (m - n)
                             /\ ~folder => Len(disk'[c]) = found[c]
                      /\ c \notin cached => cache'[c] = <<>>
    BY <1>9, Zenon DEF Unsaved, CacheIsUnsaved
  <2> DEFINE p == cache[c]
             n == Len(p)
             s == Received(c)
             m == Len(s)
  <2>1. /\ n <= SaveAt /\ n <= m
        /\ \A i \in 1..n : p[i] = s[m - n + i].id
        /\ folder => Len(disk[c]) = found[c] + (m - n)
        /\ ~folder => Len(disk[c]) = found[c]
        /\ c \notin cached => p = <<>>
    BY DEF IInv, Unsaved, CacheIsUnsaved
  <2>2. /\ p \in Seq(0..MaxTicks) /\ n \in Nat /\ s \in Seq(Record) /\ m \in Nat
        /\ found[c] \in Nat /\ SaveAt \in Nat /\ SaveAt > 0 /\ c \in Symbols
    <3>1. p \in Seq(0..MaxTicks) /\ found[c] \in Nat /\ c \in Symbols
      BY <1>1, <1>4 DEF TypeOK
    <3>2. n \in Nat
      BY <3>1
    <3> QED
      BY <1>18, <3>1, <3>2, ReceiverAssumption
  <2>3. CASE c # t.sym
    <3>1. cache'[c] = p /\ Received(c)' = s
      BY <1>4, <1>9, <1>18, <2>2, <2>3
    <3>2. Len(disk'[c]) = Len(disk[c]) + 0
      BY <1>13, <2>2, <2>3
    <3>3. folder => Len(disk'[c]) = found[c] + (m - n)
      <4> HIDE DEF p, n, s, m
      <4>1. folder => Len(disk[c]) = found[c] + (m - n)
        BY <2>1
      <4>2. found[c] \in Nat /\ m \in Nat /\ n \in Nat
        BY <2>2
      <4> QED
        BY <3>2, <4>1, <4>2
    <3>4. ~folder => Len(disk'[c]) = found[c]
      <4> HIDE DEF p, n, s, m
      <4>1. found[c] \in Nat /\ (~folder => Len(disk[c]) = found[c])
        BY <2>1, <2>2
      <4> QED
        BY <3>2, <4>1
    <3> QED
      BY <2>1, <3>1, <3>3, <3>4
  <2>4. CASE c = t.sym
    <3> DEFINE u == Received(c)'
    <3>1. /\ u \in Seq(Record) /\ Len(u) = m + 1
          /\ \A i \in 1..m : u[i] = s[i]
          /\ u[m + 1].id = t.id
      <4>1. u = Append(s, r)
        BY <1>8, <1>11, <2>4
      <4> HIDE DEF u, s
      <4> QED
        BY <1>7, <2>2, <4>1
    <3>2. cache'[c] = Appended(p, t.id)
      BY <1>9, <2>2, <2>4
    <3>3. c \in cached
      BY <2>4
    <3>4. ~folder => Len(disk'[c]) = found[c]
      <4>1. ~folder => Len(disk'[c]) = Len(disk[c]) + 0
        BY <1>13, <2>2
      <4> HIDE DEF p, n, s, m, u
      <4>2. found[c] \in Nat /\ (~folder => Len(disk[c]) = found[c])
        BY <2>1, <2>2
      <4> QED
        BY <4>1, <4>2
    <3>5. CASE n = SaveAt
      <4>1. cache'[c] = <<t.id>>
        BY <3>2, <3>5 DEF Appended
      <4>2. folder => Len(disk'[c]) = Len(disk[c]) + n
        BY <1>13, <2>2, <2>4, <3>5
      <4> HIDE DEF p, n, s, m, u
      <4>3. folder => Len(disk'[c]) = found[c] + (m + 1 - 1)
        <5> DEFINE d == Len(disk[c])
                   e == Len(disk'[c])
                   f == found[c]
        <5>1. (folder => d = f + (m - n)) /\ (folder => e = d + n)
          BY <2>1, <4>2
        <5>2. f \in Nat /\ m \in Nat /\ n \in Nat
          BY <2>2
        <5> HIDE DEF d, e, f
        <5>3. folder => e = f + (m + 1 - 1)
          BY <5>1, <5>2
        <5> QED
          BY <5>3 DEF e, f
      <4> DEFINE q == cache'[c]
      <4>4. Len(q) = 1 /\ q[1] = t.id
        BY <4>1
      <4> HIDE DEF q
      <4>5. LET a == Len(q)
                b == Len(u)
            IN  /\ a <= SaveAt /\ a <= b
                /\ \A i \in 1..a : q[i] = u[b - a + i].id
                /\ folder => Len(disk'[c]) = found[c] + (b - a)
        BY <2>2, <3>1, <4>3, <4>4
      <4> QED
        BY <3>3, <3>4, <4>5 DEF q, u
    <3>6. CASE n # SaveAt
      <4>1. cache'[c] = Append(p, t.id)
        BY <3>2, <3>6 DEF Appended
      <4>2. Len(disk'[c]) = Len(disk[c]) + 0
        BY <1>13, <2>2, <2>4, <3>6
      <4> HIDE DEF p, n, s, m, u
      <4>3. folder => Len(disk'[c]) = found[c] + (m + 1 - (n + 1))
        <5> DEFINE d == Len(disk[c])
                   e == Len(disk'[c])
                   f == found[c]
        <5>1. (folder => d = f + (m - n)) /\ (folder => e = d + 0)
          BY <2>1, <4>2
        <5>2. f \in Nat /\ m \in Nat /\ n \in Nat
          BY <2>2
        <5> HIDE DEF d, e, f
        <5>3. folder => e = f + (m + 1 - (n + 1))
          BY <5>1, <5>2
        <5> QED
          BY <5>3 DEF e, f
      <4> DEFINE q == cache'[c]
      <4>4. Len(q) = n + 1 /\ q[n + 1] = t.id /\ \A i \in 1..n : q[i] = p[i]
        BY <2>2, <4>1 DEF n
      <4> HIDE DEF q
      <4>5. ASSUME NEW i \in 1..n + 1
            PROVE  q[i] = u[m + 1 - (n + 1) + i].id
        <5>1. CASE i \in 1..n
          <6>1. m - n + i \in 1..m /\ m + 1 - (n + 1) + i = m - n + i
            BY <2>1, <2>2, <5>1
          <6> QED
            BY <2>1, <3>1, <4>4, <5>1, <6>1
        <5>2. CASE i = n + 1
          <6>1. m + 1 - (n + 1) + i = m + 1
            BY <2>2, <5>2
          <6> QED
            BY <3>1, <4>4, <5>2, <6>1
        <5>3. i \in 1..n \/ i = n + 1
          BY <2>2
        <5> QED
          BY <5>1, <5>2, <5>3, Zenon
      <4>6. n + 1 <= SaveAt /\ n + 1 <= m + 1
        BY <2>1, <2>2, <3>6
      <4>7. LET a == Len(q)
                b == Len(u)
            IN  /\ a <= SaveAt /\ a <= b
                /\ \A i \in 1..a : q[i] = u[b - a + i].id
                /\ folder => Len(disk'[c]) = found[c] + (b - a)
        BY <2>2, <3>1, <4>3, <4>4, <4>5, <4>6
      <4> QED
        BY <3>3, <3>4, <4>7 DEF q, u
    <3> QED
      BY <3>5, <3>6
  <2> QED
    BY <2>3, <2>4
(* The volumes: all ticks of the contract that came before are stored, so  *)
(* the last one stored is the last one that came.                          *)
<1>23. ASSUME NEW c \in Contracts
       PROVE  Base(c)' = Base(c)
  <2>1. CASE c # t.sym
    BY <1>4, <1>8, <1>12, <2>1
  <2>2. CASE c = t.sym
    <3> DEFINE s == storage[c]
               u == storage'[c]
               k == FromFile(c)
    <3>1. /\ s \in Seq(Record) /\ k \in Nat /\ k <= Len(s) /\ FromFile(c)' = k
          /\ u = Append(s, r)
      BY <1>1, <1>4, <1>8, <1>11, <2>2, ReceivedFacts
    <3>2. k = 0 \/ u[k] = s[k]
      <4> HIDE DEF s, u, k
      <4> QED
        BY <1>7, <3>1
    <3> QED
      BY <3>1, <3>2 DEF Base
  <2> QED
    BY <2>1, <2>2
<1>24. VolumeOf(t) = t.total - TotalBefore(t.sym, t.id)
  <2> DEFINE c == t.sym
             before == {k \in born + 1..t.id - 1 : tape[k].sym = c}
             s == Received(c)
             m == Len(s)
  <2>1. /\ s \in Seq(Record) /\ m \in Nat /\ DOMAIN s = 1..m
        /\ storage[c] \in Seq(Record) /\ FromFile(c) \in Nat /\ FromFile(c) <= Len(storage[c])
        /\ Len(storage[c]) \in Nat /\ m = Len(storage[c]) - FromFile(c)
        /\ \A i \in 1..m : s[i] = storage[c][FromFile(c) + i]
    BY <1>1, <1>3, <1>4, <1>5, <1>6, <1>18, ReceivedFacts
  <2>2. /\ \A i \in 1..m : /\ s[i].id \in born + 1..arrived /\ s[i].id < t.id
                           /\ tape[s[i].id] = [sym |-> c, total |-> s[i].total]
        /\ \A i, j \in 1..m : i < j => s[i].id < s[j].id
    BY <1>1, <1>3, <2>1 DEF IInv, Ordered, VolumesFollowTicks
  <2>3. born \in Nat /\ arrived \in Nat /\ t.id \in Nat
    BY <1>1, <1>3, ReceiverAssumption DEF TypeOK
  <2>4. ASSUME NEW k \in before PROVE \E i \in 1..m : k = s[i].id
    <3>1. k \in born + 1..arrived /\ k < t.id
      BY <1>3, <2>3
    <3>2. k \notin heap
      <4>1. \A i \in DOMAIN queue : k # queue[i].id
        BY <1>3, <2>3, <3>1 DEF IInv, Pipeline
      <4>2. \A i \in DOMAIN hand : k # hand[i].id
        <5>1. DOMAIN hand = {1}
          BY <1>2
        <5> QED
          BY <2>3, <3>1, <5>1
      <4> QED
        BY <4>1, <4>2 DEF IInv, Blocks, Ids
    <3>3. PICK d \in Contracts : k \in Ids(Received(d))
      BY <3>1, <3>2 DEF IInv, Blocks
    <3>4. tape[k].sym = d
      <4>1. PICK i \in DOMAIN Received(d) : k = Received(d)[i].id
        BY <3>3 DEF Ids
      <4>2. tape[k] = [sym |-> d, total |-> Received(d)[i].total]
        BY <4>1 DEF IInv, VolumesFollowTicks
      <4> QED
        BY <4>2
    <3>5. d = c
      BY <3>4
    <3> QED
      BY <2>1, <3>3, <3>5 DEF Ids
  <2>5. ASSUME NEW i \in 1..m PROVE s[i].id \in before
    <3>1. /\ s[i].id \in born + 1..arrived /\ s[i].id < t.id
          /\ tape[s[i].id] = [sym |-> c, total |-> s[i].total]
      BY <2>2
    <3> HIDE DEF s, m
    <3>2. s[i].id \in born + 1..t.id - 1
      BY <2>3, <3>1
    <3>3. tape[s[i].id].sym = c
      BY <3>1
    <3> QED
      BY <3>2, <3>3
  <2>6. TotalBefore(c, t.id) = IF before = {} THEN Base(c) ELSE tape[Max(before)].total
    BY DEF TotalBefore
  <2>7. CASE m = 0
    <3>1. TotalBefore(c, t.id) = Base(c)
      <4>1. before = {}
        BY <2>4, <2>7
      <4> QED
        BY <2>6, <4>1
    <3>2. CASE storage[c] = <<>>
      <4>1. FromFile(c) = 0
        BY <2>1, <3>2
      <4> QED
        BY <1>3, <3>1, <3>2, <4>1 DEF Base, VolumeOf
    <3>3. CASE storage[c] # <<>>
      <4>1. FromFile(c) = Len(storage[c]) /\ FromFile(c) # 0
        <5>1. Len(storage[c]) # 0
          BY <2>1, <3>3
        <5> QED
          BY <2>1, <2>7, <5>1
      <4> QED
        BY <3>1, <3>3, <4>1 DEF Base, VolumeOf, Last
    <3> QED
      BY <3>2, <3>3
  <2>8. CASE m # 0
    <3>1. m \in 1..m /\ s[m].id \in before
      BY <2>1, <2>5, <2>8
    <3>2. \A k \in before : k <= s[m].id
      <4> SUFFICES ASSUME NEW k \in before PROVE k <= s[m].id
        OBVIOUS
      <4>1. PICK i \in 1..m : k = s[i].id
        BY <2>4
      <4>2. i = m \/ i < m
        BY <2>1
      <4>3. k \in Int /\ s[m].id \in Int
        BY <2>3, <3>1
      <4>4. CASE i < m
        <5>1. s[i].id < s[m].id
          BY <2>2, <3>1, <4>4
        <5> HIDE DEF s, m, before
        <5> QED
          BY <4>1, <4>3, <5>1
      <4>5. CASE i = m
        <5> HIDE DEF s, m, before
        <5> QED
          BY <4>1, <4>3, <4>5
      <4> QED
        BY <4>2, <4>4, <4>5
    <3>3. Max(before) = s[m].id
      <4>1. before \subseteq 1..arrived /\ before # {}
        BY <1>3, <2>3, <3>1
      <4> HIDE DEF before, s
      <4>2. Max(before) \in before /\ \A k \in before : Max(before) >= k
        BY <2>3, <4>1, Maximum
      <4>3. \A k \in before : k \in Int
        BY <2>3, <4>1
      <4> QED
        BY <3>1, <3>2, <4>2, <4>3
    <3>4. TotalBefore(c, t.id) = s[m].total
      <4>1. tape[s[m].id] = [sym |-> c, total |-> s[m].total]
        BY <2>2, <3>1
      <4> HIDE DEF before, s, m, c
      <4> QED
        BY <2>6, <3>1, <3>3, <4>1
    <3>5. s[m] = Last(storage[c]) /\ storage[c] # <<>>
      <4>1. s[m] = storage[c][Len(storage[c])] /\ Len(storage[c]) # 0
        BY <2>1, <2>8, <3>1
      <4> QED
        BY <4>1 DEF Last
    <3> QED
      BY <3>4, <3>5 DEF VolumeOf
  <2> QED
    BY <2>1, <2>7, <2>8
<1> DEFINE After(c, n) ==
             LET before == {k \in born' + 1..n - 1 : tape'[k].sym = c}
             IN  IF before = {} THEN Base(c)' ELSE tape'[Max(before)].total
<1>25. ASSUME NEW c \in Contracts, NEW n
       PROVE  After(c, n) = TotalBefore(c, n)
  BY <1>23 DEF TotalBefore
<1>26. VolumesFollowTicks'
  <2>1. ASSUME NEW c \in Contracts, NEW i \in DOMAIN Received(c)'
        PROVE  LET e == Received(c)'[i]
               IN  /\ tape[e.id] = [sym |-> c, total |-> e.total]
                   /\ e.volume = e.total - TotalBefore(c, e.id)
    <3>1. CASE i \in DOMAIN Received(c) /\ Received(c)'[i] = Received(c)[i]
      BY <3>1 DEF IInv, VolumesFollowTicks
    <3>2. CASE c = t.sym /\ Received(c)'[i] = r
      <4>1. tape[t.id] = [sym |-> c, total |-> t.total]
        BY <1>2, <3>2 DEF IInv, Pipeline, AsSent
      <4> QED
        BY <1>7, <1>24, <3>2, <4>1
    <3>3. CASE c = t.sym
      <4> DEFINE s == Received(c)
      <4>1. s \in Seq(Record) /\ Received(c)' = Append(s, r)
        BY <1>1, <1>4, <1>8, <1>11, <3>3, ReceivedFacts
      <4> HIDE DEF s
      <4>2. (i \in DOMAIN s /\ Append(s, r)[i] = s[i]) \/ Append(s, r)[i] = r
        BY <1>7, <2>1, <4>1
      <4> QED
        BY <3>1, <3>2, <3>3, <4>1, <4>2 DEF s
    <3> QED
      BY <1>18, <3>1, <3>3
  <2>2. mainContract' # NoContract => IsPrefix(Received(Index)', Received(mainContract)')
    BY <1>21 DEF Follows
  <2>3. ASSUME NEW c \in Contracts, NEW i \in DOMAIN Received(c)'
        PROVE  LET e == Received(c)'[i]
               IN  /\ tape'[e.id] = [sym |-> c, total |-> e.total]
                   /\ e.volume = e.total - After(c, e.id)
    <3> DEFINE e == Received(c)'[i]
    <3>1. /\ tape[e.id] = [sym |-> c, total |-> e.total]
          /\ e.volume = e.total - TotalBefore(c, e.id)
      BY <2>1, <2>3
    <3>2. tape' = tape
      OBVIOUS
    <3> HIDE DEF After, e
    <3>3. After(c, e.id) = TotalBefore(c, e.id)
      BY <1>25
    <3>4. tape'[e.id] = [sym |-> c, total |-> e.total] /\ e.volume = e.total - After(c, e.id)
      BY <3>1, <3>2, <3>3
    <3> QED
      BY <3>4 DEF e
  <2> QED
    BY <2>2, <2>3 DEF VolumesFollowTicks, TotalBefore
<1> QED
  BY <1>14, <1>15, <1>16, <1>17, <1>19, <1>20, <1>21, <1>22, <1>26 DEF IInv

LEMMA OnTickStep ==
  ASSUME IInv, OnTick
  PROVE  IInv'
<1> DEFINE t == hand[1]
<1>1. CASE \E why \in {"volume", "overflow", "null"} : Die(why)
  BY <1>1, OnlyAbort DEF Die
<1>2. CASE ~quit /\ ~(\E why \in {"volume", "overflow", "null"} : Die(why))
  <2>1. /\ VolumeOf(t) >= 0 /\ Len(storage[t.sym]) < StoreCap /\ t.sym \in cached
        /\ Keep(t) /\ col' = "free" /\ ColAt("onTick")
        /\ UNCHANGED <<mainVars, hand, gaveUp, feedVars, rest>>
    BY <1>2, Zenon DEF OnTick
  <2> HIDE DEF t
  <2>2. t = hand[1]
    BY DEF t
  <2> QED
    BY <1>2, <2>1, <2>2, KeepStep
<1>3. CASE quit /\ ~(\E why \in {"volume", "overflow", "null"} : Die(why))
  <2> USE DEF mainVars, data, colVars, feedVars, rest
  <2>1. /\ col = "onTick" /\ col' = "free"
        /\ UNCHANGED <<data, mainVars, hand, gaveUp, feedVars, rest>>
    BY <1>3, Zenon DEF OnTick, ColAt
  <2>2. quit' /\ main \notin {"idle", "launch"}
    BY <1>3, <2>1 DEF IInv, Phases
  <2>3. TypeOK'
    <3>1. col' \in {"none", "loop", "query", "onTick", "free", "ended"}
      BY <2>1
    <3> QED
      BY <2>1, <3>1, TypeGroups, TypesKept DEF IInv, CollectorTypes
  <2>4. Pipeline'
    BY <2>1 DEF IInv, Pipeline, AsSent
  <2>5. Phases'
    BY <2>1, <2>2 DEF IInv, Phases
  <2>6. Storages' /\ Follows' /\ Unsaved' /\ VolumesFollowTicks'
    BY <2>1, DataKept DEF IInv
  <2>7. \A x : Received(x)' = Received(x)
    BY <2>1, ReceivedSame
  <2>8. Ordered'
    BY <2>1, <2>7 DEF IInv, Ordered
  <2>9. Blocks'
    BY <2>1, <2>2 DEF IInv, Blocks, Ids
  <2> QED
    BY <2>3, <2>4, <2>5, <2>6, <2>8, <2>9 DEF IInv
<1> QED
  BY <1>1, <1>2, <1>3

LEMMA InitInv == Init => IInv
<1> SUFFICES ASSUME Init PROVE IInv
  OBVIOUS
<1> USE DEF Init
<1>1. Contracts \subseteq Symbols
  BY DEF Symbols
<1>2. \A x \in Symbols : Received(x) = <<>>
  <2> SUFFICES ASSUME NEW x \in Symbols PROVE Received(x) = <<>>
    OBVIOUS
  <2>1. FromFile(x) \in Nat
    BY ReceiverAssumption DEF FromFile, Fitting
  <2>2. <<>> \in Seq(Record) /\ Len(<<>>) <= FromFile(x)
    BY <2>1
  <2> QED
    BY <2>1, <2>2, AfterAll DEF Received
<1>3. TypeOK
  <2>1. /\ todo \in Seq(Contracts) /\ pool \in Seq(Contracts)
        /\ hand \in Seq(Block) /\ queue \in Seq(Block)
    OBVIOUS
  <2>2. storage \in [Symbols -> Seq([id : 0..MaxTicks, total : Nat, volume : Nat])]
    OBVIOUS
  <2>3. cache \in [Symbols -> Seq(0..MaxTicks)] /\ disk \in [Symbols -> Seq(Images)]
    OBVIOUS
  <2>4. tape \in Seq([sym : Contracts, total : Totals]) /\ found \in [Symbols -> Nat]
        /\ arrived \in 0..MaxTicks /\ born \in 0..MaxTicks /\ restarts \in 0..MaxRestarts
    BY ReceiverAssumption
  <2>5. /\ locked \in BOOLEAN /\ quit \in BOOLEAN /\ mdQuit \in BOOLEAN /\ gaveUp \in BOOLEAN
        /\ folder \in BOOLEAN
    OBVIOUS
  <2> QED
    BY <2>1, <2>2, <2>3, <2>4, <2>5 DEF TypeOK
<1>4. Pipeline
  BY DEF Pipeline, ToSet
<1>5. Phases
  BY DEF Phases
<1>6. Storages
  BY DEF Storages, FilesOf
<1>7. Ordered
  BY <1>1, <1>2 DEF Ordered
<1>8. Blocks
  <2>1. \A c \in Contracts : Ids(Received(c)) = {}
    BY <1>1, <1>2 DEF Ids
  <2>2. Ids(queue) = {} /\ Ids(hand) = {} /\ born + 1..arrived = {}
    BY DEF Ids
  <2> QED
    BY <2>1, <2>2 DEF Blocks
<1>9. Follows
  BY DEF Follows
<1>10. Unsaved
  <2>1. ASSUME NEW c \in Contracts
        PROVE  LET n == Len(cache[c])
                   m == Len(Received(c))
               IN  /\ n <= SaveAt /\ n <= m
                   /\ \A i \in 1..n : cache[c][i] = Received(c)[m - n + i].id
                   /\ folder => Len(disk[c]) = found[c] + (IF quit THEN m ELSE m - n)
                   /\ ~folder => Len(disk[c]) = found[c]
    <3>1. /\ cache[c] = <<>> /\ Received(c) = <<>> /\ disk[c] = <<>> /\ found[c] = 0 /\ ~quit
      BY <1>1, <1>2
    <3> QED
      BY <3>1, ReceiverAssumption
  <2>2. \A c \in Contracts : cache[c] = <<>>
    BY <1>1
  <2> QED
    BY <2>1, <2>2, Zenon DEF Unsaved, CacheIsUnsaved
<1>11. VolumesFollowTicks
  BY <1>1, <1>2 DEF VolumesFollowTicks
<1> QED
  BY <1>3, <1>4, <1>5, <1>6, <1>7, <1>8, <1>9, <1>10, <1>11 DEF IInv

LEMMA NextInv == IInv /\ [Next]_vars => IInv'
<1> SUFFICES ASSUME IInv, [Next]_vars PROVE IInv'
  OBVIOUS
<1>1. CASE Start
  BY <1>1, StartStep
<1>2. CASE Stop
  BY <1>2, StopStep
<1>3. CASE Control
  <2>1. CASE Launch
    BY <2>1, LaunchStep
  <2>2. CASE Subscribe
    BY <2>2, SubscribeStep
  <2>3. CASE Subscribed
    BY <2>3, SubscribedStep
  <2>4. CASE Unsubscribe
    BY <2>4, UnsubscribeStep
  <2>5. CASE StopWake
    BY <2>5, StopWakeStep
  <2>6. CASE StopSilence
    BY <2>6, StopSilenceStep
  <2>7. CASE StopClear
    BY <2>7, StopClearStep
  <2>8. CASE StopCheck
    BY <2>8, OnlyAbort DEF StopCheck, Die
  <2> QED
    BY <1>3, <2>1, <2>2, <2>3, <2>4, <2>5, <2>6, <2>7, <2>8 DEF Control
<1>4. CASE Collect
  <2>1. CASE Loop
    BY <2>1, LoopStep
  <2>2. CASE Query
    BY <2>2, QueryStep
  <2>3. CASE OnTick
    BY <2>3, OnTickStep
  <2>4. CASE Free
    BY <2>4, FreeStep
  <2> QED
    BY <1>4, <2>1, <2>2, <2>3, <2>4 DEF Collect
<1>5. CASE Arrive
  BY <1>5, ArriveStep
<1>6. CASE Restart
  BY <1>6, RestartStep
<1>7. CASE UNCHANGED vars
  <2>1. abort' \in {"none", "load", "subscribe", "unsubscribe", "stop", "volume",
                    "overflow", "null", "race"}
    BY <1>7 DEF vars, rest, IInv, TypeOK
  <2> QED
    BY <1>7, <2>1, OnlyAbort DEF vars, rest
<1> QED
  BY <1>1, <1>2, <1>3, <1>4, <1>5, <1>6, <1>7 DEF Next

THEOREM SpecInv == Spec => []IInv
BY InitInv, NextInv, PTL DEF Spec

-----------------------------------------------------------------------------
(* What a reader may rely on.                                              *)

(* The variables have their types: in particular no volume is stored that  *)
(* is negative, whatever the files held.                                   *)
THEOREM TypeCorrect == Spec => []TypeOK
<1>1. IInv => TypeOK
  BY DEF IInv
<1> QED
  BY <1>1, SpecInv, PTL

(* Every tick's block is in easyctp's list or in the collector's hand, and *)
(* is freed when it leaves them; until stop() the ticks this process got   *)
(* are there or stored, once and in order.                                 *)
THEOREM TicksAreAccounted == Spec => []TicksAccounted
<1>1. IInv => TicksAccounted
  BY DEF IInv, TicksAccounted, Blocks, Ordered
<1> QED
  BY <1>1, SpecInv, PTL

(* A stored tick has the total the exchange sent and the volume it adds to *)
(* the tick that came before it: no tick of this process is skipped,       *)
(* doubled or overtaken on its way to the storage, and the index is based  *)
(* on the main contract's ticks.                                           *)
THEOREM VolumesFollow == Spec => []VolumesFollowTicks
<1>1. IInv => VolumesFollowTicks
  BY DEF IInv
<1> QED
  BY <1>1, SpecInv, PTL

(* A contract's vector points to the last ticks stored; if the folder is   *)
(* there the file has every other one, none cleared unsaved or saved       *)
(* twice, and if it is not the file has none and those cleared are lost.   *)
THEOREM CacheHoldsTheUnsaved == Spec => []CacheIsUnsaved
<1>1. IInv => CacheIsUnsaved
  BY DEF IInv, Unsaved
<1> QED
  BY <1>1, SpecInv, PTL
=============================================================================
