-------------------------- MODULE ConnServerProofs --------------------------
(***************************************************************************)
(* Proofs about ConnServer, for any number of connections and ids, any     *)
(* lengths and frames: its types, in particular that no body is read past  *)
(* the end of its array, that every id is in one place, and that frames    *)
(* are received whole and in order.                                        *)
(***************************************************************************)
EXTENDS ConnServer, SequenceTheorems, TLAPS

-----------------------------------------------------------------------------
(* The elements of m_connIDs, which grows at its end, shrinks at its front.*)

(* No element is there twice.                                              *)
Distinct(s) == \A i, j \in 1..Len(s) : s[i] = s[j] => i = j

(* The empty sequence has none.                                            *)
LEMMA ElementsOfEmpty == ToSet(<<>>) = {} /\ Distinct(<<>>)
  BY EmptySeq DEF ToSet, Distinct

(* Append adds its element.                                                *)
LEMMA ElementsOfAppend ==
  ASSUME NEW S, NEW s \in Seq(S), NEW e \in S
  PROVE  /\ ToSet(Append(s, e)) = ToSet(s) \cup {e}
         /\ Distinct(s) /\ e \notin ToSet(s) => Distinct(Append(s, e))
<1> DEFINE r == Append(s, e)
<1>1. /\ r \in Seq(S) /\ Len(r) = Len(s) + 1 /\ Len(s) \in Nat
      /\ \A i \in 1..Len(s) : r[i] = s[i]
      /\ r[Len(s) + 1] = e
  BY AppendProperties, LenProperties
<1>2. DOMAIN r = 1..Len(s) + 1 /\ DOMAIN s = 1..Len(s)
  BY <1>1, LenProperties
<1> HIDE DEF r
<1>3. ToSet(r) = ToSet(s) \cup {e}
  BY <1>1, <1>2 DEF ToSet
<1>4. ASSUME Distinct(s), e \notin ToSet(s) PROVE Distinct(r)
  BY <1>1, <1>2, <1>4 DEF Distinct, ToSet
<1> QED
  BY <1>3, <1>4 DEF r

(* Tail takes the first one away.                                          *)
LEMMA ElementsOfTail ==
  ASSUME NEW S, NEW s \in Seq(S), s # <<>>, Distinct(s)
  PROVE  /\ Head(s) \in ToSet(s)
         /\ ToSet(Tail(s)) = ToSet(s) \ {Head(s)}
         /\ Distinct(Tail(s))
<1> DEFINE r == Tail(s)
<1>1. /\ r \in Seq(S) /\ Len(r) = Len(s) - 1 /\ Len(s) \in Nat /\ Len(s) # 0
      /\ \A i \in 1..Len(r) : r[i] = s[i + 1]
      /\ Head(s) = s[1]
  BY HeadTailProperties, LenProperties, EmptySeq
<1>2. DOMAIN r = 1..Len(s) - 1 /\ DOMAIN s = 1..Len(s)
  BY <1>1, LenProperties
<1> HIDE DEF r
<1>3. Head(s) \in ToSet(s)
  BY <1>1, <1>2 DEF ToSet
<1>4. ToSet(r) \subseteq ToSet(s) \ {Head(s)}
  BY <1>1, <1>2 DEF ToSet, Distinct
<1>5. ASSUME NEW i \in 1..Len(s), s[i] # Head(s) PROVE s[i] \in ToSet(r)
  <2>1. i - 1 \in DOMAIN r /\ r[i - 1] = s[i]
    BY <1>1, <1>2, <1>5
  <2> QED
    BY <2>1 DEF ToSet
<1>6. ToSet(s) \ {Head(s)} \subseteq ToSet(r)
  BY <1>2, <1>5 DEF ToSet
<1>7. Distinct(r)
  BY <1>1 DEF Distinct
<1> QED
  BY <1>3, <1>4, <1>6, <1>7 DEF r

-----------------------------------------------------------------------------
(* Types.                                                                  *)

LEMMA LengthRange ==
  ASSUME NEW u \in Unit
  PROVE  BodyLength(u) \in Nat
<1>1. Word \in Nat /\ Word > 0 /\ Word - HEAD_LEN \in Nat
  BY ServerAssumption
<1>2. \A n \in Int : n % Word \in Nat
  BY <1>1
<1>3. CASE u.head
  <2>1. u.n \in Int
    <3>1. CASE u \in [head : {TRUE}, n : Lengths]
      BY <3>1, ServerAssumption
    <3>2. CASE u \in [head : {FALSE}, n : Nat]
      BY <3>2
    <3> QED
      BY <3>1, <3>2 DEF Unit
  <2> QED
    BY <1>2, <1>3, <2>1, ServerAssumption DEF BodyLength
<1>4. CASE ~u.head
  BY <1>1, <1>4 DEF BodyLength
<1> QED
  BY <1>3, <1>4

(* An error only takes from the sequences, and adds the id of a handler    *)
(* that has been accepted.                                                 *)
LEMMA ErrorTypes ==
  ASSUME TypeOK, NEW c \in Conns, connID[c] \in Ids, HandleError(c)
  PROVE  TypeOK'
<1>1. m_connIDs' \in Seq(Ids)
  BY AppendProperties DEF TypeOK, HandleError
<1>2. wire' \in [Conns -> Seq(Unit)]
  BY EmptySeq DEF TypeOK, HandleError
<1>3. m_handlers' \in [Ids -> Conns \cup {Nobody}]
  BY DEF TypeOK, HandleError
<1>4. /\ stage' \in [Conns -> {"none", "backlog", "live", "closed"}]
      /\ reading' \in [Conns -> {"none", "header", "body"}]
  BY DEF TypeOK, HandleError
<1> QED
  BY <1>1, <1>2, <1>3, <1>4 DEF TypeOK, HandleError, peer

LEMMA AcceptTypes ==
  ASSUME TypeOK, NEW c \in Conns, OnAccept(c)
  PROVE  TypeOK'
<1>1. pending \in Ids
  BY ServerAssumption DEF TypeOK, OnAccept, Ids
<1>2. /\ m_connIDs' \in Seq(Ids) /\ pending' \in 0..MAX_CONN_NUM /\ overrun' \in BOOLEAN
  <2>1. CASE m_connIDs # <<>>
    <3>1. m_connIDs \in Seq(Ids) /\ overrun \in BOOLEAN
      BY DEF TypeOK
    <3>2. Head(m_connIDs) \in Ids /\ Tail(m_connIDs) \in Seq(Ids)
      BY <2>1, <3>1, HeadTailProperties
    <3>3. pending' = Head(m_connIDs) /\ m_connIDs' = Tail(m_connIDs) /\ overrun' = overrun
      BY <2>1 DEF OnAccept, CreateHandler
    <3> QED
      BY <3>1, <3>2, <3>3, ServerAssumption DEF Ids
  <2>2. CASE m_connIDs = <<>>
    BY <2>2, ServerAssumption DEF TypeOK, OnAccept, CreateHandler
  <2> QED
    BY <2>1, <2>2
<1>3. m_handlers' \in [Ids -> Conns \cup {Nobody}]
  BY <1>1 DEF TypeOK, OnAccept
<1>4. /\ stage' \in [Conns -> {"none", "backlog", "live", "closed"}]
      /\ reading' \in [Conns -> {"none", "header", "body"}]
      /\ connID' \in [Conns -> 0..MAX_CONN_NUM]
  BY DEF TypeOK, OnAccept
<1> QED
  BY <1>2, <1>3, <1>4 DEF TypeOK, OnAccept, peer

LEMMA HeaderTypes ==
  ASSUME TypeOK, NEW c \in Conns, connID[c] \in Ids, OnHeader(c)
  PROVE  TypeOK'
<1>1. CASE HandleError(c)
  BY <1>1, ErrorTypes
<1>2. CASE ~HandleError(c)
  <2>1. wire[c] \in Seq(Unit) /\ wire[c] # <<>>
    BY <1>2 DEF TypeOK, OnHeader
  <2>2. Head(wire[c]) \in Unit /\ Tail(wire[c]) \in Seq(Unit)
    BY <2>1, HeadTailProperties
  <2>3. BodyLength(Head(wire[c])) \in 0..body_max_length
    BY <1>2, <2>2, LengthRange, ServerAssumption DEF OnHeader
  <2>4. /\ wire' \in [Conns -> Seq(Unit)]
        /\ body_length' \in [Conns -> 0..body_max_length]
        /\ reading' \in [Conns -> {"none", "header", "body"}]
    <3>1. /\ wire' = [wire EXCEPT ![c] = Tail(@)]
          /\ body_length' = [body_length EXCEPT ![c] = BodyLength(Head(wire[c]))]
          /\ reading' = [reading EXCEPT ![c] = "body"]
      BY <1>2 DEF OnHeader
    <3>2. /\ wire \in [Conns -> Seq(Unit)] /\ body_length \in [Conns -> 0..body_max_length]
          /\ reading \in [Conns -> {"none", "header", "body"}]
      BY DEF TypeOK
    <3> QED
      BY <2>2, <2>3, <3>1, <3>2
  <2> QED
    BY <1>2, <2>4 DEF TypeOK, OnHeader, pool, peer
<1> QED
  BY <1>1, <1>2

LEMMA BodyTypes ==
  ASSUME TypeOK, NEW c \in Conns, connID[c] \in Ids, OnBody(c)
  PROVE  TypeOK'
<1>1. CASE HandleError(c)
  BY <1>1, ErrorTypes
<1>2. CASE ~HandleError(c)
  <2>1. wire[c] \in Seq(Unit) /\ body_length[c] \in Nat /\ Len(wire[c]) >= body_length[c]
    BY <1>2, ServerAssumption DEF TypeOK, OnBody
  <2>2. /\ SubSeq(wire[c], 1, body_length[c]) \in Seq(Unit)
        /\ SubSeq(wire[c], body_length[c] + 1, Len(wire[c])) \in Seq(Unit)
    BY <2>1, SubSeqProperties, LenProperties
  <2>3. got[c] \in Seq(Seq(Unit))
    BY DEF TypeOK
  <2>4. Append(got[c], SubSeq(wire[c], 1, body_length[c])) \in Seq(Seq(Unit))
    BY <2>2, <2>3, AppendProperties
  <2>5. /\ wire' \in [Conns -> Seq(Unit)] /\ got' \in [Conns -> Seq(Seq(Unit))]
        /\ reading' \in [Conns -> {"none", "header", "body"}]
    <3>1. /\ wire' = [wire EXCEPT ![c] = SubSeq(@, body_length[c] + 1, Len(@))]
          /\ got' = [got EXCEPT ![c] = Append(@, SubSeq(wire[c], 1, body_length[c]))]
          /\ reading' = [reading EXCEPT ![c] = "header"]
      BY <1>2 DEF OnBody
    <3>2. /\ wire \in [Conns -> Seq(Unit)] /\ got \in [Conns -> Seq(Seq(Unit))]
          /\ reading \in [Conns -> {"none", "header", "body"}]
      BY DEF TypeOK
    <3> QED
      BY <2>2, <2>4, <3>1, <3>2
  <2> QED
    BY <1>2, <2>5 DEF TypeOK, OnBody, pool, peer
<1> QED
  BY <1>1, <1>2

LEMMA PeerTypes ==
  ASSUME TypeOK, NEW c \in Conns, Peer(c)
  PROVE  TypeOK'
<1>1. CASE Connect(c)
  BY <1>1 DEF TypeOK, Connect, pool, peer
<1>2. CASE SendHeader(c)
  <2>1. PICK n \in Lengths :
          /\ wire' = [wire EXCEPT ![c] = Append(@, [head |-> TRUE, n |-> n])]
          /\ owed' = [owed EXCEPT ![c] = IF n \in HEAD_LEN..(HEAD_LEN + body_max_length)
                                         THEN n - HEAD_LEN ELSE 0]
          /\ sent' = [sent EXCEPT ![c] = Append(@, n)]
    BY <1>2 DEF SendHeader
  <2>2. [head |-> TRUE, n |-> n] \in Unit
    BY DEF Unit
  <2>3. wire[c] \in Seq(Unit) /\ sent[c] \in Seq(Lengths)
    BY DEF TypeOK
  <2>4. Append(wire[c], [head |-> TRUE, n |-> n]) \in Seq(Unit)
        /\ Append(sent[c], n) \in Seq(Lengths)
    BY <2>2, <2>3, AppendProperties
  <2>5. wire' \in [Conns -> Seq(Unit)] /\ sent' \in [Conns -> Seq(Lengths)]
    BY <2>1, <2>4 DEF TypeOK
  <2>6. owed' \in [Conns -> 0..body_max_length]
    BY <2>1, ServerAssumption DEF TypeOK
  <2> QED
    BY <1>2, <2>5, <2>6 DEF TypeOK, SendHeader, pool, handler
<1>3. CASE SendBody(c)
  <2> DEFINE u == [head |-> FALSE, n |-> Len(sent[c])]
  <2>1. wire[c] \in Seq(Unit) /\ sent[c] \in Seq(Lengths)
    BY DEF TypeOK
  <2>2. u \in Unit
    BY <2>1, LenProperties DEF Unit
  <2>3. Append(wire[c], u) \in Seq(Unit)
    BY <2>1, <2>2, AppendProperties
  <2>4. wire' \in [Conns -> Seq(Unit)]
    BY <1>3, <2>3 DEF TypeOK, SendBody
  <2>5. owed' \in [Conns -> 0..body_max_length]
    BY <1>3, ServerAssumption DEF TypeOK, SendBody
  <2> QED
    BY <1>3, <2>4, <2>5 DEF TypeOK, SendBody, pool, handler
<1>4. CASE Leave(c)
  <2>1. wire' \in [Conns -> Seq(Unit)] /\ left' \in [Conns -> BOOLEAN]
    <3>1. <<>> \in Seq(Unit) /\ wire \in [Conns -> Seq(Unit)]
      BY EmptySeq DEF TypeOK
    <3>2. wire' = wire \/ wire' = [wire EXCEPT ![c] = <<>>]
      BY <1>4 DEF Leave
    <3>3. wire' \in [Conns -> Seq(Unit)]
      BY <3>1, <3>2
    <3>4. left' \in [Conns -> BOOLEAN]
      BY <1>4 DEF TypeOK, Leave
    <3> QED
      BY <3>3, <3>4
  <2> QED
    BY <1>4, <2>1 DEF TypeOK, Leave, pool, handler
<1> QED
  BY <1>1, <1>2, <1>3, <1>4 DEF Peer

-----------------------------------------------------------------------------
(* The ids.                                                                *)

(* What IdsAccounted says, in parts: the three places of an id are apart,  *)
(* the map has exactly the live connections, each under its own id, and    *)
(* nothing is lost.                                                        *)
Apart == /\ Distinct(m_connIDs)
         /\ ToSet(m_connIDs) \cap Used = {} /\ pending \notin ToSet(m_connIDs) \cup Used

OneEntry == \A c \in Conns :
              /\ stage[c] = "live" <=> reading[c] # "none"
              /\ stage[c] = "live" => connID[c] \in Ids
              /\ \A i \in Ids : m_handlers[i] = c <=> stage[c] = "live" /\ connID[c] = i

NoneLost == /\ running => Ids = ToSet(m_connIDs) \cup Used \cup ({pending} \ {0})
            /\ overrun => Used = Ids

IInv == TypeOK /\ Apart /\ OneEntry /\ NoneLost

LEMMA PartsAccount == IInv => IdsAccounted
<1> SUFFICES ASSUME IInv PROVE IdsAccounted
  OBVIOUS
<1>1. DOMAIN m_connIDs = 1..Len(m_connIDs)
  BY LenProperties DEF IInv, TypeOK
<1>2. \A i, j \in DOMAIN m_connIDs : i # j => m_connIDs[i] # m_connIDs[j]
  BY <1>1 DEF IInv, Apart, Distinct
<1>3. \A c \in Conns :
        /\ stage[c] = "live" <=> reading[c] # "none"
        /\ stage[c] = "live" <=> \E i \in Ids : m_handlers[i] = c
        /\ stage[c] = "live" => m_handlers[connID[c]] = c
  BY DEF IInv, OneEntry
<1> QED
  BY <1>2, <1>3 DEF IInv, Apart, NoneLost, IdsAccounted

LEMMA UsedIds ==
  ASSUME TypeOK
  PROVE  ToSet(m_connIDs) \subseteq Ids /\ Used \subseteq Ids
<1>1. DOMAIN m_connIDs = 1..Len(m_connIDs) /\ \A i \in 1..Len(m_connIDs) : m_connIDs[i] \in Ids
  BY LenProperties, ElementOfSeq DEF TypeOK
<1> QED
  BY <1>1 DEF ToSet, Used

LEMMA ErrorIds ==
  ASSUME IInv, NEW c \in Conns, Runs, reading[c] # "none", HandleError(c)
  PROVE  Apart' /\ OneEntry' /\ NoneLost'
<1> DEFINE k == connID[c]
<1>1. /\ m_connIDs' = Append(m_connIDs, k) /\ m_handlers' = [m_handlers EXCEPT ![k] = Nobody]
      /\ pending' = pending /\ running' = running /\ overrun' = overrun
      /\ stage' = [stage EXCEPT ![c] = "closed"] /\ reading' = [reading EXCEPT ![c] = "none"]
      /\ connID' = connID
  BY DEF HandleError
<1>2. stage[c] = "live" /\ k \in Ids /\ m_handlers[k] = c /\ c # Nobody
  BY ServerAssumption DEF IInv, OneEntry
<1>3. k \in Used /\ k \notin ToSet(m_connIDs) /\ k # pending
  BY <1>2 DEF IInv, Apart, Used
<1>4. Used' = Used \ {k}
  BY <1>1, <1>2 DEF IInv, TypeOK, Used
<1>5. ToSet(m_connIDs)' = ToSet(m_connIDs) \cup {k} /\ Distinct(m_connIDs)'
  BY <1>1, <1>2, <1>3, ElementsOfAppend DEF IInv, TypeOK, Apart
<1>6. Apart'
  BY <1>1, <1>3, <1>4, <1>5 DEF IInv, Apart
<1>7. OneEntry'
  BY <1>1, <1>2, ServerAssumption DEF IInv, TypeOK, OneEntry
<1>8. NoneLost'
  BY <1>1, <1>3, <1>4, <1>5 DEF IInv, NoneLost, Runs
<1> QED
  BY <1>6, <1>7, <1>8

(* The acceptor's id goes to the connection, and the first free one to the *)
(* acceptor, if there is one.                                              *)
LEMMA AcceptIds ==
  ASSUME IInv, NEW c \in Conns, OnAccept(c)
  PROVE  Apart' /\ OneEntry' /\ NoneLost'
<1>1. /\ connID' = [connID EXCEPT ![c] = pending] /\ running' = running
      /\ stage' = [stage EXCEPT ![c] = "live"] /\ reading' = [reading EXCEPT ![c] = "header"]
      /\ running /\ ~overrun /\ pending # 0 /\ stage[c] = "backlog"
  BY DEF OnAccept, Runs
<1>2. pending \in Ids /\ pending \notin Used /\ pending \notin ToSet(m_connIDs)
  BY <1>1, ServerAssumption DEF IInv, TypeOK, Apart, Ids
<1>3. m_handlers' = [m_handlers EXCEPT ![pending] = c]
  BY <1>2 DEF OnAccept, Used
<1>4. Used' = Used \cup {pending} /\ Used \subseteq Ids
  BY <1>2, <1>3, ServerAssumption DEF IInv, TypeOK, Used
<1>5. OneEntry'
  <2>1. \A i \in Ids : m_handlers[i] # c
    BY <1>1 DEF IInv, OneEntry
  <2>2. /\ stage \in [Conns -> {"none", "backlog", "live", "closed"}]
        /\ reading \in [Conns -> {"none", "header", "body"}]
        /\ connID \in [Conns -> 0..MAX_CONN_NUM] /\ m_handlers \in [Ids -> Conns \cup {Nobody}]
        /\ OneEntry
    BY DEF IInv, TypeOK
  <2>3. m_handlers[pending] \notin Conns
    BY <1>2, <2>2, ServerAssumption DEF Used
  <2>4. ASSUME NEW d \in Conns
        PROVE  /\ stage'[d] = "live" <=> reading'[d] # "none"
               /\ stage'[d] = "live" => connID'[d] \in Ids
    BY <1>1, <1>2, <2>2 DEF OneEntry
  <2>5. ASSUME NEW d \in Conns, NEW i \in Ids
        PROVE  m_handlers'[i] = d <=> stage'[d] = "live" /\ connID'[d] = i
    <3>1. CASE d = c
      BY <1>1, <1>2, <1>3, <2>1, <2>2, <3>1
    <3>2. CASE d # c
      <4>1. m_handlers'[i] = d <=> m_handlers[i] = d
        BY <1>2, <1>3, <2>2, <2>3, <3>2
      <4>2. stage'[d] = stage[d] /\ connID'[d] = connID[d]
        BY <1>1, <2>2, <3>2
      <4> QED
        BY <2>2, <4>1, <4>2 DEF OneEntry
    <3> QED
      BY <3>1, <3>2
  <2> QED
    BY <2>4, <2>5 DEF OneEntry
<1>6. CASE m_connIDs # <<>>
  <2>1. pending' = Head(m_connIDs) /\ m_connIDs' = Tail(m_connIDs) /\ overrun' = overrun
    BY <1>6 DEF OnAccept, CreateHandler
  <2>2. /\ Head(m_connIDs) \in ToSet(m_connIDs)
        /\ ToSet(Tail(m_connIDs)) = ToSet(m_connIDs) \ {Head(m_connIDs)}
        /\ Distinct(Tail(m_connIDs))
    BY <1>6, ElementsOfTail DEF IInv, TypeOK, Apart
  <2>3. ToSet(m_connIDs)' = ToSet(m_connIDs) \ {pending'} /\ pending' \in ToSet(m_connIDs)
    BY <2>1, <2>2
  <2>4. ToSet(m_connIDs) \subseteq Ids /\ 0 \notin Ids
    BY UsedIds DEF IInv, Ids
  <2>5. Apart'
    BY <1>2, <1>4, <2>1, <2>2, <2>3 DEF IInv, Apart
  <2>6. NoneLost'
    BY <1>1, <1>2, <1>4, <2>1, <2>3, <2>4 DEF IInv, NoneLost
  <2> QED
    BY <1>5, <2>5, <2>6
<1>7. CASE m_connIDs = <<>>
  <2>1. pending' = 0 /\ m_connIDs' = m_connIDs
    BY <1>7 DEF OnAccept, CreateHandler
  <2>2. ToSet(m_connIDs) = {} /\ 0 \notin Ids
    BY <1>7, ElementsOfEmpty DEF Ids
  <2>3. Apart'
    BY <1>4, <1>2, <2>1, <2>2 DEF IInv, Apart
  <2>4. NoneLost'
    BY <1>1, <1>2, <1>4, <2>1, <2>2 DEF IInv, NoneLost
  <2> QED
    BY <1>5, <2>3, <2>4
<1> QED
  BY <1>6, <1>7

(* What leaves the ids, the handlers and their reads as they are.          *)
LEMMA SameIds ==
  ASSUME IInv, UNCHANGED <<pool, connID, running, overrun>>,
         \A c \in Conns : stage'[c] = "live" <=> stage[c] = "live",
         \A c \in Conns : reading'[c] # "none" <=> reading[c] # "none"
  PROVE  Apart' /\ OneEntry' /\ NoneLost'
<1>1. Apart'
  BY DEF IInv, Apart, Used, pool
<1>2. NoneLost'
  BY DEF IInv, NoneLost, Used, pool
<1>3. OneEntry'
  BY DEF IInv, OneEntry, pool
<1> QED
  BY <1>1, <1>2, <1>3

LEMMA PeerIds ==
  ASSUME IInv, NEW c \in Conns, Peer(c)
  PROVE  Apart' /\ OneEntry' /\ NoneLost'
<1>1. UNCHANGED <<pool, connID, running, overrun, reading>>
  BY DEF Peer, Connect, SendHeader, SendBody, Leave, handler
<1>2. \A d \in Conns : stage'[d] = "live" <=> stage[d] = "live"
  <2>1. CASE Connect(c)
    BY <2>1 DEF Connect, IInv, TypeOK
  <2>2. CASE ~Connect(c)
    BY <2>2 DEF Peer, SendHeader, SendBody, Leave, handler
  <2> QED
    BY <2>1, <2>2
<1> QED
  BY <1>1, <1>2, SameIds

-----------------------------------------------------------------------------
(* The invariant.                                                          *)

LEMMA InitInv == Init => IInv
<1> SUFFICES ASSUME Init PROVE IInv
  OBVIOUS
<1> DEFINE s == [i \in 1..(MAX_CONN_NUM - 1) |-> i + 1]
<1>1. s \in Seq(Ids) /\ Len(s) = MAX_CONN_NUM - 1 /\ DOMAIN s = 1..(MAX_CONN_NUM - 1)
  <2>1. MAX_CONN_NUM - 1 \in Nat /\ \A i \in 1..(MAX_CONN_NUM - 1) : i + 1 \in Ids
    BY ServerAssumption DEF Ids
  <2> QED
    BY <2>1, IsASeq, LenProperties
<1>2. \A i \in 1..(MAX_CONN_NUM - 1) : s[i] = i + 1
  OBVIOUS
<1>3. m_connIDs = s /\ pending = 1
  BY DEF Init
<1> HIDE DEF s
<1>4. ToSet(s) = Ids \ {1}
  <2>1. ToSet(s) \subseteq Ids \ {1}
    BY <1>1, <1>2, ServerAssumption DEF ToSet, Ids
  <2>2. ASSUME NEW k \in Ids \ {1} PROVE k \in ToSet(s)
    <3>1. k - 1 \in DOMAIN s /\ s[k - 1] = k
      BY <1>1, <1>2, ServerAssumption DEF Ids
    <3> QED
      BY <3>1 DEF ToSet
  <2> QED
    BY <2>1, <2>2
<1>5. Used = {} /\ 1 \in Ids
  BY ServerAssumption DEF Init, Used, Ids
<1>6. Apart /\ NoneLost
  <2>1. Distinct(s)
    BY <1>1, <1>2, ServerAssumption DEF Distinct
  <2>2. pending = 1 /\ ~overrun
    BY DEF Init
  <2>3. Apart
    BY <1>3, <1>4, <1>5, <2>1, <2>2 DEF Apart
  <2>4. NoneLost
    BY <1>3, <1>4, <1>5, <2>2 DEF NoneLost
  <2> QED
    BY <2>3, <2>4
<1>7. OneEntry
  BY ServerAssumption DEF Init, OneEntry
<1>8. <<>> \in Seq(Unit) /\ <<>> \in Seq(Lengths) /\ <<>> \in Seq(Seq(Unit))
  BY EmptySeq
<1>9. TypeOK
  <2>1. m_connIDs \in Seq(Ids) /\ pending \in 0..MAX_CONN_NUM
    BY <1>1, <1>3, ServerAssumption
  <2>2. /\ wire \in [Conns -> Seq(Unit)] /\ sent \in [Conns -> Seq(Lengths)]
        /\ got \in [Conns -> Seq(Seq(Unit))]
    BY <1>8 DEF Init
  <2>3. /\ connID \in [Conns -> 0..MAX_CONN_NUM] /\ owed \in [Conns -> 0..body_max_length]
        /\ body_length \in [Conns -> 0..body_max_length]
    BY ServerAssumption DEF Init
  <2>4. /\ m_handlers \in [Ids -> Conns \cup {Nobody}]
        /\ stage \in [Conns -> {"none", "backlog", "live", "closed"}]
        /\ reading \in [Conns -> {"none", "header", "body"}]
        /\ running \in BOOLEAN /\ overrun \in BOOLEAN /\ left \in [Conns -> BOOLEAN]
    BY DEF Init
  <2> QED
    BY <2>1, <2>2, <2>3, <2>4 DEF TypeOK
<1> QED
  BY <1>6, <1>7, <1>9 DEF IInv

LEMMA NextInv == IInv /\ [Next]_vars => IInv'
<1> SUFFICES ASSUME IInv, [Next]_vars PROVE IInv'
  OBVIOUS
<1>1. ASSUME NEW c \in Conns, OnAccept(c) PROVE IInv'
  BY <1>1, AcceptTypes, AcceptIds DEF IInv
<1>2. ASSUME NEW c \in Conns, OnHeader(c) PROVE IInv'
  <2>1. connID[c] \in Ids /\ reading[c] # "none" /\ Runs
    BY <1>2 DEF OnHeader, IInv, OneEntry
  <2>2. TypeOK'
    BY <1>2, <2>1, HeaderTypes DEF IInv
  <2>3. CASE HandleError(c)
    BY <2>1, <2>2, <2>3, ErrorIds DEF IInv
  <2>4. CASE ~HandleError(c)
    <3>1. /\ UNCHANGED <<pool, connID, running, overrun, stage>>
          /\ reading' = [reading EXCEPT ![c] = "body"]
      BY <1>2, <2>4 DEF OnHeader
    <3>2. \A d \in Conns : reading'[d] # "none" <=> reading[d] # "none"
      BY <2>1, <3>1 DEF IInv, TypeOK
    <3> QED
      BY <2>2, <3>1, <3>2, SameIds DEF IInv
  <2> QED
    BY <2>3, <2>4
<1>3. ASSUME NEW c \in Conns, OnBody(c) PROVE IInv'
  <2>1. connID[c] \in Ids /\ reading[c] # "none" /\ Runs
    BY <1>3 DEF OnBody, IInv, OneEntry
  <2>2. TypeOK'
    BY <1>3, <2>1, BodyTypes DEF IInv
  <2>3. CASE HandleError(c)
    BY <2>1, <2>2, <2>3, ErrorIds DEF IInv
  <2>4. CASE ~HandleError(c)
    <3>1. /\ UNCHANGED <<pool, connID, running, overrun, stage>>
          /\ reading' = [reading EXCEPT ![c] = "header"]
      BY <1>3, <2>4 DEF OnBody
    <3>2. \A d \in Conns : reading'[d] # "none" <=> reading[d] # "none"
      BY <2>1, <3>1 DEF IInv, TypeOK
    <3> QED
      BY <2>2, <3>1, <3>2, SameIds DEF IInv
  <2> QED
    BY <2>3, <2>4
<1>4. ASSUME NEW c \in Conns, Peer(c) PROVE IInv'
  BY <1>4, PeerTypes, PeerIds DEF IInv
<1>5. CASE OnAcceptError
  <2>1. /\ UNCHANGED <<m_connIDs, m_handlers, handler, overrun, peer, wire, got>>
        /\ running' = FALSE /\ pending' = 0 /\ ~overrun
    BY <1>5 DEF OnAcceptError, Runs
  <2>2. TypeOK'
    <3>0. running' \in BOOLEAN
      BY <2>1
    <3>1. pending' \in 0..MAX_CONN_NUM
      BY <2>1, ServerAssumption
    <3>2. TypeOK /\ m_connIDs' = m_connIDs /\ m_handlers' = m_handlers /\ stage' = stage
          /\ connID' = connID /\ reading' = reading /\ body_length' = body_length
          /\ overrun' = overrun /\ left' = left /\ owed' = owed /\ sent' = sent
          /\ wire' = wire /\ got' = got
      BY <2>1 DEF IInv, handler, peer
    <3> QED
      BY <3>0, <3>1, <3>2 DEF TypeOK
  <2>3. OneEntry' /\ NoneLost'
    BY <2>1 DEF IInv, OneEntry, NoneLost, handler, Used
  <2>4. 0 \notin ToSet(m_connIDs) \cup Used
    BY UsedIds DEF IInv, Ids
  <2>5. Apart'
    BY <2>1, <2>4 DEF IInv, Apart, Used
  <2> QED
    BY <2>2, <2>3, <2>5 DEF IInv
<1>6. CASE UNCHANGED vars
  BY <1>6 DEF vars, pool, handler, peer, IInv, TypeOK, Apart, OneEntry, NoneLost, Used
<1> QED
  BY <1>1, <1>2, <1>3, <1>4, <1>5, <1>6 DEF Next, Callback

LEMMA Inductive == Spec => []IInv
<1> QED
  BY InitInv, NextInv, PTL DEF Spec

(* For any connections, ids, lengths and frames the types hold: whatever a *)
(* header says, no read of a body goes past the end of Message::data.      *)
THEOREM TypeCorrect == Spec => []TypeOK
<1>1. IInv => TypeOK
  BY DEF IInv
<1> QED
  BY <1>1, Inductive, PTL

(* However connections come and go, no id is lost or given to two, a live  *)
(* handler is in the map under its id, and the list runs empty only when   *)
(* every id is in use.                                                     *)
THEOREM IdsAreAccounted == Spec => []IdsAccounted
<1> QED
  BY PartsAccount, Inductive, PTL

-----------------------------------------------------------------------------
(* Frames.  at[k] is the place of the k-th header in the units not read    *)
(* yet, counted from the first of them: 1 when that header is the next     *)
(* unit, 0 when it has just been read, less for frames before it.          *)

(* The units a peer sends after a header.                                  *)
Size(n) == IF n \in HEAD_LEN..(HEAD_LEN + body_max_length) THEN n - HEAD_LEN ELSE 0

Places(s) == [1..(Len(s) + 1) -> Int]

Moved(s, at, d) == [k \in 1..(Len(s) + 1) |-> at[k] - d]

(* The frames s lie one after the other, each unit in w at its place.      *)
Laid(s, w, at) ==
  /\ \A k \in 1..Len(s) : at[k + 1] = at[k] + 1 + Size(s[k])
  /\ \A k, l \in 1..(Len(s) + 1) : k < l => at[k] + 1 + Size(s[k]) <= at[l]
  /\ \A k \in 1..Len(s) :
       at[k] \in 1..Len(w) => w[at[k]] = [head |-> TRUE, n |-> s[k]]
  /\ \A k \in 1..Len(s) : \A i \in 1..Size(s[k]) :
       at[k] + i \in 1..Len(w) => w[at[k] + i] = [head |-> FALSE, n |-> k]

(* Where the handler has got to: b units of the frame whose header it read,*)
(* or the next header.                                                     *)
Reads(s, g, r, b, at) ==
  /\ Len(g) <= Len(s)
  /\ r # "body" => at[Len(g) + 1] = 1
  /\ r = "body" => /\ Len(g) < Len(s) /\ at[Len(g) + 1] = 0
                   /\ s[Len(g) + 1] = b + HEAD_LEN

(* Where the peer has got to: o units short of the end of its last frame.  *)
Ends(s, w, o, lf, at) ==
  /\ at[Len(s) + 1] > Len(w)
  /\ ~lf => /\ at[Len(s) + 1] = Len(w) + 1 + o
            /\ o > 0 => Len(s) > 0 /\ o <= Size(s[Len(s)])

Flow(s, w, o, lf, g, r, b) ==
  \E at \in Places(s) : Laid(s, w, at) /\ Reads(s, g, r, b, at) /\ Ends(s, w, o, lf, at)

Bodies(s, g) ==
  \A k \in DOMAIN g :
    /\ k \in DOMAIN s
    /\ g[k] = [i \in 1..(s[k] - HEAD_LEN) |-> [head |-> FALSE, n |-> k]]

(* What a connection's two ends have done fits together until it closes.   *)
FlowOf(c) ==
  stage[c] # "closed" =>
    Flow(sent[c], wire[c], owed[c], left[c], got[c], reading[c], body_length[c])

BodiesOf(c) == Bodies(sent[c], got[c])

Stream == \A c \in Conns : FlowOf(c) /\ BodiesOf(c)

LEMMA SizeRange ==
  ASSUME NEW n \in Int
  PROVE  Size(n) \in 0..body_max_length
  BY ServerAssumption DEF Size

(* A header that is let through announced a length in range.               *)
LEMMA LengthDecoded ==
  ASSUME NEW n \in Lengths, BodyLength([head |-> TRUE, n |-> n]) <= body_max_length
  PROVE  BodyLength([head |-> TRUE, n |-> n]) = n - HEAD_LEN /\ Size(n) = n - HEAD_LEN
<1>1. /\ n \in Int /\ HEAD_LEN \in Nat /\ body_max_length \in Nat /\ Word \in Nat
      /\ Word > 0 /\ Word > n /\ Word + n > HEAD_LEN + body_max_length
  BY ServerAssumption
<1>2. BodyLength([head |-> TRUE, n |-> n]) = (n - HEAD_LEN) % Word
  BY DEF BodyLength
<1> DEFINE d == n - HEAD_LEN
<1>3. d \in Int
  BY <1>1
<1>4. CASE d >= 0
  <2>1. d < Word
    BY <1>1
  <2>2. d % Word = d
    BY <1>1, <1>3, <1>4, <2>1
  <2>3. d <= body_max_length
    BY <1>2, <2>2
  <2> QED
    BY <1>1, <1>2, <1>4, <2>2, <2>3 DEF Size
<1>5. CASE d < 0
  <2>1. 0 <= d + Word /\ d + Word < Word
    BY <1>1, <1>5
  <2>2. d % Word = d + Word
    BY <1>1, <1>3, <2>1
  <2>3. d + Word > body_max_length
    BY <1>1
  <2> QED
    BY <1>1, <1>2, <2>2, <2>3
<1> QED
  BY <1>1, <1>3, <1>4, <1>5

(* Taking d units off the front moves every place by d.                    *)
LEMMA TakeUnits ==
  ASSUME NEW s \in Seq(Lengths), NEW w, NEW v, NEW at \in Places(s), NEW d \in Nat,
         Len(w) \in Nat, Len(v) = Len(w) - d, Len(v) \in Nat, Laid(s, w, at),
         \A i \in 1..Len(v) : v[i] = w[i + d]
  PROVE  Moved(s, at, d) \in Places(s) /\ Laid(s, v, Moved(s, at, d))
<1> DEFINE bt == Moved(s, at, d)
<1>1. Len(s) \in Nat /\ \A k \in 1..Len(s) : s[k] \in Int
  <2> SUFFICES ASSUME NEW k \in 1..Len(s) PROVE s[k] \in Int
    OBVIOUS
  <2>1. Lengths \subseteq Int
    BY ServerAssumption
  <2>2. s[k] \in Lengths
    BY ElementOfSeq
  <2> QED
    BY <2>1, <2>2
<1>2. \A k \in 1..(Len(s) + 1) : at[k] \in Int /\ bt[k] \in Int /\ bt[k] = at[k] - d
  BY DEF Places, Moved
<1>3. bt \in Places(s)
  BY <1>2 DEF Places, Moved
<1> HIDE DEF bt
<1>4. \A k \in 1..Len(s) : Size(s[k]) \in Int
  <2> SUFFICES ASSUME NEW k \in 1..Len(s) PROVE Size(s[k]) \in Int
    OBVIOUS
  <2>1. Size(s[k]) \in 0..body_max_length
    BY <1>1, SizeRange
  <2> QED
    BY <2>1
<1>5. \A k \in 1..Len(s) : bt[k + 1] = bt[k] + 1 + Size(s[k])
  <2> SUFFICES ASSUME NEW k \in 1..Len(s) PROVE bt[k + 1] = bt[k] + 1 + Size(s[k])
    OBVIOUS
  <2>1. k \in 1..(Len(s) + 1) /\ k + 1 \in 1..(Len(s) + 1)
    BY <1>1
  <2>2. at[k + 1] = at[k] + 1 + Size(s[k])
    BY DEF Laid
  <2>3. /\ at[k] \in Int /\ bt[k] = at[k] - d /\ bt[k + 1] = at[k + 1] - d
        /\ Size(s[k]) \in Int
    BY <1>2, <1>4, <2>1
  <2> QED
    BY <2>2, <2>3
<1>6. \A k, l \in 1..(Len(s) + 1) : k < l => bt[k] + 1 + Size(s[k]) <= bt[l]
  <2> SUFFICES ASSUME NEW k \in 1..(Len(s) + 1), NEW l \in 1..(Len(s) + 1), k < l
               PROVE  bt[k] + 1 + Size(s[k]) <= bt[l]
    OBVIOUS
  <2>1. k \in 1..Len(s)
    BY <1>1
  <2>2. at[k] + 1 + Size(s[k]) <= at[l]
    BY DEF Laid
  <2>3. /\ at[k] \in Int /\ at[l] \in Int /\ bt[k] = at[k] - d /\ bt[l] = at[l] - d
    BY <1>2
  <2>4. Size(s[k]) \in Int
    BY <1>4, <2>1
  <2>5. \A a, z, e \in Int : a + 1 + z <= e => (a - d) + 1 + z <= e - d
    OBVIOUS
  <2> QED
    BY <2>2, <2>3, <2>4, <2>5
<1>7. \A k \in 1..Len(s) :
         bt[k] \in 1..Len(v) => v[bt[k]] = [head |-> TRUE, n |-> s[k]]
  <2> SUFFICES ASSUME NEW k \in 1..Len(s), bt[k] \in 1..Len(v)
               PROVE  v[bt[k]] = [head |-> TRUE, n |-> s[k]]
    OBVIOUS
  <2>1. at[k] \in 1..Len(w) /\ v[bt[k]] = w[at[k]]
    BY <1>1, <1>2
  <2> QED
    BY <2>1 DEF Laid
<1>8. \A k \in 1..Len(s) : \A i \in 1..Size(s[k]) :
         bt[k] + i \in 1..Len(v) => v[bt[k] + i] = [head |-> FALSE, n |-> k]
  <2> SUFFICES ASSUME NEW k \in 1..Len(s), NEW i \in 1..Size(s[k]), bt[k] + i \in 1..Len(v)
               PROVE  v[bt[k] + i] = [head |-> FALSE, n |-> k]
    OBVIOUS
  <2>0. i \in Int
    BY <1>4
  <2>1. k \in 1..(Len(s) + 1)
    BY <1>1
  <2>2. at[k] \in Int /\ bt[k] = at[k] - d
    BY <1>2, <2>1
  <2>3. /\ at[k] + i \in 1..Len(w) /\ bt[k] + i + d = at[k] + i
        /\ v[bt[k] + i] = w[at[k] + i]
    <3>1. bt[k] + i + d = at[k] + i
      BY <2>0, <2>2
    <3>2. v[bt[k] + i] = w[(bt[k] + i) + d]
      OBVIOUS
    <3>3. at[k] + i \in 1..Len(w)
      <4> DEFINE j == bt[k] + i
      <4>1. j \in 1..Len(v) /\ j + d = at[k] + i
        BY <3>1
      <4> HIDE DEF j
      <4>2. j + d \in 1..Len(w)
        BY <4>1
      <4> QED
        BY <4>1, <4>2, Zenon
    <3> QED
      BY <3>1, <3>2, <3>3
  <2> QED
    BY <2>3 DEF Laid
<1> QED
  BY <1>3, <1>5, <1>6, <1>7, <1>8 DEF Laid, bt

(* The first unit is the next header.                                      *)
LEMMA NextUnit ==
  ASSUME NEW s \in Seq(Lengths), NEW w \in Seq(Unit), w # <<>>, NEW o, NEW lf, NEW g,
         Len(g) \in Nat, NEW r, r # "body", NEW b, NEW at \in Places(s),
         Laid(s, w, at), Reads(s, g, r, b, at), Ends(s, w, o, lf, at)
  PROVE  Len(g) + 1 \in 1..Len(s) /\ Head(w) = [head |-> TRUE, n |-> s[Len(g) + 1]]
<1>1. Len(s) \in Nat /\ Len(w) \in Nat /\ Len(w) > 0 /\ Head(w) = w[1]
  OBVIOUS
<1>2. at[Len(g) + 1] = 1 /\ at[Len(s) + 1] > Len(w) /\ Len(g) <= Len(s)
  BY DEF Reads, Ends
<1>3. Len(g) # Len(s)
  BY <1>1, <1>2
<1>4. Len(g) + 1 \in 1..Len(s)
  BY <1>1, <1>2, <1>3
<1>5. Len(g) + 1 \in 1..Len(s) => /\ at[Len(g) + 1] \in 1..Len(w)
                                   /\ w[at[Len(g) + 1]] = w[1]
  BY <1>1, <1>2
<1>6. w[at[Len(g) + 1]] = [head |-> TRUE, n |-> s[Len(g) + 1]]
  BY <1>4, <1>5 DEF Laid
<1> QED
  BY <1>1, <1>4, <1>5, <1>6

(* A header that is let through: its body is the next thing to read.       *)
LEMMA HeaderFlow ==
  ASSUME NEW s \in Seq(Lengths), NEW w \in Seq(Unit), w # <<>>, NEW o \in Nat,
         NEW lf \in BOOLEAN, NEW g, Len(g) \in Nat, NEW r, r # "body", NEW b,
         Flow(s, w, o, lf, g, r, b), BodyLength(Head(w)) <= body_max_length
  PROVE  Flow(s, Tail(w), o, lf, g, "body", BodyLength(Head(w)))
<1>1. PICK at \in Places(s) :
        Laid(s, w, at) /\ Reads(s, g, r, b, at) /\ Ends(s, w, o, lf, at)
  BY DEF Flow
<1>2. Len(g) + 1 \in 1..Len(s) /\ Head(w) = [head |-> TRUE, n |-> s[Len(g) + 1]]
  BY <1>1, NextUnit
<1>3. s[Len(g) + 1] \in Lengths /\ s[Len(g) + 1] \in Int /\ HEAD_LEN \in Nat /\ Len(s) \in Nat
  <2>1. s[Len(g) + 1] \in Lengths
    BY <1>2, ElementOfSeq
  <2>2. Lengths \subseteq Int /\ HEAD_LEN \in Nat
    BY ServerAssumption
  <2>3. Len(s) \in Nat
    OBVIOUS
  <2>4. s[Len(g) + 1] \in Int
    BY <2>1, <2>2
  <2> QED
    BY <2>1, <2>2, <2>3, <2>4
<1>4. BodyLength(Head(w)) = s[Len(g) + 1] - HEAD_LEN
  BY <1>2, <1>3, LengthDecoded
<1>5. /\ Tail(w) \in Seq(Unit) /\ Len(Tail(w)) = Len(w) - 1 /\ Len(w) \in Nat
      /\ Len(Tail(w)) \in Nat /\ \A i \in 1..Len(Tail(w)) : Tail(w)[i] = w[i + 1]
  BY HeadTailProperties
<1> DEFINE bt == Moved(s, at, 1)
<1>6. bt \in Places(s) /\ Laid(s, Tail(w), bt)
  BY <1>1, <1>5, TakeUnits
<1>7. \A k \in 1..(Len(s) + 1) : at[k] \in Int /\ bt[k] = at[k] - 1
  BY DEF Places, Moved
<1>8. Reads(s, g, "body", BodyLength(Head(w)), bt)
  <2>1. at[Len(g) + 1] = 1
    BY <1>1 DEF Reads
  <2>2. Len(g) + 1 \in 1..(Len(s) + 1)
    BY <1>2, <1>3
  <2>3. bt[Len(g) + 1] = 0
    BY <1>7, <2>1, <2>2
  <2>4. Len(g) < Len(s)
    BY <1>2, <1>3
  <2> HIDE DEF bt
  <2> QED
    BY <1>3, <1>4, <2>3, <2>4 DEF Reads
<1>9. Ends(s, Tail(w), o, lf, bt)
  <2>1. Len(s) + 1 \in 1..(Len(s) + 1)
    BY <1>3
  <2>2. bt[Len(s) + 1] = at[Len(s) + 1] - 1 /\ at[Len(s) + 1] \in Int
    BY <1>7, <2>1
  <2> HIDE DEF bt
  <2> QED
    BY <1>1, <1>5, <2>2 DEF Ends
<1> HIDE DEF bt
<1> QED
  BY <1>6, <1>8, <1>9 DEF Flow

(* A whole body: it is what the peer sent, and the next header follows.    *)
LEMMA BodyFlow ==
  ASSUME NEW s \in Seq(Lengths), NEW w \in Seq(Unit), NEW o \in Nat, NEW lf \in BOOLEAN,
         NEW g \in Seq(Seq(Unit)), NEW b \in 0..body_max_length, Len(w) >= b,
         Flow(s, w, o, lf, g, "body", b), Bodies(s, g)
  PROVE  /\ Flow(s, SubSeq(w, b + 1, Len(w)), o, lf, Append(g, SubSeq(w, 1, b)), "header", b)
         /\ Bodies(s, Append(g, SubSeq(w, 1, b)))
<1>1. PICK at \in Places(s) :
        Laid(s, w, at) /\ Reads(s, g, "body", b, at) /\ Ends(s, w, o, lf, at)
  BY DEF Flow
<1> DEFINE m == Len(g) + 1
           body == SubSeq(w, 1, b)
           v == SubSeq(w, b + 1, Len(w))
<1>2. /\ Len(g) \in Nat /\ Len(s) \in Nat /\ Len(w) \in Nat /\ b \in Nat
      /\ HEAD_LEN \in Nat /\ body_max_length \in Nat
  BY ServerAssumption
<1>3. m \in 1..Len(s) /\ m + 1 \in 1..(Len(s) + 1) /\ at[m] = 0 /\ s[m] = b + HEAD_LEN
  BY <1>1, <1>2 DEF Reads
<1>4. Size(s[m]) = b /\ s[m] - HEAD_LEN = b
  BY <1>2, <1>3 DEF Size
<1>5. /\ body \in Seq(Unit) /\ Len(body) = b /\ \A i \in 1..b : body[i] = w[i]
      /\ v \in Seq(Unit) /\ Len(v) = Len(w) - b /\ Len(v) \in Nat
      /\ \A i \in 1..Len(v) : v[i] = w[i + b]
  <2>1. \A i \in 1..Len(w) : w[i] \in Unit
    OBVIOUS
  <2>2. /\ body \in Seq(Unit) /\ Len(body) = b /\ \A i \in 1..b : body[i] = w[i]
    <3>1. \A i \in 1..b : w[i] \in Unit
      BY <1>2, <2>1
    <3>2. /\ body \in Seq(Unit) /\ Len(body) = IF 1 <= b THEN b - 1 + 1 ELSE 0
          /\ \A i \in 1..(b - 1 + 1) : body[i] = w[1 + i - 1]
      BY <1>2, <3>1, SubSeqProperties
    <3> QED
      BY <1>2, <3>2
  <2>3. /\ v \in Seq(Unit) /\ Len(v) = Len(w) - b
        /\ \A i \in 1..(Len(w) - b) : v[i] = w[i + b]
    <3>1. \A i \in (b + 1)..Len(w) : w[i] \in Unit
      BY <1>2, <2>1
    <3>2. /\ v \in Seq(Unit)
          /\ Len(v) = IF b + 1 <= Len(w) THEN Len(w) - (b + 1) + 1 ELSE 0
          /\ \A i \in 1..(Len(w) - (b + 1) + 1) : v[i] = w[(b + 1) + i - 1]
      BY <1>2, <3>1, SubSeqProperties
    <3>3. Len(w) - (b + 1) + 1 = Len(w) - b
      BY <1>2
    <3>4. Len(v) = Len(w) - b
      BY <1>2, <3>2
    <3>5. \A i \in 1..(Len(w) - b) : (b + 1) + i - 1 = i + b
      BY <1>2
    <3> QED
      BY <3>2, <3>3, <3>4, <3>5
  <2> QED
    BY <1>2, <2>2, <2>3
<1> HIDE DEF body, v
<1>6. \A i \in 1..b : body[i] = [head |-> FALSE, n |-> m]
  <2> SUFFICES ASSUME NEW i \in 1..b PROVE body[i] = [head |-> FALSE, n |-> m]
    OBVIOUS
  <2>1. i \in 1..Size(s[m]) /\ at[m] + i = i /\ i \in 1..Len(w)
    BY <1>2, <1>3, <1>4
  <2> QED
    BY <1>1, <1>3, <1>5, <2>1 DEF Laid
<1>7. body = [i \in 1..(s[m] - HEAD_LEN) |-> [head |-> FALSE, n |-> m]]
  <2>1. body = [i \in 1..b |-> body[i]]
    BY <1>5
  <2> QED
    BY <1>4, <1>6, <2>1
<1> DEFINE h == Append(g, body)
<1>8. /\ h \in Seq(Seq(Unit)) /\ Len(h) = m /\ h[m] = body
      /\ \A k \in 1..Len(g) : h[k] = g[k]
  BY <1>5, AppendProperties
<1>9. Bodies(s, h)
  <2>1. \A k \in DOMAIN h : k = m \/ k \in DOMAIN g
    BY <1>2, <1>8
  <2>2. m \in DOMAIN s
    BY <1>3
  <2>3. DOMAIN g = 1..Len(g)
    OBVIOUS
  <2> HIDE DEF h, m
  <2> QED
    BY <1>7, <1>8, <2>1, <2>2, <2>3 DEF Bodies
<1> DEFINE bt == Moved(s, at, b)
<1>10. bt \in Places(s) /\ Laid(s, v, bt)
  BY <1>1, <1>2, <1>5, TakeUnits
<1>11. \A k \in 1..(Len(s) + 1) : at[k] \in Int /\ bt[k] = at[k] - b
  BY DEF Places, Moved
<1>12. Reads(s, h, "header", b, bt)
  <2>1. at[m + 1] = 1 + b
    <3>1. at[m + 1] = at[m] + 1 + Size(s[m])
      BY <1>1, <1>3 DEF Laid
    <3> QED
      BY <1>2, <1>3, <1>4, <3>1
  <2>2. bt[m + 1] = 1
    BY <1>2, <1>3, <1>11, <2>1
  <2> HIDE DEF bt, h, m
  <2> QED
    BY <1>3, <1>8, <2>2 DEF Reads
<1>13. Ends(s, v, o, lf, bt)
  <2>1. bt[Len(s) + 1] = at[Len(s) + 1] - b /\ at[Len(s) + 1] \in Int
    BY <1>2, <1>11
  <2> HIDE DEF bt, h, m
  <2>2. Len(v) = Len(w) - b /\ Ends(s, w, o, lf, at)
    BY <1>1, <1>5
  <2> QED
    BY <1>2, <2>1, <2>2 DEF Ends
<1> HIDE DEF bt, h
<1>14. Flow(s, v, o, lf, h, "header", b)
  BY <1>10, <1>12, <1>13 DEF Flow
<1> QED
  BY <1>9, <1>14 DEF h, body, v

(* A peer that begins a frame: its header is the last unit.                *)
LEMMA BeginFlow ==
  ASSUME NEW s \in Seq(Lengths), NEW w \in Seq(Unit), NEW n \in Lengths, NEW g,
         Len(g) \in Nat, NEW r, NEW b, Flow(s, w, 0, FALSE, g, r, b),
         NEW u, u = [head |-> TRUE, n |-> n], u \in Unit
  PROVE  Flow(Append(s, n), Append(w, u), Size(n), FALSE, g, r, b)
<1>1. PICK at \in Places(s) :
        Laid(s, w, at) /\ Reads(s, g, r, b, at) /\ Ends(s, w, 0, FALSE, at)
  BY DEF Flow
<1> DEFINE m == Len(s) + 1
           z == Append(s, n)
           v == Append(w, u)
           bt == [k \in 1..(m + 1) |-> IF k = m + 1 THEN at[m] + 1 + Size(n) ELSE at[k]]
<1>2. Len(s) \in Nat /\ Len(w) \in Nat
  OBVIOUS
<1>3. /\ z \in Seq(Lengths) /\ Len(z) = m /\ z[m] = n /\ \A k \in 1..Len(s) : z[k] = s[k]
  BY AppendProperties
<1>4. /\ Len(v) = Len(w) + 1 /\ v[Len(w) + 1] = u /\ \A i \in 1..Len(w) : v[i] = w[i]
  BY AppendProperties
<1>5. at[m] = Len(w) + 1
  BY <1>1, <1>2 DEF Ends
<1>6. /\ \A k \in 1..m : at[k] \in Int /\ bt[k] = at[k]
      /\ bt[m + 1] = Len(w) + 2 + Size(n)
  BY <1>2, <1>5 DEF Places
<1>7. /\ Size(n) \in 0..body_max_length /\ Size(n) \in Int
      /\ \A k \in 1..Len(s) : Size(s[k]) \in Int /\ Size(s[k]) >= 0
  <2>1. Lengths \subseteq Int
    BY ServerAssumption
  <2>2. n \in Int
    BY <2>1
  <2>3. Size(n) \in 0..body_max_length
    BY <2>2, SizeRange
  <2>4. ASSUME NEW k \in 1..Len(s) PROVE Size(s[k]) \in Int /\ Size(s[k]) >= 0
    <3>1. s[k] \in Int
      BY <2>1, ElementOfSeq
    <3>2. Size(s[k]) \in 0..body_max_length
      BY <3>1, SizeRange
    <3> QED
      BY <3>2
  <2> QED
    BY <2>3, <2>4
<1>8. bt \in Places(z)
  <2>1. ASSUME NEW k \in 1..(m + 1) PROVE bt[k] \in Int
    <3>1. k \in 1..m \/ k = m + 1
      BY <1>2
    <3>2. Len(w) + 2 + Size(n) \in Int
      BY <1>2, <1>7
    <3> HIDE DEF bt
    <3> QED
      BY <1>6, <3>1, <3>2
  <2> QED
    BY <1>3, <2>1 DEF Places
<1>9. \A k \in 1..Len(s) : at[k] + 1 + Size(s[k]) <= at[m]
  BY <1>1, <1>2 DEF Laid
<1>10. \A k \in 1..Len(s) : at[k] < at[m] /\ \A i \in 1..Size(s[k]) : at[k] + i < at[m]
  <2> SUFFICES ASSUME NEW k \in 1..Len(s)
               PROVE  at[k] < at[m] /\ \A i \in 1..Size(s[k]) : at[k] + i < at[m]
    OBVIOUS
  <2>0. k \in 1..m /\ m \in 1..m
    BY <1>2
  <2>1. at[k] \in Int /\ at[m] \in Int /\ at[k] + 1 + Size(s[k]) <= at[m]
    BY <1>6, <1>9, <2>0
  <2>2. Size(s[k]) \in Int /\ Size(s[k]) >= 0
    BY <1>7
  <2> QED
    BY <2>1, <2>2
<1> HIDE DEF bt, z, v
<1>11. Laid(z, v, bt)
  <2>1. \A k \in 1..Len(z) : bt[k + 1] = bt[k] + 1 + Size(z[k])
    <3> SUFFICES ASSUME NEW k \in 1..m PROVE bt[k + 1] = bt[k] + 1 + Size(z[k])
      BY <1>3
    <3>1. CASE k = m
      <4>1. bt[m] = Len(w) + 1 /\ bt[m + 1] = Len(w) + 2 + Size(n) /\ z[m] = n
        BY <1>2, <1>3, <1>5, <1>6
      <4> HIDE DEF m
      <4> QED
        BY <1>2, <1>7, <3>1, <4>1
    <3>2. CASE k # m
      <4>1. k \in 1..Len(s) /\ k + 1 \in 1..m
        BY <1>2, <3>2
      <4>2. at[k + 1] = at[k] + 1 + Size(s[k])
        BY <1>1, <4>1 DEF Laid
      <4> QED
        BY <1>3, <1>6, <4>1, <4>2
    <3> QED
      BY <3>1, <3>2
  <2>2. \A k, l \in 1..(Len(z) + 1) : k < l => bt[k] + 1 + Size(z[k]) <= bt[l]
    <3> SUFFICES ASSUME NEW k \in 1..(m + 1), NEW l \in 1..(m + 1), k < l
                 PROVE  bt[k] + 1 + Size(z[k]) <= bt[l]
      BY <1>3
    <3>1. CASE k = m
      <4>1. l = m + 1
        BY <1>2, <3>1
      <4>2. z[k] = n /\ bt[k] = Len(w) + 1 /\ bt[l] = Len(w) + 2 + Size(n)
        <5>1. m \in 1..m
          BY <1>2
        <5> QED
          BY <1>3, <1>5, <1>6, <3>1, <4>1, <5>1
      <4> QED
        BY <1>2, <1>7, <4>2
    <3>2. CASE k # m /\ l # m + 1
      <4>1. k \in 1..Len(s) /\ k \in 1..m /\ l \in 1..m
        BY <1>2, <3>2
      <4>2. at[k] + 1 + Size(s[k]) <= at[l]
        BY <1>1, <4>1 DEF Laid
      <4> QED
        BY <1>3, <1>6, <4>1, <4>2
    <3>3. CASE k # m /\ l = m + 1
      <4>1. k \in 1..Len(s) /\ k \in 1..m
        BY <1>2, <3>3
      <4>2. bt[k] + 1 + Size(z[k]) <= Len(w) + 1
        BY <1>3, <1>5, <1>6, <1>9, <4>1
      <4>3. bt[k] \in Int /\ Size(z[k]) \in Int
        BY <1>3, <1>6, <1>7, <4>1
      <4>4. bt[l] = Len(w) + 2 + Size(n) /\ Size(n) >= 0
        BY <1>6, <1>7, <3>3
      <4> QED
        BY <1>2, <1>7, <4>2, <4>3, <4>4
    <3> QED
      BY <3>1, <3>2, <3>3
  <2>3. \A k \in 1..Len(z) :
          bt[k] \in 1..Len(v) => v[bt[k]] = [head |-> TRUE, n |-> z[k]]
    <3> SUFFICES ASSUME NEW k \in 1..m, bt[k] \in 1..Len(v)
                 PROVE  v[bt[k]] = [head |-> TRUE, n |-> z[k]]
      BY <1>3
    <3>1. CASE k = m
      BY <1>2, <1>3, <1>4, <1>5, <1>6, <3>1
    <3>2. CASE k # m
      <4>1. k \in 1..Len(s) /\ bt[k] = at[k] /\ at[k] \in Int
        BY <1>2, <1>6, <3>2
      <4>2. at[k] \in 1..Len(w)
        BY <1>2, <1>4, <1>5, <1>10, <4>1
      <4>3. w[at[k]] = [head |-> TRUE, n |-> s[k]]
        BY <1>1, <4>1, <4>2 DEF Laid
      <4> QED
        BY <1>3, <1>4, <4>1, <4>2, <4>3
    <3> QED
      BY <3>1, <3>2
  <2>4. \A k \in 1..Len(z) : \A i \in 1..Size(z[k]) :
          bt[k] + i \in 1..Len(v) => v[bt[k] + i] = [head |-> FALSE, n |-> k]
    <3> SUFFICES ASSUME NEW k \in 1..m, NEW i \in 1..Size(z[k]), bt[k] + i \in 1..Len(v)
                 PROVE  v[bt[k] + i] = [head |-> FALSE, n |-> k]
      BY <1>3
    <3>1. CASE k = m
      <4>1. bt[k] + i > Len(w) + 1
        BY <1>2, <1>3, <1>5, <1>6, <1>7, <3>1
      <4> QED
        BY <1>2, <1>4, <4>1
    <3>2. CASE k # m
      <4>1. k \in 1..Len(s) /\ bt[k] = at[k] /\ at[k] \in Int /\ i \in 1..Size(s[k])
        BY <1>2, <1>3, <1>6, <3>2
      <4>2. i \in Int
        BY <1>7, <4>1
      <4>3. at[k] + i \in 1..Len(w)
        BY <1>2, <1>4, <1>5, <1>10, <4>1, <4>2
      <4>4. w[at[k] + i] = [head |-> FALSE, n |-> k]
        BY <1>1, <4>1, <4>3 DEF Laid
      <4> QED
        BY <1>4, <4>1, <4>3, <4>4
    <3> QED
      BY <3>1, <3>2
  <2> QED
    BY <2>1, <2>2, <2>3, <2>4 DEF Laid
<1>12. Reads(z, g, r, b, bt)
  <2>1. Len(g) <= Len(s)
    BY <1>1 DEF Reads
  <2>2. Len(g) + 1 \in 1..m
    BY <1>2, <2>1
  <2>3. bt[Len(g) + 1] = at[Len(g) + 1]
    BY <1>6, <2>2
  <2>4. Len(g) < Len(s) => z[Len(g) + 1] = s[Len(g) + 1]
    BY <1>2, <1>3
  <2>5. Len(g) <= Len(z) /\ (Len(g) < Len(s) => Len(g) < Len(z))
    BY <1>2, <1>3, <2>1
  <2> QED
    BY <1>1, <2>3, <2>4, <2>5 DEF Reads
<1>13. Ends(z, v, Size(n), FALSE, bt)
  BY <1>2, <1>3, <1>4, <1>6, <1>7 DEF Ends
<1>14. Flow(z, v, Size(n), FALSE, g, r, b)
  BY <1>8, <1>11, <1>12, <1>13 DEF Flow
<1> QED
  BY <1>14 DEF z, v

(* A peer that goes on with its last frame.                                *)
LEMMA GoOnFlow ==
  ASSUME NEW s \in Seq(Lengths), NEW w \in Seq(Unit), NEW o \in Nat, o > 0, NEW g,
         NEW r, NEW b, Flow(s, w, o, FALSE, g, r, b),
         NEW u, u = [head |-> FALSE, n |-> Len(s)], u \in Unit
  PROVE  Flow(s, Append(w, u), o - 1, FALSE, g, r, b)
<1>1. PICK at \in Places(s) :
        Laid(s, w, at) /\ Reads(s, g, r, b, at) /\ Ends(s, w, o, FALSE, at)
  BY DEF Flow
<1> DEFINE m == Len(s)
           v == Append(w, u)
<1>2. m \in Nat /\ Len(w) \in Nat
  OBVIOUS
<1>3. /\ Len(v) = Len(w) + 1 /\ v[Len(w) + 1] = u /\ \A i \in 1..Len(w) : v[i] = w[i]
  BY AppendProperties
<1>4. m \in 1..m /\ o <= Size(s[m]) /\ at[m + 1] = Len(w) + 1 + o
  BY <1>1, <1>2 DEF Ends
<1>5. \A k \in 1..m : at[k] \in Int /\ Size(s[k]) \in Int /\ Size(s[k]) >= 0
  <2> SUFFICES ASSUME NEW k \in 1..m
               PROVE  at[k] \in Int /\ Size(s[k]) \in Int /\ Size(s[k]) >= 0
    OBVIOUS
  <2>1. Lengths \subseteq Int
    BY ServerAssumption
  <2>2. s[k] \in Int
    BY <2>1, ElementOfSeq
  <2>3. Size(s[k]) \in 0..body_max_length
    BY <2>2, SizeRange
  <2>4. at[k] \in Int
    BY <1>2 DEF Places
  <2> QED
    BY <2>3, <2>4
<1>6. at[m] <= Len(w)
  <2>1. at[m + 1] = at[m] + 1 + Size(s[m])
    BY <1>1, <1>4 DEF Laid
  <2>2. at[m] \in Int /\ Size(s[m]) \in Int
    BY <1>4, <1>5
  <2> QED
    BY <1>2, <1>4, <2>1, <2>2
<1>7. \A k \in 1..m : at[k] <= Len(w)
  <2> SUFFICES ASSUME NEW k \in 1..m, k # m PROVE at[k] <= Len(w)
    BY <1>6
  <2>1. at[k] + 1 + Size(s[k]) <= at[m]
    BY <1>1, <1>2 DEF Laid
  <2>2. at[k] \in Int /\ at[m] \in Int /\ Size(s[k]) \in Int /\ Size(s[k]) >= 0
    BY <1>4, <1>5
  <2> QED
    BY <1>2, <1>6, <2>1, <2>2
<1>8. ASSUME NEW k \in 1..m, NEW i \in 1..Size(s[k]), at[k] + i = Len(w) + 1
      PROVE  k = m
  <2> SUFFICES ASSUME k # m PROVE FALSE
    OBVIOUS
  <2>1. at[k] + 1 + Size(s[k]) <= at[m]
    BY <1>1, <1>2 DEF Laid
  <2>2. at[k] \in Int /\ at[m] \in Int /\ Size(s[k]) \in Int
    BY <1>4, <1>5
  <2> QED
    BY <1>2, <1>6, <1>8, <2>1, <2>2
<1> HIDE DEF v
<1>9. Laid(s, v, at)
  <2>1. \A k \in 1..m :
          at[k] \in 1..Len(v) => v[at[k]] = [head |-> TRUE, n |-> s[k]]
    <3> SUFFICES ASSUME NEW k \in 1..m, at[k] \in 1..Len(v)
                 PROVE  v[at[k]] = [head |-> TRUE, n |-> s[k]]
      OBVIOUS
    <3>1. at[k] \in 1..Len(w)
      BY <1>2, <1>7
    <3>2. w[at[k]] = [head |-> TRUE, n |-> s[k]]
      BY <1>1, <3>1 DEF Laid
    <3> QED
      BY <1>3, <3>1, <3>2
  <2>2. \A k \in 1..m : \A i \in 1..Size(s[k]) :
          at[k] + i \in 1..Len(v) => v[at[k] + i] = [head |-> FALSE, n |-> k]
    <3> SUFFICES ASSUME NEW k \in 1..m, NEW i \in 1..Size(s[k]), at[k] + i \in 1..Len(v)
                 PROVE  v[at[k] + i] = [head |-> FALSE, n |-> k]
      OBVIOUS
    <3>1. CASE at[k] + i = Len(w) + 1
      BY <1>3, <1>8, <3>1
    <3>2. CASE at[k] + i # Len(w) + 1
      <4>1. at[k] + i \in 1..Len(w)
        BY <1>2, <1>3, <3>2
      <4>2. w[at[k] + i] = [head |-> FALSE, n |-> k]
        BY <1>1, <4>1 DEF Laid
      <4> QED
        BY <1>3, <4>1, <4>2
    <3> QED
      BY <3>1, <3>2
  <2> QED
    BY <1>1, <2>1, <2>2 DEF Laid
<1>10. Ends(s, v, o - 1, FALSE, at)
  <2>1. o - 1 > 0 => Len(s) > 0 /\ o - 1 <= Size(s[Len(s)])
    BY <1>2, <1>4, <1>5
  <2>2. at[Len(s) + 1] = Len(v) + 1 + (o - 1) /\ at[Len(s) + 1] > Len(v)
    BY <1>2, <1>3, <1>4
  <2> QED
    BY <2>1, <2>2 DEF Ends
<1>11. Flow(s, v, o - 1, FALSE, g, r, b)
  BY <1>1, <1>9, <1>10 DEF Flow
<1> QED
  BY <1>11 DEF v

(* A peer that leaves, with or without a reset.                            *)
LEMMA LeaveFlow ==
  ASSUME NEW s \in Seq(Lengths), NEW w \in Seq(Unit), NEW o, NEW lf, NEW g, NEW r, NEW b,
         Flow(s, w, o, lf, g, r, b), NEW v \in {w, <<>>}
  PROVE  Flow(s, v, o, TRUE, g, r, b)
<1>1. PICK at \in Places(s) :
        Laid(s, w, at) /\ Reads(s, g, r, b, at) /\ Ends(s, w, o, lf, at)
  BY DEF Flow
<1>2. Laid(s, v, at)
  <2>1. CASE v = w
    BY <1>1, <2>1
  <2>2. CASE v = <<>>
    <3>1. 1..Len(v) = {}
      BY <2>2
    <3> QED
      BY <1>1, <3>1 DEF Laid
  <2> QED
    BY <2>1, <2>2
<1>3. at[Len(s) + 1] \in Int /\ Len(v) <= Len(w) /\ Len(v) \in Nat /\ Len(w) \in Nat
  BY DEF Places
<1>4. Ends(s, v, o, TRUE, at)
  BY <1>1, <1>3 DEF Ends
<1> QED
  BY <1>1, <1>2, <1>4 DEF Flow

-----------------------------------------------------------------------------
(* A connection no step touches.                                           *)
LEMMA SameFlow ==
  ASSUME NEW d \in Conns, FlowOf(d), BodiesOf(d),
         stage'[d] = "closed" \/ stage[d] # "closed",
         sent'[d] = sent[d], wire'[d] = wire[d], owed'[d] = owed[d], left'[d] = left[d],
         got'[d] = got[d], reading'[d] = reading[d], body_length'[d] = body_length[d]
  PROVE  FlowOf(d)' /\ BodiesOf(d)'
  BY DEF FlowOf, BodiesOf

LEMMA ErrorStream ==
  ASSUME TypeOK, Stream, NEW c \in Conns, HandleError(c)
  PROVE  Stream'
<1> SUFFICES ASSUME NEW d \in Conns PROVE FlowOf(d)' /\ BodiesOf(d)'
  BY DEF Stream
<1>1. CASE d = c
  BY <1>1 DEF HandleError, TypeOK, Stream, FlowOf, BodiesOf, peer
<1>2. CASE d # c
  <2>1. /\ stage'[d] = stage[d] /\ wire'[d] = wire[d] /\ reading'[d] = reading[d]
        /\ sent' = sent /\ owed' = owed /\ left' = left /\ got' = got
        /\ body_length' = body_length
    BY <1>2 DEF HandleError, TypeOK, peer
  <2> QED
    BY <2>1, SameFlow DEF Stream
<1> QED
  BY <1>1, <1>2

LEMMA CallbackStream ==
  ASSUME IInv, Stream, NEW c \in Conns, Callback(c)
  PROVE  Stream'
<1> SUFFICES ASSUME ~HandleError(c), NEW d \in Conns PROVE FlowOf(d)' /\ BodiesOf(d)'
  BY ErrorStream DEF IInv, Stream
<1>1. /\ FlowOf(d) /\ BodiesOf(d) /\ TypeOK
      /\ sent[d] \in Seq(Lengths) /\ wire[d] \in Seq(Unit) /\ owed[d] \in Nat
      /\ left[d] \in BOOLEAN /\ got[d] \in Seq(Seq(Unit)) /\ Len(got[d]) \in Nat
      /\ body_length[d] \in 0..body_max_length
  BY DEF IInv, TypeOK, Stream
<1>2. CASE OnAccept(c)
  <2>1. /\ sent' = sent /\ wire' = wire /\ owed' = owed /\ left' = left /\ got' = got
        /\ body_length' = body_length
        /\ stage' = [stage EXCEPT ![c] = "live"] /\ stage[c] = "backlog"
        /\ reading' = [reading EXCEPT ![c] = "header"]
    BY <1>2 DEF OnAccept, peer
  <2>2. CASE d = c
    <3>1. reading[d] = "none" /\ reading'[d] = "header" /\ stage[d] # "closed"
      BY <1>1, <2>1, <2>2 DEF IInv, OneEntry, TypeOK
    <3>2. Flow(sent[d], wire[d], owed[d], left[d], got[d], reading'[d], body_length[d])
      BY <1>1, <3>1 DEF FlowOf, Flow, Reads
    <3> QED
      BY <1>1, <2>1, <3>2 DEF FlowOf, BodiesOf
  <2>3. CASE d # c
    <3>1. stage'[d] = stage[d] /\ reading'[d] = reading[d]
      BY <1>1, <2>1, <2>3 DEF TypeOK
    <3> QED
      BY <1>1, <2>1, <3>1, SameFlow
  <2> QED
    BY <2>2, <2>3
<1>3. CASE OnHeader(c)
  <2>1. /\ wire[c] # <<>> /\ BodyLength(Head(wire[c])) <= body_max_length
        /\ body_length' = [body_length EXCEPT ![c] = BodyLength(Head(wire[c]))]
        /\ wire' = [wire EXCEPT ![c] = Tail(@)]
        /\ reading' = [reading EXCEPT ![c] = "body"] /\ reading[c] = "header"
        /\ sent' = sent /\ owed' = owed /\ left' = left /\ got' = got /\ stage' = stage
    BY <1>3 DEF OnHeader, peer
  <2>2. CASE d = c
    <3>1. reading[d] # "body" /\ stage[d] # "closed"
      BY <1>1, <2>1, <2>2 DEF IInv, OneEntry, TypeOK
    <3>2. Flow(sent[d], wire[d], owed[d], left[d], got[d], reading[d], body_length[d])
      BY <1>1, <3>1 DEF FlowOf
    <3>3. Flow(sent[d], Tail(wire[d]), owed[d], left[d], got[d], "body",
               BodyLength(Head(wire[d])))
      BY <1>1, <2>1, <2>2, <3>1, <3>2, HeaderFlow
    <3>4. /\ wire'[d] = Tail(wire[d]) /\ reading'[d] = "body"
          /\ body_length'[d] = BodyLength(Head(wire[d]))
      BY <1>1, <2>1, <2>2 DEF TypeOK
    <3> QED
      BY <1>1, <2>1, <3>3, <3>4 DEF FlowOf, BodiesOf
  <2>3. CASE d # c
    <3>1. wire'[d] = wire[d] /\ reading'[d] = reading[d] /\ body_length'[d] = body_length[d]
      BY <1>1, <2>1, <2>3 DEF TypeOK
    <3> QED
      BY <1>1, <2>1, <3>1, SameFlow
  <2> QED
    BY <2>2, <2>3
<1>4. CASE OnBody(c)
  <2>1. /\ Len(wire[c]) >= body_length[c] /\ reading[c] = "body"
        /\ got' = [got EXCEPT ![c] = Append(@, SubSeq(wire[c], 1, body_length[c]))]
        /\ wire' = [wire EXCEPT ![c] = SubSeq(@, body_length[c] + 1, Len(@))]
        /\ reading' = [reading EXCEPT ![c] = "header"]
        /\ sent' = sent /\ owed' = owed /\ left' = left /\ stage' = stage
        /\ body_length' = body_length
    BY <1>4 DEF OnBody, peer
  <2>2. CASE d = c
    <3>1. stage[d] # "closed"
      BY <1>1, <2>1, <2>2 DEF IInv, OneEntry, TypeOK
    <3>2. Flow(sent[d], wire[d], owed[d], left[d], got[d], "body", body_length[d])
      BY <1>1, <2>1, <2>2, <3>1 DEF FlowOf
    <3> DEFINE body == SubSeq(wire[d], 1, body_length[d])
               v == SubSeq(wire[d], body_length[d] + 1, Len(wire[d]))
    <3>3. /\ Flow(sent[d], v, owed[d], left[d], Append(got[d], body), "header",
                  body_length[d])
          /\ Bodies(sent[d], Append(got[d], body))
      BY <1>1, <2>1, <2>2, <3>2, BodyFlow DEF BodiesOf
    <3>4. wire'[d] = v /\ got'[d] = Append(got[d], body) /\ reading'[d] = "header"
      BY <1>1, <2>1, <2>2 DEF TypeOK
    <3> HIDE DEF body, v
    <3> QED
      BY <2>1, <3>3, <3>4 DEF FlowOf, BodiesOf
  <2>3. CASE d # c
    <3>1. wire'[d] = wire[d] /\ reading'[d] = reading[d] /\ got'[d] = got[d]
      BY <1>1, <2>1, <2>3 DEF TypeOK
    <3> QED
      BY <1>1, <2>1, <3>1, SameFlow
  <2> QED
    BY <2>2, <2>3
<1> QED
  BY <1>2, <1>3, <1>4 DEF Callback

(* What the peers do.                                                      *)
LEMMA PeerStream ==
  ASSUME IInv, Stream, NEW c \in Conns, Peer(c)
  PROVE  Stream'
<1> SUFFICES ASSUME NEW d \in Conns PROVE FlowOf(d)' /\ BodiesOf(d)'
  BY DEF Stream
<1>1. /\ FlowOf(d) /\ BodiesOf(d) /\ TypeOK
      /\ sent[d] \in Seq(Lengths) /\ wire[d] \in Seq(Unit) /\ owed[d] \in Nat
      /\ left[d] \in BOOLEAN /\ got[d] \in Seq(Seq(Unit)) /\ Len(got[d]) \in Nat
  <2>1. FlowOf(d) /\ BodiesOf(d) /\ TypeOK
    BY DEF IInv, Stream
  <2>2. owed[d] \in 0..body_max_length
    BY <2>1 DEF TypeOK
  <2>3. /\ sent[d] \in Seq(Lengths) /\ wire[d] \in Seq(Unit) /\ left[d] \in BOOLEAN
        /\ got[d] \in Seq(Seq(Unit))
    BY <2>1 DEF TypeOK
  <2> QED
    BY <2>1, <2>2, <2>3, LenProperties
<1>2. CASE Connect(c)
  <2>1. /\ sent' = sent /\ wire' = wire /\ owed' = owed /\ left' = left /\ got' = got
        /\ body_length' = body_length /\ reading' = reading
        /\ stage' = [stage EXCEPT ![c] = "backlog"] /\ stage[c] = "none"
    BY <1>2 DEF Connect, peer
  <2>2. stage'[d] = "closed" \/ stage[d] # "closed"
    BY <1>1, <2>1 DEF TypeOK
  <2> QED
    BY <1>1, <2>1, <2>2, SameFlow
<1>3. CASE SendHeader(c)
  <2>1. PICK n \in Lengths :
          /\ wire' = [wire EXCEPT ![c] = Append(@, [head |-> TRUE, n |-> n])]
          /\ owed' = [owed EXCEPT ![c] = IF n \in HEAD_LEN..(HEAD_LEN + body_max_length)
                                         THEN n - HEAD_LEN ELSE 0]
          /\ sent' = [sent EXCEPT ![c] = Append(@, n)]
    BY <1>3 DEF SendHeader
  <2>2. /\ left' = left /\ got' = got /\ stage' = stage /\ reading' = reading
        /\ body_length' = body_length
        /\ owed[c] = 0 /\ ~left[c] /\ stage[c] \in {"backlog", "live"}
    BY <1>3 DEF SendHeader, Talks, handler
  <2>3. CASE d = c
    <3> DEFINE u == [head |-> TRUE, n |-> n]
    <3>1. u \in Unit
      BY DEF Unit
    <3>2. Flow(sent[d], wire[d], 0, FALSE, got[d], reading[d], body_length[d])
      BY <1>1, <2>2, <2>3 DEF FlowOf
    <3>3. Flow(Append(sent[d], n), Append(wire[d], u), Size(n), FALSE, got[d], reading[d],
               body_length[d])
      BY <1>1, <3>1, <3>2, BeginFlow
    <3>4. /\ wire'[d] = Append(wire[d], u) /\ sent'[d] = Append(sent[d], n)
          /\ owed'[d] = Size(n) /\ left'[d] = FALSE
      BY <1>1, <2>1, <2>2, <2>3 DEF TypeOK, Size
    <3>5. FlowOf(d)'
      <4> HIDE DEF u
      <4> QED
        BY <2>2, <3>3, <3>4 DEF FlowOf
    <3>6. BodiesOf(d)'
      <4>1. /\ \A k \in DOMAIN sent[d] : k \in DOMAIN sent'[d] /\ sent'[d][k] = sent[d][k]
        BY <1>1, <3>4, AppendProperties
      <4> QED
        BY <1>1, <2>2, <4>1 DEF BodiesOf, Bodies
    <3> QED
      BY <3>5, <3>6
  <2>4. CASE d # c
    <3>1. wire'[d] = wire[d] /\ owed'[d] = owed[d] /\ sent'[d] = sent[d]
      BY <1>1, <2>1, <2>4 DEF TypeOK
    <3> QED
      BY <1>1, <2>2, <3>1, SameFlow
  <2> QED
    BY <2>3, <2>4
<1>4. CASE SendBody(c)
  <2>1. /\ wire' = [wire EXCEPT ![c] = Append(@, [head |-> FALSE, n |-> Len(sent[c])])]
        /\ owed' = [owed EXCEPT ![c] = @ - 1]
        /\ left' = left /\ got' = got /\ stage' = stage /\ reading' = reading
        /\ body_length' = body_length /\ sent' = sent
        /\ owed[c] > 0 /\ ~left[c] /\ stage[c] \in {"backlog", "live"}
    BY <1>4 DEF SendBody, Talks, handler
  <2>2. CASE d = c
    <3> DEFINE u == [head |-> FALSE, n |-> Len(sent[d])]
    <3>1. u \in Unit
      <4>1. Len(sent[d]) \in Nat
        BY <1>1
      <4> QED
        BY <4>1 DEF Unit
    <3>2. Flow(sent[d], wire[d], owed[d], FALSE, got[d], reading[d], body_length[d])
      BY <1>1, <2>1, <2>2 DEF FlowOf
    <3>3. owed[d] > 0
      BY <2>1, <2>2
    <3>4. Flow(sent[d], Append(wire[d], u), owed[d] - 1, FALSE, got[d], reading[d],
               body_length[d])
      BY <1>1, <3>1, <3>2, <3>3, GoOnFlow
    <3>5. wire'[d] = Append(wire[d], u) /\ owed'[d] = owed[d] - 1 /\ left'[d] = FALSE
      BY <1>1, <2>1, <2>2 DEF TypeOK
    <3> HIDE DEF u
    <3> QED
      BY <1>1, <2>1, <3>4, <3>5 DEF FlowOf, BodiesOf
  <2>3. CASE d # c
    <3>1. wire'[d] = wire[d] /\ owed'[d] = owed[d]
      BY <1>1, <2>1, <2>3 DEF TypeOK
    <3> QED
      BY <1>1, <2>1, <3>1, SameFlow
  <2> QED
    BY <2>2, <2>3
<1>5. CASE Leave(c)
  <2>1. /\ left' = [left EXCEPT ![c] = TRUE]
        /\ wire' \in {wire, [wire EXCEPT ![c] = <<>>]}
        /\ got' = got /\ stage' = stage /\ reading' = reading /\ owed' = owed
        /\ body_length' = body_length /\ sent' = sent
    BY <1>5 DEF Leave, handler
  <2>2. CASE d = c
    <3>1. wire'[d] \in {wire[d], <<>>} /\ left'[d] = TRUE
      BY <1>1, <2>1, <2>2 DEF TypeOK
    <3>2. ASSUME stage[d] # "closed"
          PROVE  Flow(sent[d], wire'[d], owed[d], TRUE, got[d], reading[d], body_length[d])
      <4>1. Flow(sent[d], wire[d], owed[d], left[d], got[d], reading[d], body_length[d])
        BY <1>1, <3>2 DEF FlowOf
      <4>2. ASSUME NEW v \in {wire[d], <<>>}
            PROVE  Flow(sent[d], v, owed[d], TRUE, got[d], reading[d], body_length[d])
        BY <1>1, <4>1, LeaveFlow
      <4> QED
        BY <3>1, <4>2
    <3> QED
      BY <1>1, <2>1, <3>1, <3>2 DEF FlowOf, BodiesOf
  <2>3. CASE d # c
    <3>1. wire'[d] = wire[d] /\ left'[d] = left[d]
      BY <1>1, <2>1, <2>3 DEF TypeOK
    <3> QED
      BY <1>1, <2>1, <3>1, SameFlow
  <2> QED
    BY <2>2, <2>3
<1> QED
  BY <1>2, <1>3, <1>4, <1>5 DEF Peer

LEMMA InitStream == Init => Stream
<1> SUFFICES ASSUME Init, NEW c \in Conns PROVE FlowOf(c) /\ BodiesOf(c)
  BY DEF Stream
<1>1. /\ sent[c] = <<>> /\ wire[c] = <<>> /\ got[c] = <<>> /\ owed[c] = 0
      /\ left[c] = FALSE /\ reading[c] = "none" /\ body_length[c] = 0
  BY DEF Init
<1> DEFINE at == [k \in 1..1 |-> 1]
<1>2. Len(<<>>) = 0
  OBVIOUS
<1>3. at \in Places(<<>>) /\ at[1] = 1
  BY <1>2 DEF Places
<1>4. Laid(<<>>, <<>>, at)
  BY <1>2 DEF Laid
<1>5. Reads(<<>>, <<>>, "none", 0, at) /\ Ends(<<>>, <<>>, 0, FALSE, at)
  BY <1>2, <1>3 DEF Reads, Ends
<1>6. Flow(<<>>, <<>>, 0, FALSE, <<>>, "none", 0)
  BY <1>3, <1>4, <1>5 DEF Flow
<1>7. Bodies(<<>>, <<>>)
  BY DEF Bodies
<1> QED
  BY <1>1, <1>6, <1>7 DEF FlowOf, BodiesOf

LEMMA NextStream == IInv /\ Stream /\ [Next]_vars => Stream'
<1> SUFFICES ASSUME IInv, Stream, [Next]_vars PROVE Stream'
  OBVIOUS
<1>1. ASSUME NEW c \in Conns, Callback(c) \/ Peer(c) PROVE Stream'
  BY <1>1, CallbackStream, PeerStream
<1>2. CASE OnAcceptError \/ UNCHANGED vars
  <2>1. /\ stage' = stage /\ sent' = sent /\ wire' = wire /\ owed' = owed /\ left' = left
        /\ got' = got /\ reading' = reading /\ body_length' = body_length
    BY <1>2 DEF OnAcceptError, vars, handler, peer
  <2>2. ASSUME NEW d \in Conns PROVE FlowOf(d)' /\ BodiesOf(d)'
    BY <2>1, SameFlow DEF Stream
  <2> QED
    BY <2>2 DEF Stream
<1> QED
  BY <1>1, <1>2 DEF Next

(* However the units of a frame come in, and wherever a peer stops, leaves *)
(* or is reset, the bodies a handler has are those of the frames its peer  *)
(* began, from the first on, each whole: a wrong header ends the           *)
(* connection before anything after it is taken for a frame.               *)
THEOREM FramesComeInOrder == Spec => []FramesInOrder
<1>1. Stream => FramesInOrder
  BY DEF Stream, BodiesOf, Bodies, FramesInOrder
<1> QED
  BY <1>1, InitStream, NextStream, Inductive, PTL DEF Spec
=============================================================================
