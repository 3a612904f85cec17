----------------------------- MODULE ConnServer -----------------------------
(***************************************************************************)
(* The asio server of InDepthCpp11 (server.h, rwhandler.h, message.h): one *)
(* thread runs the callbacks of accepts and reads.  An accepted connection *)
(* gets a handler, kept alive by m_handlers under an id from the list      *)
(* m_connIDs; the handler reads frames, a header with the total length and *)
(* then the body, and on the first error gives its id back.                *)
(*                                                                         *)
(* Peers connect, send, stop in the middle of a frame, leave and reset     *)
(* their connections as they like.  A connection and its handler have the  *)
(* same name.  What is on the wire is counted in units: a header is one,   *)
(* and each part of a body one that carries its frame's number.            *)
(***************************************************************************)
EXTENDS Integers, Sequences, SequencesExt

CONSTANTS Conns, Nobody,
          MAX_CONN_NUM,
          Lengths,     \* lengths a header may announce
          HEAD_LEN, body_max_length,
          Word,        \* values of std::size_t
          MaxFrames    \* bound: frames the peers begin

ASSUME ServerAssumption ==
  /\ Nobody \notin Conns
  /\ MAX_CONN_NUM \in Nat \ {0} /\ HEAD_LEN \in Nat /\ body_max_length \in Nat
  /\ Lengths \subseteq Int /\ MaxFrames \in Nat
  /\ Word \in Nat /\ Word > HEAD_LEN + body_max_length
  /\ \A n \in Lengths : Word > n /\ Word + n > HEAD_LEN + body_max_length

Ids == 1..MAX_CONN_NUM

VARIABLES
  m_connIDs,    \* free ids, in order
  pending,      \* id of the handler the acceptor waits with, 0 for none
  m_handlers,   \* per id its connection
  stage,        \* per connection: "none", "backlog", "live", "closed" by the server
  connID,       \* RWHandler::m_connID
  reading,      \* read under way: "none", "header", "body"
  body_length,  \* Message::body_length
  running,      \* io_service not stopped
  overrun,      \* front() and pop_front() on an empty list: undefined from here
  left,         \* the peer has closed its end
  wire,         \* units sent and not read
  owed,         \* units the peer has still to send of its frame
  sent, got     \* history: lengths announced, bodies received

pool == <<m_connIDs, pending, m_handlers>>
handler == <<stage, connID, reading, body_length>>
peer == <<left, owed, sent>>
vars == <<pool, handler, running, overrun, peer, wire, got>>

Init ==
  /\ pending = 1 /\ m_connIDs = [i \in 1..(MAX_CONN_NUM - 1) |-> i + 1]
  /\ m_handlers = [i \in Ids |-> Nobody]
  /\ stage = [c \in Conns |-> "none"] /\ connID = [c \in Conns |-> 0]
  /\ reading = [c \in Conns |-> "none"] /\ body_length = [c \in Conns |-> 0]
  /\ running = TRUE /\ overrun = FALSE
  /\ left = [c \in Conns |-> FALSE] /\ wire = [c \in Conns |-> <<>>]
  /\ owed = [c \in Conns |-> 0]
  /\ sent = [c \in Conns |-> <<>>] /\ got = [c \in Conns |-> <<>>]

Runs == running /\ ~overrun

-----------------------------------------------------------------------------
(* Accept() and its callback.                                              *)

(* createHandler for the next connection: it takes the first free id.      *)
CreateHandler ==
  \/ /\ m_connIDs # <<>>
     /\ pending' = Head(m_connIDs) /\ m_connIDs' = Tail(m_connIDs)
     /\ UNCHANGED overrun
  \/ /\ m_connIDs = <<>>
     /\ overrun' = TRUE /\ pending' = 0
     /\ UNCHANGED m_connIDs

(* insert leaves an id that is in use as it is; then the first read of a   *)
(* header starts, and the next accept.                                     *)
OnAccept(c) ==
  /\ Runs /\ pending # 0 /\ stage[c] = "backlog"
  /\ m_handlers' = IF m_handlers[pending] = Nobody THEN [m_handlers EXCEPT ![pending] = c]
                   ELSE m_handlers
  /\ connID' = [connID EXCEPT ![c] = pending]
  /\ stage' = [stage EXCEPT ![c] = "live"]
  /\ reading' = [reading EXCEPT ![c] = "header"]
  /\ CreateHandler
  /\ UNCHANGED <<body_length, running, peer, wire, got>>

(* handleAcpError: the acceptor closes and the io_service stops, with all  *)
(* connections as they are.                                                *)
OnAcceptError ==
  /\ Runs /\ pending # 0
  /\ running' = FALSE /\ pending' = 0
  /\ UNCHANGED <<m_connIDs, m_handlers, handler, overrun, peer, wire, got>>

-----------------------------------------------------------------------------
(* HandleRead(), ReadBody() and their callbacks.                           *)

(* mutant: the id is back in the list and its handler still in the map.    *)
BugHandleError(c) ==
  /\ m_connIDs' = Append(m_connIDs, connID[c])
  /\ stage' = [stage EXCEPT ![c] = "closed"]
  /\ reading' = [reading EXCEPT ![c] = "none"]
  /\ wire' = [wire EXCEPT ![c] = <<>>]
  /\ UNCHANGED <<pending, m_handlers, connID, body_length, running, overrun, peer, got>>

(* HandleError and recyclConnID: the socket closes, the map lets go of the *)
(* handler and the id goes to the end of the list.                         *)
HandleError(c) ==
  /\ m_handlers' = [m_handlers EXCEPT ![connID[c]] = Nobody]
  /\ m_connIDs' = Append(m_connIDs, connID[c])
  /\ stage' = [stage EXCEPT ![c] = "closed"]
  /\ reading' = [reading EXCEPT ![c] = "none"]
  /\ wire' = [wire EXCEPT ![c] = <<>>]
  /\ UNCHANGED <<pending, connID, body_length, running, overrun, peer, got>>

(* DecodeHeader: what is left of the announced length, as a std::size_t;   *)
(* atoi makes 0 of bytes that are no number.                               *)
BodyLength(unit) == IF unit.head THEN (unit.n - HEAD_LEN) % Word ELSE Word - HEAD_LEN

(* mutant: any length is accepted.                                         *)
BugOnHeader(c) ==
  /\ Runs /\ reading[c] = "header"
  /\ \/ /\ wire[c] # <<>>
        /\ body_length' = [body_length EXCEPT ![c] = BodyLength(Head(wire[c]))]
        /\ wire' = [wire EXCEPT ![c] = Tail(@)]
        /\ reading' = [reading EXCEPT ![c] = "body"]
        /\ UNCHANGED <<pool, stage, connID, running, overrun, peer, got>>
     \/ wire[c] = <<>> /\ left[c] /\ HandleError(c)

(* A header has arrived, or the connection has ended before one did.       *)
OnHeader(c) ==
  /\ Runs /\ reading[c] = "header"
  /\ \/ /\ wire[c] # <<>> /\ BodyLength(Head(wire[c])) <= body_max_length
        /\ body_length' = [body_length EXCEPT ![c] = BodyLength(Head(wire[c]))]
        /\ wire' = [wire EXCEPT ![c] = Tail(@)]
        /\ reading' = [reading EXCEPT ![c] = "body"]
        /\ UNCHANGED <<pool, stage, connID, running, overrun, peer, got>>
     \/ wire[c] # <<>> /\ BodyLength(Head(wire[c])) > body_max_length /\ HandleError(c)
     \/ wire[c] = <<>> /\ left[c] /\ HandleError(c)

(* mutant: an error in the middle of a frame is only returned from.        *)
BugOnBody(c) ==
  /\ Runs /\ reading[c] = "body"
  /\ Len(wire[c]) >= body_length[c]
  /\ got' = [got EXCEPT ![c] = Append(@, SubSeq(wire[c], 1, body_length[c]))]
  /\ wire' = [wire EXCEPT ![c] = SubSeq(@, body_length[c] + 1, Len(@))]
  /\ reading' = [reading EXCEPT ![c] = "header"]
  /\ UNCHANGED <<pool, stage, connID, body_length, running, overrun, peer>>

(* mutant: what has arrived so far is taken for the body.                  *)
BugReadSome(c) ==
  /\ Runs /\ reading[c] = "body"
  /\ \/ /\ wire[c] # <<>> \/ body_length[c] = 0
        /\ got' = [got EXCEPT ![c] = Append(@, wire[c])]
        /\ wire' = [wire EXCEPT ![c] = <<>>]
        /\ reading' = [reading EXCEPT ![c] = "header"]
        /\ UNCHANGED <<pool, stage, connID, body_length, running, overrun, peer>>
     \/ Len(wire[c]) < body_length[c] /\ left[c] /\ HandleError(c)

(* The whole body has arrived, which starts the next header, or it never   *)
(* will.                                                                   *)
OnBody(c) ==
  /\ Runs /\ reading[c] = "body"
  /\ \/ /\ Len(wire[c]) >= body_length[c]
        /\ got' = [got EXCEPT ![c] = Append(@, SubSeq(wire[c], 1, body_length[c]))]
        /\ wire' = [wire EXCEPT ![c] = SubSeq(@, body_length[c] + 1, Len(@))]
        /\ reading' = [reading EXCEPT ![c] = "header"]
        /\ UNCHANGED <<pool, stage, connID, body_length, running, overrun, peer>>
     \/ Len(wire[c]) < body_length[c] /\ left[c] /\ HandleError(c)

-----------------------------------------------------------------------------
(* The peers.                                                              *)

Connect(c) ==
  /\ running /\ stage[c] = "none"
  /\ stage' = [stage EXCEPT ![c] = "backlog"]
  /\ UNCHANGED <<pool, connID, reading, body_length, running, overrun, peer, wire, got>>

Talks(c) == stage[c] \in {"backlog", "live"} /\ ~left[c]

Frames == FoldFunction(LAMBDA s, n : Len(s) + n, 0, sent)

(* A header, right or wrong, with the body it announces to follow ...      *)
SendHeader(c) ==
  /\ Talks(c) /\ owed[c] = 0 /\ Frames < MaxFrames
  /\ \E n \in Lengths :
       /\ wire' = [wire EXCEPT ![c] = Append(@, [head |-> TRUE, n |-> n])]
       /\ owed' = [owed EXCEPT ![c] = IF n \in HEAD_LEN..(HEAD_LEN + body_max_length)
                                      THEN n - HEAD_LEN ELSE 0]
       /\ sent' = [sent EXCEPT ![c] = Append(@, n)]
  /\ UNCHANGED <<pool, handler, running, overrun, left, got>>

(* ... unit by unit.                                                       *)
SendBody(c) ==
  /\ Talks(c) /\ owed[c] > 0
  /\ wire' = [wire EXCEPT ![c] = Append(@, [head |-> FALSE, n |-> Len(sent[c])])]
  /\ owed' = [owed EXCEPT ![c] = @ - 1]
  /\ UNCHANGED <<pool, handler, running, overrun, left, sent, got>>

(* The peer leaves; what it sent can still be read, or a reset destroys it.*)
Leave(c) ==
  /\ Talks(c)
  /\ left' = [left EXCEPT ![c] = TRUE]
  /\ wire' \in {wire, [wire EXCEPT ![c] = <<>>]}
  /\ UNCHANGED <<pool, handler, running, overrun, owed, sent, got>>

Callback(c) == OnAccept(c) \/ OnHeader(c) \/ OnBody(c)
Peer(c) == Connect(c) \/ SendHeader(c) \/ SendBody(c) \/ Leave(c)

Next == (\E c \in Conns : Callback(c) \/ Peer(c)) \/ OnAcceptError

(* The thread in io_service::run gets round to every callback that is      *)
(* ready.  Nothing makes a peer do anything.                               *)
Fairness == \A c \in Conns : WF_vars(Callback(c))

Spec == Init /\ [][Next]_vars /\ Fairness
-----------------------------------------------------------------------------
(* Properties.                                                             *)

Unit == [head : {TRUE}, n : Lengths] \cup [head : {FALSE}, n : Nat]

(* In particular no read of a body is longer than Message::data.           *)
TypeOK ==
  /\ m_connIDs \in Seq(Ids) /\ pending \in 0..MAX_CONN_NUM
  /\ m_handlers \in [Ids -> Conns \cup {Nobody}]
  /\ stage \in [Conns -> {"none", "backlog", "live", "closed"}]
  /\ connID \in [Conns -> 0..MAX_CONN_NUM]
  /\ reading \in [Conns -> {"none", "header", "body"}]
  /\ body_length \in [Conns -> 0..body_max_length]
  /\ running \in BOOLEAN /\ overrun \in BOOLEAN /\ left \in [Conns -> BOOLEAN]
  /\ wire \in [Conns -> Seq(Unit)] /\ owed \in [Conns -> 0..body_max_length]
  /\ sent \in [Conns -> Seq(Lengths)] /\ got \in [Conns -> Seq(Seq(Unit))]

Used == {i \in Ids : m_handlers[i] # Nobody}

(* However connections come and go, an id is in one place only: free, with *)
(* the acceptor, or with one live connection, whose handler the map keeps  *)
(* alive while it has a read under way (the header's callback holds only   *)
(* this).  None is lost before the io_service stops, so the list runs      *)
(* empty only when all ids are in use by connections.                      *)
IdsAccounted ==
  /\ \A i, j \in DOMAIN m_connIDs : i # j => m_connIDs[i] # m_connIDs[j]
  /\ ToSet(m_connIDs) \cap Used = {} /\ pending \notin ToSet(m_connIDs) \cup Used
  /\ \A c \in Conns :
       /\ stage[c] = "live" <=> reading[c] # "none"
       /\ stage[c] = "live" <=> \E i \in Ids : m_handlers[i] = c
       /\ stage[c] = "live" => m_handlers[connID[c]] = c
  /\ running => Ids = ToSet(m_connIDs) \cup Used \cup ({pending} \ {0})
  /\ overrun => Used = Ids

(* However the bytes arrive, the bodies a handler receives are those its   *)
(* peer sent, whole and in order: after a wrong header nothing is taken    *)
(* for a frame.                                                            *)
FramesInOrder ==
  \A c \in Conns : \A k \in DOMAIN got[c] :
    /\ k \in DOMAIN sent[c]
    /\ got[c][k] = [i \in 1..(sent[c][k] - HEAD_LEN) |-> [head |-> FALSE, n |-> k]]

(* A peer that leaves, even before it was accepted or in the middle of a   *)
(* frame, gives back its handler and its id, unless the server ends.       *)
LeaversAreReleased ==
  \A c \in Conns : left[c] ~> (stage[c] = "closed" \/ ~Runs)
=============================================================================
