--------------------------- MODULE MessageFolder ----------------------------
(***************************************************************************)
(* Message and Folder (CppPrimerExercise/message.cpp): each message keeps  *)
(* a set of pointers to its folders and each folder one of pointers to its *)
(* messages, through every copy, assignment, move, swap and destruction.   *)
(*                                                                         *)
(* An object is its address, which another one may have after it; the two  *)
(* sets of an object that does not exist are empty.  A private helper is a *)
(* function of both sides' sets, and a public operation calls the helpers  *)
(* in the order of the code, with both arguments possibly the same object. *)
(***************************************************************************)
CONSTANTS Messages, Folders, Texts

ASSUME FilingAssumption == Texts # {}

VARIABLES contents,     \* Message::contents
          folders, msgs,  \* Message::folders, Folder::msgs
          liveM, liveF,   \* the objects there are
          op              \* history: which operation was called last, and on what

vars == <<contents, folders, msgs, liveM, liveF, op>>

Init ==
  /\ contents \in [Messages -> Texts]
  /\ folders = [m \in Messages |-> {}] /\ msgs = [f \in Folders |-> {}]
  /\ liveM = {} /\ liveF = {}
  /\ op = [name |-> "none", odd |-> FALSE]

(* A call by its name and objects, told from the call before it by odd: no *)
(* step is a stutter, not even that of an operation that changes nothing.  *)
Did(name, a, b) == op' = [name |-> name, on |-> a, with |-> b, odd |-> ~op.odd]

Sets == [of |-> folders, in |-> msgs]
Become(s) == folders' = s.of /\ msgs' = s.in

-----------------------------------------------------------------------------
(* The helpers.                                                            *)

(* add_to_folder: m's folders learn of it.                                 *)
AddToFolders(s, m) ==
  [s EXCEPT !.in = [f \in Folders |-> IF f \in s.of[m] THEN @[f] \cup {m} ELSE @[f]]]

(* The loop with which swap and remove_from_folders begin.                 *)
RmvMsg(s, m) ==
  [s EXCEPT !.in = [f \in Folders |-> IF f \in s.of[m] THEN @[f] \ {m} ELSE @[f]]]

RemoveFromFolders(s, m) == [RmvMsg(s, m) EXCEPT !.of[m] = {}]

(* mutant: the folders keep the pointer to the message moved from.         *)
BugMoveFolders(s, m, r) ==
  [AddToFolders([s EXCEPT !.of[m] = s.of[r]], m) EXCEPT !.of[r] = {}]

MoveFolders(s, m, r) ==
  [AddToFolders([RmvMsg(s, r) EXCEPT !.of[m] = s.of[r]], m) EXCEPT !.of[r] = {}]

(* add_to_messages: f's new messages learn of it.                          *)
AddToMessages(s, f, g) ==
  [s EXCEPT !.of = [m \in Messages |-> IF m \in s.in[g] THEN @[m] \cup {f} ELSE @[m]]]

(* remove_from_messages: Message::remove for one after the other.          *)
RemoveFromMessages(s, f) ==
  [s EXCEPT !.of = [m \in Messages |-> IF m \in s.in[f] THEN @[m] \ {f} ELSE @[m]],
            !.in[f] = {}]

-----------------------------------------------------------------------------
(* Message.                                                                *)

Construct(m) ==
  /\ m \notin liveM /\ liveM' = liveM \cup {m}
  /\ \E t \in Texts : contents' = [contents EXCEPT ![m] = t]
  /\ UNCHANGED <<folders, msgs, liveF>>

CopyConstruct(m, r) ==
  /\ m \notin liveM /\ r \in liveM /\ liveM' = liveM \cup {m}
  /\ contents' = [contents EXCEPT ![m] = contents[r]]
  /\ Become(AddToFolders([Sets EXCEPT !.of[m] = folders[r]], m))
  /\ UNCHANGED liveF

(* An object assigned to itself has lost its folders when they are copied. *)
Assign(m, r) ==
  /\ m \in liveM /\ r \in liveM
  /\ contents' = [contents EXCEPT ![m] = contents[r]]
  /\ LET s == RemoveFromFolders(Sets, m)
     IN  Become(AddToFolders([s EXCEPT !.of[m] = s.of[r]], m))
  /\ UNCHANGED <<liveM, liveF>>

(* What a string holds after it was moved from is unspecified.             *)
MovedText(m, r) ==
  \E t \in Texts : contents' = [contents EXCEPT ![m] = contents[r], ![r] = t]

MoveConstruct(m, r) ==
  /\ m \notin liveM /\ r \in liveM /\ liveM' = liveM \cup {m}
  /\ MovedText(m, r)
  /\ Become(MoveFolders(Sets, m, r))
  /\ UNCHANGED liveF

(* mutant: without the test for an assignment to itself.                   *)
BugMoveAssign(m, r) ==
  /\ m \in liveM /\ r \in liveM
  /\ MovedText(m, r)
  /\ Become(MoveFolders(RemoveFromFolders(Sets, m), m, r))
  /\ UNCHANGED <<liveM, liveF>>

MoveAssign(m, r) ==
  /\ m \in liveM /\ r \in liveM
  /\ \/ m = r /\ UNCHANGED <<contents, folders, msgs>>
     \/ /\ m # r /\ MovedText(m, r)
        /\ Become(MoveFolders(RemoveFromFolders(Sets, m), m, r))
  /\ UNCHANGED <<liveM, liveF>>

Swap(m, r) ==
  /\ m \in liveM /\ r \in liveM
  /\ contents' = [contents EXCEPT ![m] = contents[r], ![r] = contents[m]]
  /\ LET s == RmvMsg(RmvMsg(Sets, m), r)
     IN  Become(AddToFolders(AddToFolders(
                  [s EXCEPT !.of[m] = s.of[r], !.of[r] = s.of[m]], m), r))
  /\ UNCHANGED <<liveM, liveF>>

Destroy(m) ==
  /\ m \in liveM /\ liveM' = liveM \ {m}
  /\ Become(RemoveFromFolders(Sets, m))
  /\ UNCHANGED <<contents, liveF>>

-----------------------------------------------------------------------------
(* Folder.                                                                 *)

ConstructFolder(f) ==
  /\ f \notin liveF /\ liveF' = liveF \cup {f}
  /\ UNCHANGED <<contents, folders, msgs, liveM>>

CopyConstructFolder(f, g) ==
  /\ f \notin liveF /\ g \in liveF /\ liveF' = liveF \cup {f}
  /\ Become(AddToMessages([Sets EXCEPT !.in[f] = msgs[g]], f, g))
  /\ UNCHANGED <<contents, liveM>>

AssignFolder(f, g) ==
  /\ f \in liveF /\ g \in liveF
  /\ LET s == RemoveFromMessages(Sets, f)
     IN  Become(AddToMessages([s EXCEPT !.in[f] = s.in[g]], f, g))
  /\ UNCHANGED <<contents, liveM, liveF>>

DestroyFolder(f) ==
  /\ f \in liveF /\ liveF' = liveF \ {f}
  /\ Become(RemoveFromMessages(Sets, f))
  /\ UNCHANGED <<contents, liveM>>

(* save and remove, which either side has.                                 *)
Save(m, f) ==
  /\ m \in liveM /\ f \in liveF
  /\ Become([Sets EXCEPT !.of[m] = @ \cup {f}, !.in[f] = @ \cup {m}])
  /\ UNCHANGED <<contents, liveM, liveF>>

Remove(m, f) ==
  /\ m \in liveM /\ f \in liveF
  /\ Become([Sets EXCEPT !.of[m] = @ \ {f}, !.in[f] = @ \ {m}])
  /\ UNCHANGED <<contents, liveM, liveF>>

OnMessage(m) == \/ Construct(m) /\ Did("Construct", m, m)
                \/ Destroy(m) /\ Did("Destroy", m, m)

OnMessages(m, r) == \/ (CopyConstruct(m, r) \/ Assign(m, r)) /\ Did("Copy", m, r)
                    \/ (MoveConstruct(m, r) \/ MoveAssign(m, r)) /\ Did("Move", m, r)
                    \/ Swap(m, r) /\ Did("Swap", m, r)

OnFolder(f) == \/ ConstructFolder(f) /\ Did("ConstructFolder", f, f)
               \/ DestroyFolder(f) /\ Did("DestroyFolder", f, f)

OnFolders(f, g) ==
  (CopyConstructFolder(f, g) \/ AssignFolder(f, g)) /\ Did("CopyFolder", f, g)

OnBoth(m, f) == \/ Save(m, f) /\ Did("Save", m, f)
                \/ Remove(m, f) /\ Did("Remove", m, f)

Next ==
  \/ \E m \in Messages : OnMessage(m) \/ \E r \in Messages : OnMessages(m, r)
  \/ \E f \in Folders : OnFolder(f) \/ \E g \in Folders : OnFolders(f, g)
  \/ \E m \in Messages, f \in Folders : OnBoth(m, f)

Spec == Init /\ [][Next]_vars
-----------------------------------------------------------------------------
(* Properties.                                                             *)

(* The two sides mirror each other after any sequence of operations, and   *)
(* no set holds a pointer to an object that is gone.                       *)
Mirror ==
  /\ folders \in [Messages -> SUBSET Folders] /\ msgs \in [Folders -> SUBSET Messages]
  /\ \A m \in Messages, f \in Folders :
       /\ f \in folders[m] <=> m \in msgs[f]
       /\ f \in folders[m] => m \in liveM /\ f \in liveF

(* Each call does to the relation between messages and folders what its    *)
(* own name says, no less, and touches no third object: a copy leaves its  *)
(* original filed and a move does not.  On one object alone, a move or *)
(* a swap changes nothing and an assignment of a copy empties the object   *)
(* (message.cpp:10 and :112 clear before they copy).                       *)
Shelf == INSTANCE Filing WITH
  text <- [m \in liveM |-> contents[m]], boxes <- liveF,
  filed <- {p \in Messages \X Folders : p[2] \in folders[p[1]]}
OneRelation == Shelf!Spec
=============================================================================
