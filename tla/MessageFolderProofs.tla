------------------------ MODULE MessageFolderProofs -------------------------
(***************************************************************************)
(* Proofs about MessageFolder, for any sets of messages, folders and texts.*)
(*                                                                         *)
(* The mirror of the two sides does not hold in the middle of an operation,*)
(* so each private helper is described point by point, which message is in *)
(* which set after it (lemmas ...Effect), and an operation composes what   *)
(* its helpers do.                                                         *)
(***************************************************************************)
EXTENDS MessageFolder, TLAPS

Both == [of : [Messages -> SUBSET Folders], in : [Folders -> SUBSET Messages]]

(* add_to_folder adds m to the sets of its folders and nothing else.       *)
LEMMA AddEffect ==
  ASSUME NEW s \in Both, NEW m \in Messages
  PROVE  LET t == AddToFolders(s, m)
         IN  /\ t \in Both /\ t.of = s.of
             /\ \A n \in Messages, f \in Folders :
                  n \in t.in[f] <=> n \in s.in[f] \/ (n = m /\ f \in s.of[m])
BY DEF Both, AddToFolders

LEMMA RmvEffect ==
  ASSUME NEW s \in Both, NEW m \in Messages
  PROVE  LET t == RmvMsg(s, m)
         IN  /\ t \in Both /\ t.of = s.of
             /\ \A n \in Messages, f \in Folders :
                  n \in t.in[f] <=> n \in s.in[f] /\ ~(n = m /\ f \in s.of[m])
BY DEF Both, RmvMsg

LEMMA OfEffect ==
  ASSUME NEW s \in Both, NEW m \in Messages, NEW X \in SUBSET Folders
  PROVE  LET t == [s EXCEPT !.of[m] = X]
         IN  /\ t \in Both /\ t.in = s.in /\ t.of[m] = X
             /\ \A n \in Messages \ {m} : t.of[n] = s.of[n]
BY DEF Both

LEMMA ClearEffect ==
  ASSUME NEW s \in Both, NEW m \in Messages
  PROVE  LET t == [s EXCEPT !.of[m] = {}]
         IN  /\ t \in Both /\ t.in = s.in /\ t.of[m] = {}
             /\ \A n \in Messages \ {m} : t.of[n] = s.of[n]
BY DEF Both

LEMMA RemoveEffect ==
  ASSUME NEW s \in Both, NEW m \in Messages
  PROVE  LET t == RemoveFromFolders(s, m)
         IN  /\ t \in Both /\ t.of[m] = {}
             /\ \A n \in Messages \ {m} : t.of[n] = s.of[n]
             /\ \A n \in Messages, f \in Folders :
                  n \in t.in[f] <=> n \in s.in[f] /\ ~(n = m /\ f \in s.of[m])
<1> DEFINE q == RmvMsg(s, m)
<1>1. q \in Both /\ q.of = s.of
  BY RmvEffect
<1>2. [q EXCEPT !.of[m] = {}] \in Both
  BY <1>1 DEF Both
<1>3. /\ [q EXCEPT !.of[m] = {}].in = q.in /\ [q EXCEPT !.of[m] = {}].of[m] = {}
      /\ \A n \in Messages \ {m} : [q EXCEPT !.of[m] = {}].of[n] = q.of[n]
  <2> HIDE DEF q
  <2> QED
    BY <1>1, ClearEffect
<1> QED
  BY <1>1, <1>2, <1>3, RmvEffect DEF RemoveFromFolders

LEMMA MoveEffect ==
  ASSUME NEW s \in Both, NEW m \in Messages, NEW r \in Messages, m # r
  PROVE  LET t == MoveFolders(s, m, r)
         IN  /\ t \in Both /\ t.of[m] = s.of[r] /\ t.of[r] = {}
             /\ \A n \in Messages \ {m, r} : t.of[n] = s.of[n]
             /\ \A n \in Messages, f \in Folders :
                  n \in t.in[f] <=> (n = m /\ f \in s.of[r])
                                      \/ (n \in s.in[f] /\ ~(n = r /\ f \in s.of[r]))
<1> DEFINE a == RmvMsg(s, r)
           b == [a EXCEPT !.of[m] = s.of[r]]
           c == AddToFolders(b, m)
           d == [c EXCEPT !.of[r] = {}]
<1>0. s.of[r] \in SUBSET Folders
  BY DEF Both
<1>1. /\ a \in Both /\ a.of = s.of
      /\ \A n \in Messages, f \in Folders :
           n \in a.in[f] <=> n \in s.in[f] /\ ~(n = r /\ f \in s.of[r])
  BY RmvEffect
<1>2. /\ b \in Both /\ b.in = a.in /\ b.of[m] = s.of[r]
      /\ \A n \in Messages \ {m} : b.of[n] = a.of[n]
  <2> HIDE DEF a
  <2> QED
    BY <1>0, <1>1, OfEffect
<1>3. /\ c \in Both /\ c.of = b.of
      /\ \A n \in Messages, f \in Folders :
           n \in c.in[f] <=> n \in b.in[f] \/ (n = m /\ f \in b.of[m])
  <2> HIDE DEF b
  <2> QED
    BY <1>2, AddEffect
<1>4. /\ d \in Both /\ d.in = c.in /\ d.of[r] = {}
      /\ \A n \in Messages \ {r} : d.of[n] = c.of[n]
  <2> HIDE DEF c
  <2> QED
    BY <1>3, ClearEffect
<1>5. MoveFolders(s, m, r) = d
  BY DEF MoveFolders
<1> HIDE DEF a, b, c, d
<1> QED
  BY <1>1, <1>2, <1>3, <1>4, <1>5

(* The other side: add_to_messages and remove_from_messages.               *)
LEMMA AddMessagesEffect ==
  ASSUME NEW s \in Both, NEW f \in Folders, NEW g \in Folders
  PROVE  LET t == AddToMessages(s, f, g)
         IN  /\ t \in Both /\ t.in = s.in
             /\ \A m \in Messages, h \in Folders :
                  h \in t.of[m] <=> h \in s.of[m] \/ (h = f /\ m \in s.in[g])
BY DEF Both, AddToMessages

LEMMA RemoveMessagesEffect ==
  ASSUME NEW s \in Both, NEW f \in Folders
  PROVE  LET t == RemoveFromMessages(s, f)
         IN  /\ t \in Both /\ t.in[f] = {}
             /\ \A g \in Folders \ {f} : t.in[g] = s.in[g]
             /\ \A m \in Messages, h \in Folders :
                  h \in t.of[m] <=> h \in s.of[m] /\ ~(h = f /\ m \in s.in[f])
BY DEF Both, RemoveFromMessages
-----------------------------------------------------------------------------
(* What the operations do to folders; msgs follows.                        *)

Typed == /\ contents \in [Messages -> Texts]
         /\ liveM \subseteq Messages /\ liveF \subseteq Folders

IInv == Typed /\ Mirror

LEMMA SetsAreBoth ==
  ASSUME Mirror
  PROVE  Sets \in Both /\ Sets.of = folders /\ Sets.in = msgs
BY DEF Mirror, Sets, Both

LEMMA BecomesBoth ==
  ASSUME NEW s \in Both, Become(s)
  PROVE  /\ folders' = s.of /\ msgs' = s.in
         /\ folders' \in [Messages -> SUBSET Folders]
         /\ msgs' \in [Folders -> SUBSET Messages]
BY DEF Both, Become

LEMMA CopyConstructs ==
  ASSUME IInv, NEW m \in Messages, NEW r \in Messages, CopyConstruct(m, r)
  PROVE  IInv' /\ folders' = [folders EXCEPT ![m] = folders[r]]
<1> DEFINE s == [Sets EXCEPT !.of[m] = folders[r]]
           t == AddToFolders(s, m)
<1>0. folders[r] \in SUBSET Folders /\ folders \in [Messages -> SUBSET Folders]
  BY DEF IInv, Mirror
<1>1. Sets \in Both /\ Sets.of = folders /\ Sets.in = msgs
  BY SetsAreBoth DEF IInv
<1>2. /\ s \in Both /\ s.in = msgs /\ s.of[m] = folders[r]
      /\ \A n \in Messages \ {m} : s.of[n] = folders[n]
  BY <1>0, <1>1, OfEffect
<1>3. /\ t \in Both /\ t.of = s.of
      /\ \A n \in Messages, f \in Folders :
           n \in t.in[f] <=> n \in s.in[f] \/ (n = m /\ f \in s.of[m])
  <2> HIDE DEF s
  <2> QED
    BY <1>2, AddEffect
<1>4. /\ Become(t) /\ m \notin liveM /\ r \in liveM /\ liveM' = liveM \cup {m}
      /\ liveF' = liveF /\ contents' = [contents EXCEPT ![m] = contents[r]]
  BY DEF CopyConstruct
<1> HIDE DEF s, t
<1>5. /\ folders' = t.of /\ msgs' = t.in
      /\ folders' \in [Messages -> SUBSET Folders]
      /\ msgs' \in [Folders -> SUBSET Messages]
  BY <1>3, <1>4, BecomesBoth
<1>6. folders' = [folders EXCEPT ![m] = folders[r]]
  BY <1>0, <1>2, <1>3, <1>5
<1>7. ASSUME NEW n \in Messages, NEW f \in Folders
      PROVE  /\ f \in folders'[n] <=> n \in msgs'[f]
             /\ f \in folders'[n] => n \in liveM' /\ f \in liveF'
  BY <1>2, <1>3, <1>4, <1>5 DEF IInv, Mirror
<1>8. Mirror'
  BY <1>5, <1>7 DEF Mirror
<1>9. Typed'
  BY <1>4 DEF IInv, Typed
<1> QED
  BY <1>6, <1>8, <1>9 DEF IInv

(* An object assigned to itself ends up with no folders.                   *)
LEMMA Assigns ==
  ASSUME IInv, NEW m \in Messages, NEW r \in Messages, Assign(m, r)
  PROVE  IInv' /\ folders' = [folders EXCEPT ![m] = IF m = r THEN {} ELSE folders[r]]
<1> DEFINE q == RemoveFromFolders(Sets, m)
           s == [q EXCEPT !.of[m] = q.of[r]]
           t == AddToFolders(s, m)
<1>1. Sets \in Both /\ Sets.of = folders /\ Sets.in = msgs
  BY SetsAreBoth DEF IInv
<1>2. /\ q \in Both /\ q.of[m] = {} /\ q.of[r] \in SUBSET Folders
      /\ \A n \in Messages \ {m} : q.of[n] = folders[n]
      /\ \A n \in Messages, f \in Folders :
           n \in q.in[f] <=> n \in msgs[f] /\ ~(n = m /\ f \in folders[m])
  BY <1>1, RemoveEffect DEF Both
<1>3. /\ s \in Both /\ s.in = q.in /\ s.of[m] = q.of[r]
      /\ \A n \in Messages \ {m} : s.of[n] = q.of[n]
  <2> HIDE DEF q
  <2> QED
    BY <1>2 DEF Both
<1>4. /\ t \in Both /\ t.of = s.of
      /\ \A n \in Messages, f \in Folders :
           n \in t.in[f] <=> n \in s.in[f] \/ (n = m /\ f \in s.of[m])
  <2> HIDE DEF s
  <2> QED
    BY <1>3, AddEffect
<1>5. /\ Become(t) /\ m \in liveM /\ r \in liveM /\ liveM' = liveM
      /\ liveF' = liveF /\ contents' = [contents EXCEPT ![m] = contents[r]]
  BY DEF Assign
<1> HIDE DEF q, s, t
<1>6. /\ folders' = t.of /\ msgs' = t.in
      /\ folders' \in [Messages -> SUBSET Folders]
      /\ msgs' \in [Folders -> SUBSET Messages]
  BY <1>4, <1>5, BecomesBoth
<1>7. folders' = [folders EXCEPT ![m] = IF m = r THEN {} ELSE folders[r]]
  <2>1. folders'[m] = IF m = r THEN {} ELSE folders[r]
    BY <1>2, <1>3, <1>4, <1>6
  <2>2. \A n \in Messages \ {m} : folders'[n] = folders[n]
    BY <1>2, <1>3, <1>4, <1>6
  <2> QED
    BY <1>6, <2>1, <2>2 DEF IInv, Mirror
<1>8. ASSUME NEW n \in Messages, NEW f \in Folders
      PROVE  /\ f \in folders'[n] <=> n \in msgs'[f]
             /\ f \in folders'[n] => n \in liveM' /\ f \in liveF'
  BY <1>2, <1>3, <1>4, <1>5, <1>6 DEF IInv, Mirror
<1>9. Mirror' /\ Typed'
  BY <1>5, <1>6, <1>8 DEF Mirror, IInv, Typed
<1> QED
  BY <1>7, <1>9 DEF IInv

LEMMA MovesConstruct ==
  ASSUME IInv, NEW m \in Messages, NEW r \in Messages, MoveConstruct(m, r)
  PROVE  IInv' /\ folders' = [folders EXCEPT ![m] = folders[r], ![r] = {}]
<1> DEFINE t == MoveFolders(Sets, m, r)
<1>1. Sets \in Both /\ Sets.of = folders /\ Sets.in = msgs
  BY SetsAreBoth DEF IInv
<1>5. /\ Become(t) /\ m \notin liveM /\ r \in liveM /\ m # r
      /\ liveM' = liveM \cup {m} /\ liveF' = liveF /\ MovedText(m, r)
  BY DEF MoveConstruct
<1>4. /\ t \in Both /\ t.of[m] = folders[r] /\ t.of[r] = {}
      /\ \A n \in Messages \ {m, r} : t.of[n] = folders[n]
      /\ \A n \in Messages, f \in Folders :
           n \in t.in[f] <=> (n = m /\ f \in folders[r])
                               \/ (n \in msgs[f] /\ ~(n = r /\ f \in folders[r]))
  <2> HIDE DEF t
  <2>1. /\ t \in Both /\ t.of[m] = Sets.of[r] /\ t.of[r] = {}
        /\ \A n \in Messages \ {m, r} : t.of[n] = Sets.of[n]
        /\ \A n \in Messages, f \in Folders :
             n \in t.in[f] <=> (n = m /\ f \in Sets.of[r])
                                 \/ (n \in Sets.in[f] /\ ~(n = r /\ f \in Sets.of[r]))
    <3>1. Sets \in Both /\ m # r
      BY <1>1, <1>5
    <3> QED
      BY <3>1, MoveEffect DEF t
  <2> QED
    BY <1>1, <2>1
<1> HIDE DEF t
<1>6. /\ folders' = t.of /\ msgs' = t.in
      /\ folders' \in [Messages -> SUBSET Folders]
      /\ msgs' \in [Folders -> SUBSET Messages]
  BY <1>4, <1>5, BecomesBoth
<1>7. folders' = [folders EXCEPT ![m] = folders[r], ![r] = {}]
  BY <1>4, <1>5, <1>6 DEF IInv, Mirror
<1>8. ASSUME NEW n \in Messages, NEW f \in Folders
      PROVE  /\ f \in folders'[n] <=> n \in msgs'[f]
             /\ f \in folders'[n] => n \in liveM' /\ f \in liveF'
  BY <1>4, <1>5, <1>5, <1>6 DEF IInv, Mirror
<1>9. Mirror' /\ Typed'
  BY <1>5, <1>6, <1>8 DEF Mirror, IInv, Typed, MovedText
<1> QED
  BY <1>7, <1>9 DEF IInv

LEMMA MovesAssign ==
  ASSUME IInv, NEW m \in Messages, NEW r \in Messages, m # r, MoveAssign(m, r)
  PROVE  IInv' /\ folders' = [folders EXCEPT ![m] = folders[r], ![r] = {}]
<1> DEFINE q == RemoveFromFolders(Sets, m)
           t == MoveFolders(q, m, r)
<1>1. Sets \in Both /\ Sets.of = folders /\ Sets.in = msgs
  BY SetsAreBoth DEF IInv
<1>5. /\ Become(t) /\ m \in liveM /\ r \in liveM /\ m # r
      /\ liveM' = liveM /\ liveF' = liveF /\ MovedText(m, r)
  BY DEF MoveAssign
<1>2. /\ q \in Both /\ q.of[m] = {}
      /\ \A n \in Messages \ {m} : q.of[n] = folders[n]
      /\ \A n \in Messages, f \in Folders :
           n \in q.in[f] <=> n \in msgs[f] /\ ~(n = m /\ f \in folders[m])
  <2>1. /\ q \in Both /\ q.of[m] = {}
        /\ \A n \in Messages \ {m} : q.of[n] = Sets.of[n]
        /\ \A n \in Messages, f \in Folders :
             n \in q.in[f] <=> n \in Sets.in[f] /\ ~(n = m /\ f \in Sets.of[m])
    BY <1>1, RemoveEffect
  <2> HIDE DEF q
  <2> QED
    BY <1>1, <2>1
<1>4. /\ t \in Both /\ t.of[m] = q.of[r] /\ t.of[r] = {}
      /\ \A n \in Messages \ {m, r} : t.of[n] = q.of[n]
      /\ \A n \in Messages, f \in Folders :
           n \in t.in[f] <=> (n = m /\ f \in q.of[r])
                               \/ (n \in q.in[f] /\ ~(n = r /\ f \in q.of[r]))
  <2> HIDE DEF q
  <2> QED
    BY <1>2, <1>5, MoveEffect
<1> HIDE DEF q, t
<1>6. /\ folders' = t.of /\ msgs' = t.in
      /\ folders' \in [Messages -> SUBSET Folders]
      /\ msgs' \in [Folders -> SUBSET Messages]
  BY <1>4, <1>5, BecomesBoth
<1>7. folders' = [folders EXCEPT ![m] = folders[r], ![r] = {}]
  <2>1. folders'[m] = folders[r] /\ folders'[r] = {}
    BY <1>2, <1>4, <1>5, <1>6
  <2>2. \A n \in Messages \ {m, r} : folders'[n] = folders[n]
    BY <1>2, <1>4, <1>6
  <2> QED
    BY <1>5, <1>6, <2>1, <2>2 DEF IInv, Mirror
<1>8. ASSUME NEW n \in Messages, NEW f \in Folders
      PROVE  /\ f \in folders'[n] <=> n \in msgs'[f]
             /\ f \in folders'[n] => n \in liveM' /\ f \in liveF'
  BY <1>2, <1>4, <1>5, <1>5, <1>6 DEF IInv, Mirror
<1>9. Mirror' /\ Typed'
  BY <1>5, <1>6, <1>8 DEF Mirror, IInv, Typed, MovedText
<1> QED
  BY <1>7, <1>9 DEF IInv

LEMMA MovesToItself ==
  ASSUME IInv, NEW m \in Messages, MoveAssign(m, m)
  PROVE  IInv' /\ UNCHANGED <<contents, folders, msgs, liveM, liveF>>
<1>1. UNCHANGED <<contents, folders, msgs, liveM, liveF>>
  BY DEF MoveAssign
<1> QED
  BY <1>1 DEF IInv, Typed, Mirror

LEMMA Destroys ==
  ASSUME IInv, NEW m \in Messages, Destroy(m)
  PROVE  IInv' /\ folders' = [folders EXCEPT ![m] = {}]
<1> DEFINE t == RemoveFromFolders(Sets, m)
<1>1. Sets \in Both /\ Sets.of = folders /\ Sets.in = msgs
  BY SetsAreBoth DEF IInv
<1>5. /\ Become(t) /\ m \in liveM /\ liveM' = liveM \ {m} /\ liveF' = liveF
      /\ contents' = contents
  BY DEF Destroy
<1>4. /\ t \in Both /\ t.of[m] = {}
      /\ \A n \in Messages \ {m} : t.of[n] = folders[n]
      /\ \A n \in Messages, f \in Folders :
           n \in t.in[f] <=> n \in msgs[f] /\ ~(n = m /\ f \in folders[m])
  BY <1>1, RemoveEffect
<1> HIDE DEF t
<1>6. /\ folders' = t.of /\ msgs' = t.in
      /\ folders' \in [Messages -> SUBSET Folders]
      /\ msgs' \in [Folders -> SUBSET Messages]
  BY <1>4, <1>5, BecomesBoth
<1>7. folders' = [folders EXCEPT ![m] = {}]
  BY <1>4, <1>6 DEF IInv, Mirror
<1>8. ASSUME NEW n \in Messages, NEW f \in Folders
      PROVE  /\ f \in folders'[n] <=> n \in msgs'[f]
             /\ f \in folders'[n] => n \in liveM' /\ f \in liveF'
  BY <1>4, <1>5, <1>6 DEF IInv, Mirror
<1>9. Mirror' /\ Typed'
  BY <1>5, <1>6, <1>8 DEF Mirror, IInv, Typed
<1> QED
  BY <1>7, <1>9 DEF IInv

(* swap takes both out of their folders first, and works on one message    *)
(* too.                                                                    *)
LEMMA Swaps ==
  ASSUME IInv, NEW m \in Messages, NEW r \in Messages, Swap(m, r)
  PROVE  IInv' /\ folders' = [folders EXCEPT ![m] = folders[r], ![r] = folders[m]]
<1> DEFINE a == RmvMsg(Sets, m)
           b == RmvMsg(a, r)
           c == [b EXCEPT !.of[m] = b.of[r], !.of[r] = b.of[m]]
           d == AddToFolders(c, m)
           t == AddToFolders(d, r)
<1>1. Sets \in Both /\ Sets.of = folders /\ Sets.in = msgs
  BY SetsAreBoth DEF IInv
<1>2. /\ a \in Both /\ a.of = folders
      /\ \A n \in Messages, f \in Folders :
           n \in a.in[f] <=> n \in msgs[f] /\ ~(n = m /\ f \in folders[m])
  BY <1>1, RmvEffect
<1>3. /\ b \in Both /\ b.of = folders
      /\ \A n \in Messages, f \in Folders :
           n \in b.in[f] <=> n \in a.in[f] /\ ~(n = r /\ f \in folders[r])
  <2> HIDE DEF a
  <2> QED
    BY <1>2, RmvEffect
<1>10. /\ c \in Both /\ c.in = b.in /\ c.of[m] = folders[r] /\ c.of[r] = folders[m]
       /\ \A n \in Messages \ {m, r} : c.of[n] = folders[n]
  <2> HIDE DEF b
  <2> QED
    BY <1>3 DEF Both
<1>11. /\ d \in Both /\ d.of = c.of
       /\ \A n \in Messages, f \in Folders :
            n \in d.in[f] <=> n \in c.in[f] \/ (n = m /\ f \in c.of[m])
  <2> HIDE DEF c
  <2> QED
    BY <1>10, AddEffect
<1>4. /\ t \in Both /\ t.of = d.of
      /\ \A n \in Messages, f \in Folders :
           n \in t.in[f] <=> n \in d.in[f] \/ (n = r /\ f \in d.of[r])
  <2> HIDE DEF d
  <2> QED
    BY <1>11, AddEffect
<1>5. /\ Become(t) /\ m \in liveM /\ r \in liveM /\ liveM' = liveM /\ liveF' = liveF
      /\ contents' = [contents EXCEPT ![m] = contents[r], ![r] = contents[m]]
  BY DEF Swap
<1> HIDE DEF a, b, c, d, t
<1>6. /\ folders' = t.of /\ msgs' = t.in
      /\ folders' \in [Messages -> SUBSET Folders]
      /\ msgs' \in [Folders -> SUBSET Messages]
  BY <1>4, <1>5, BecomesBoth
<1>7. folders' = [folders EXCEPT ![m] = folders[r], ![r] = folders[m]]
  <2>1. folders'[m] = folders[r] /\ folders'[r] = folders[m]
    BY <1>10, <1>11, <1>4, <1>6
  <2>2. \A n \in Messages \ {m, r} : folders'[n] = folders[n]
    BY <1>10, <1>11, <1>4, <1>6
  <2> QED
    BY <1>6, <2>1, <2>2 DEF IInv, Mirror
<1>8. ASSUME NEW n \in Messages, NEW f \in Folders
      PROVE  /\ f \in folders'[n] <=> n \in msgs'[f]
             /\ f \in folders'[n] => n \in liveM' /\ f \in liveF'
  BY <1>2, <1>3, <1>10, <1>11, <1>4, <1>5, <1>6 DEF IInv, Mirror
<1>9. Mirror' /\ Typed'
  BY <1>5, <1>6, <1>8 DEF Mirror, IInv, Typed
<1> QED
  BY <1>7, <1>9 DEF IInv

LEMMA CopiesFolder ==
  ASSUME IInv, NEW f \in Folders, NEW g \in Folders, CopyConstructFolder(f, g)
  PROVE  /\ IInv'
         /\ \A n \in Messages, h \in Folders :
              h \in folders'[n] <=> h \in folders[n] \/ (h = f /\ n \in msgs[g])
<1> DEFINE s == [Sets EXCEPT !.in[f] = msgs[g]]
           t == AddToMessages(s, f, g)
<1>0. /\ folders \in [Messages -> SUBSET Folders]
      /\ \A n \in Messages, h \in Folders :
           /\ h \in folders[n] <=> n \in msgs[h]
           /\ h \in folders[n] => n \in liveM /\ h \in liveF
  BY DEF IInv, Mirror
<1>1. Sets \in Both /\ Sets.of = folders /\ Sets.in = msgs
  BY SetsAreBoth DEF IInv
<1>2. /\ s \in Both /\ s.of = folders /\ s.in[f] = msgs[g] /\ s.in[g] = msgs[g]
      /\ \A h \in Folders \ {f} : s.in[h] = msgs[h]
  BY <1>1 DEF Both
<1>4. /\ t \in Both /\ t.in = s.in
      /\ \A n \in Messages, h \in Folders :
           h \in t.of[n] <=> h \in s.of[n] \/ (h = f /\ n \in s.in[g])
  <2> HIDE DEF s
  <2> QED
    BY <1>2, AddMessagesEffect
<1>5. /\ Become(t) /\ f \notin liveF /\ g \in liveF /\ liveF' = liveF \cup {f}
      /\ liveM' = liveM /\ contents' = contents
  BY DEF CopyConstructFolder
<1> HIDE DEF s, t
<1>6. /\ folders' = t.of /\ msgs' = t.in
      /\ folders' \in [Messages -> SUBSET Folders]
      /\ msgs' \in [Folders -> SUBSET Messages]
  BY <1>4, <1>5, BecomesBoth
<1>7. \A n \in Messages, h \in Folders :
        h \in folders'[n] <=> h \in folders[n] \/ (h = f /\ n \in msgs[g])
  BY <1>2, <1>4, <1>6
<1>8. ASSUME NEW n \in Messages, NEW h \in Folders
      PROVE  /\ h \in folders'[n] <=> n \in msgs'[h]
             /\ h \in folders'[n] => n \in liveM' /\ h \in liveF'
  <2>1. CASE h = f
    BY <1>2, <1>4, <1>0, <1>5, <1>6, <2>1
  <2>2. CASE h # f
    BY <1>2, <1>4, <1>0, <1>5, <1>6, <2>2
  <2> QED
    BY <2>1, <2>2
<1>9. Mirror' /\ Typed'
  BY <1>5, <1>6, <1>8 DEF Mirror, IInv, Typed
<1> QED
  BY <1>7, <1>9 DEF IInv

(* A folder assigned to itself ends up empty.                              *)
LEMMA AssignsFolder ==
  ASSUME IInv, NEW f \in Folders, NEW g \in Folders, AssignFolder(f, g)
  PROVE  /\ IInv'
         /\ \A n \in Messages, h \in Folders :
              h \in folders'[n] <=> (h # f /\ h \in folders[n])
                                      \/ (h = f /\ f # g /\ n \in msgs[g])
<1> DEFINE q == RemoveFromMessages(Sets, f)
           s == [q EXCEPT !.in[f] = q.in[g]]
           t == AddToMessages(s, f, g)
<1>0. /\ folders \in [Messages -> SUBSET Folders]
      /\ \A n \in Messages, h \in Folders :
           /\ h \in folders[n] <=> n \in msgs[h]
           /\ h \in folders[n] => n \in liveM /\ h \in liveF
  BY DEF IInv, Mirror
<1>1. Sets \in Both /\ Sets.of = folders /\ Sets.in = msgs
  BY SetsAreBoth DEF IInv
<1>2. /\ q \in Both /\ q.in[f] = {}
      /\ \A h \in Folders \ {f} : q.in[h] = msgs[h]
      /\ \A n \in Messages, h \in Folders :
           h \in q.of[n] <=> h \in folders[n] /\ ~(h = f /\ n \in msgs[f])
  <2>1. /\ q \in Both /\ q.in[f] = {}
        /\ \A h \in Folders \ {f} : q.in[h] = Sets.in[h]
        /\ \A n \in Messages, h \in Folders :
             h \in q.of[n] <=> h \in Sets.of[n] /\ ~(h = f /\ n \in Sets.in[f])
    BY <1>1, RemoveMessagesEffect
  <2> HIDE DEF q
  <2> QED
    BY <1>1, <2>1
<1>3. /\ s \in Both /\ s.of = q.of /\ s.in[f] = q.in[g] /\ s.in[g] = q.in[g]
      /\ \A h \in Folders \ {f} : s.in[h] = q.in[h]
  <2> HIDE DEF q
  <2> QED
    BY <1>2 DEF Both
<1>4. /\ t \in Both /\ t.in = s.in
      /\ \A n \in Messages, h \in Folders :
           h \in t.of[n] <=> h \in s.of[n] \/ (h = f /\ n \in s.in[g])
  <2> HIDE DEF s
  <2> QED
    BY <1>3, AddMessagesEffect
<1>5. /\ Become(t) /\ f \in liveF /\ g \in liveF /\ liveF' = liveF
      /\ liveM' = liveM /\ contents' = contents
  BY DEF AssignFolder
<1> HIDE DEF q, s, t
<1>6. /\ folders' = t.of /\ msgs' = t.in
      /\ folders' \in [Messages -> SUBSET Folders]
      /\ msgs' \in [Folders -> SUBSET Messages]
  BY <1>4, <1>5, BecomesBoth
<1>7. ASSUME NEW n \in Messages, NEW h \in Folders
      PROVE  h \in folders'[n] <=> (h # f /\ h \in folders[n])
                                     \/ (h = f /\ f # g /\ n \in msgs[g])
  <2>1. h \in folders'[n] <=> h \in q.of[n] \/ (h = f /\ n \in q.in[g])
    BY <1>3, <1>4, <1>6
  <2>2. h \in q.of[n] <=> h \in folders[n] /\ h # f
    BY <1>0, <1>2
  <2>3. n \in q.in[g] <=> f # g /\ n \in msgs[g]
    <3>1. CASE f = g
      BY <1>2, <3>1
    <3>2. CASE f # g
      BY <1>2, <3>2
    <3> QED
      BY <3>1, <3>2
  <2> QED
    BY <2>1, <2>2, <2>3
<1>8. ASSUME NEW n \in Messages, NEW h \in Folders
      PROVE  /\ h \in folders'[n] <=> n \in msgs'[h]
             /\ h \in folders'[n] => n \in liveM' /\ h \in liveF'
  <2>1. CASE h = f
    BY <1>2, <1>3, <1>4, <1>0, <1>5, <1>6, <2>1
  <2>2. CASE h # f
    BY <1>2, <1>3, <1>4, <1>0, <1>5, <1>6, <2>2
  <2> QED
    BY <2>1, <2>2
<1>9. Mirror' /\ Typed'
  BY <1>5, <1>6, <1>8 DEF Mirror, IInv, Typed
<1> QED
  BY <1>7, <1>9 DEF IInv

LEMMA DestroysFolder ==
  ASSUME IInv, NEW f \in Folders, DestroyFolder(f)
  PROVE  /\ IInv'
         /\ \A n \in Messages, h \in Folders :
              h \in folders'[n] <=> h \in folders[n] /\ h # f
<1> DEFINE t == RemoveFromMessages(Sets, f)
<1>0. /\ folders \in [Messages -> SUBSET Folders]
      /\ \A n \in Messages, h \in Folders :
           /\ h \in folders[n] <=> n \in msgs[h]
           /\ h \in folders[n] => n \in liveM /\ h \in liveF
  BY DEF IInv, Mirror
<1>1. Sets \in Both /\ Sets.of = folders /\ Sets.in = msgs
  BY SetsAreBoth DEF IInv
<1>4. /\ t \in Both /\ t.in[f] = {}
      /\ \A h \in Folders \ {f} : t.in[h] = msgs[h]
      /\ \A n \in Messages, h \in Folders :
           h \in t.of[n] <=> h \in folders[n] /\ ~(h = f /\ n \in msgs[f])
  <2>1. /\ t \in Both /\ t.in[f] = {}
        /\ \A h \in Folders \ {f} : t.in[h] = Sets.in[h]
        /\ \A n \in Messages, h \in Folders :
             h \in t.of[n] <=> h \in Sets.of[n] /\ ~(h = f /\ n \in Sets.in[f])
    BY <1>1, RemoveMessagesEffect
  <2> HIDE DEF t
  <2> QED
    BY <1>1, <2>1
<1>5. /\ Become(t) /\ f \in liveF /\ liveF' = liveF \ {f}
      /\ liveM' = liveM /\ contents' = contents
  BY DEF DestroyFolder
<1> HIDE DEF t
<1>6. /\ folders' = t.of /\ msgs' = t.in
      /\ folders' \in [Messages -> SUBSET Folders]
      /\ msgs' \in [Folders -> SUBSET Messages]
  BY <1>4, <1>5, BecomesBoth
<1>7. \A n \in Messages, h \in Folders : h \in folders'[n] <=> h \in folders[n] /\ h # f
  BY <1>0, <1>4, <1>6
<1>8. ASSUME NEW n \in Messages, NEW h \in Folders
      PROVE  /\ h \in folders'[n] <=> n \in msgs'[h]
             /\ h \in folders'[n] => n \in liveM' /\ h \in liveF'
  <2>1. CASE h = f
    BY <1>4, <1>0, <1>5, <1>6, <2>1
  <2>2. CASE h # f
    BY <1>4, <1>0, <1>5, <1>6, <2>2
  <2> QED
    BY <2>1, <2>2
<1>9. Mirror' /\ Typed'
  BY <1>5, <1>6, <1>8 DEF Mirror, IInv, Typed
<1> QED
  BY <1>7, <1>9 DEF IInv

(* What needs no helper: objects begin, and save and remove.               *)
LEMMA Constructs ==
  ASSUME IInv, NEW m \in Messages, Construct(m)
  PROVE  IInv'
BY DEF IInv, Typed, Mirror, Construct

LEMMA ConstructsFolder ==
  ASSUME IInv, NEW f \in Folders, ConstructFolder(f)
  PROVE  IInv'
BY DEF IInv, Typed, Mirror, ConstructFolder

LEMMA Saves ==
  ASSUME IInv, NEW m \in Messages, NEW f \in Folders, Save(m, f)
  PROVE  IInv' /\ folders' = [folders EXCEPT ![m] = folders[m] \cup {f}]
<1>1. /\ folders' = [folders EXCEPT ![m] = folders[m] \cup {f}]
      /\ msgs' = [msgs EXCEPT ![f] = msgs[f] \cup {m}]
  BY DEF Save, Become, Sets
<1>2. /\ m \in liveM /\ f \in liveF /\ liveM' = liveM /\ liveF' = liveF
      /\ contents' = contents
  BY DEF Save
<1> QED
  BY <1>1, <1>2 DEF IInv, Typed, Mirror

LEMMA Removes ==
  ASSUME IInv, NEW m \in Messages, NEW f \in Folders, Remove(m, f)
  PROVE  IInv' /\ folders' = [folders EXCEPT ![m] = folders[m] \ {f}]
<1>1. /\ folders' = [folders EXCEPT ![m] = folders[m] \ {f}]
      /\ msgs' = [msgs EXCEPT ![f] = msgs[f] \ {m}]
  BY DEF Remove, Become, Sets
<1>2. /\ m \in liveM /\ f \in liveF /\ liveM' = liveM /\ liveF' = liveF
      /\ contents' = contents
  BY DEF Remove
<1> QED
  BY <1>1, <1>2 DEF IInv, Typed, Mirror

-----------------------------------------------------------------------------
(* The invariant.                                                          *)

LEMMA InitInv == Init => IInv
BY DEF Init, IInv, Typed, Mirror

LEMMA NextInv == IInv /\ [Next]_vars => IInv'
<1> SUFFICES ASSUME IInv, [Next]_vars PROVE IInv'
  OBVIOUS
<1>1. ASSUME NEW m \in Messages, Construct(m) PROVE IInv'
  BY <1>1, Constructs
<1>2. ASSUME NEW m \in Messages, Destroy(m) PROVE IInv'
  BY <1>2, Destroys
<1>3. ASSUME NEW m \in Messages, NEW r \in Messages, OnMessages(m, r) PROVE IInv'
  BY <1>3, CopyConstructs, Assigns, MovesConstruct, MovesAssign, MovesToItself, Swaps
     DEF OnMessages
<1>4. ASSUME NEW f \in Folders, ConstructFolder(f) PROVE IInv'
  BY <1>4, ConstructsFolder
<1>5. ASSUME NEW f \in Folders, DestroyFolder(f) PROVE IInv'
  BY <1>5, DestroysFolder
<1>6. ASSUME NEW f \in Folders, NEW g \in Folders, OnFolders(f, g) PROVE IInv'
  BY <1>6, CopiesFolder, AssignsFolder DEF OnFolders
<1>7. ASSUME NEW m \in Messages, NEW f \in Folders, Save(m, f) PROVE IInv'
  BY <1>7, Saves
<1>8. ASSUME NEW m \in Messages, NEW f \in Folders, Remove(m, f) PROVE IInv'
  BY <1>8, Removes
<1>9. CASE UNCHANGED vars
  BY <1>9 DEF vars, IInv, Typed, Mirror
<1> QED
  BY <1>1, <1>2, <1>3, <1>4, <1>5, <1>6, <1>7, <1>8, <1>9
     DEF Next, OnMessage, OnFolder, OnBoth

LEMMA Inductive == Spec => []IInv
<1> QED
  BY InitInv, NextInv, PTL DEF Spec

(* For any messages and folders: after every sequence of operations a      *)
(* message points to a folder exactly when the folder points to it, and    *)
(* both exist.                                                             *)
THEOREM SidesMirror == Spec => []Mirror
<1>1. IInv => Mirror
  BY DEF IInv
<1> QED
  BY <1>1, Inductive, PTL

-----------------------------------------------------------------------------
(* The refinement.  Filed is the relation the mapping gives to Filing.     *)

Filed == {p \in Messages \X Folders : p[2] \in folders[p[1]]}
Text == [m \in liveM |-> contents[m]]

LEMMA FiledPairs ==
  /\ Filed \subseteq Messages \X Folders
  /\ \A m \in Messages, f \in Folders : <<m, f>> \in Filed <=> f \in folders[m]
BY DEF Filed

LEMMA FiledPairsNext ==
  /\ Filed' \subseteq Messages \X Folders
  /\ \A m \in Messages, f \in Folders : <<m, f>> \in Filed' <=> f \in folders'[m]
BY DEF Filed

(* Two relations are the same when they relate the same objects.           *)
LEMMA SameRelation ==
  ASSUME NEW A \in SUBSET (Messages \X Folders), NEW B \in SUBSET (Messages \X Folders),
         \A m \in Messages, f \in Folders : <<m, f>> \in A <=> <<m, f>> \in B
  PROVE  A = B
OBVIOUS

(* The sets of Filing's actions, point by point.                           *)
LEMMA ShelfSets ==
  ASSUME NEW m \in Messages, NEW r \in Messages
  PROVE  /\ Shelf!Of(m) \subseteq Messages \X Folders
         /\ Shelf!Like(m, r) \subseteq Messages \X Folders
         /\ \A n \in Messages, f \in Folders :
              /\ <<n, f>> \in Shelf!Of(m) <=> n = m /\ f \in folders[m]
              /\ <<n, f>> \in Shelf!Like(m, r) <=> n = m /\ f \in folders[r]
<1>1. Shelf!Of(m) = {p \in Filed : p[1] = m} /\ Shelf!Of(r) = {p \in Filed : p[1] = r}
  BY DEF Shelf!Of, Filed
<1>2. Shelf!Like(m, r) = {<<m, p[2]>> : p \in Shelf!Of(r)}
  BY DEF Shelf!Like
<1>3. \A n \in Messages, f \in Folders :
        <<n, f>> \in Shelf!Of(m) <=> n = m /\ f \in folders[m]
  BY <1>1, FiledPairs
<1>4. \A n \in Messages, f \in Folders :
        <<n, f>> \in Shelf!Of(r) <=> n = r /\ f \in folders[r]
  BY <1>1, FiledPairs
<1>5. \A f \in Folders : <<m, f>> \in Shelf!Like(m, r) <=> f \in folders[r]
  <2> TAKE f \in Folders
  <2>1. ASSUME f \in folders[r] PROVE <<m, f>> \in Shelf!Like(m, r)
    <3>1. <<r, f>> \in Shelf!Of(r) /\ <<r, f>>[2] = f
      BY <1>4, <2>1
    <3> QED
      BY <1>2, <3>1
  <2>2. ASSUME <<m, f>> \in Shelf!Like(m, r) PROVE f \in folders[r]
    <3>1. PICK p \in Shelf!Of(r) : <<m, f>> = <<m, p[2]>>
      BY <1>2, <2>2
    <3>2. p[2] = f /\ p[1] = r /\ p[2] \in folders[p[1]]
      BY <1>1, <3>1 DEF Filed
    <3> QED
      BY <3>2
  <2> QED
    BY <2>1, <2>2
<1>6. Shelf!Like(m, r) \subseteq {m} \X Folders
  BY <1>1, <1>2, FiledPairs
<1> QED
  BY <1>1, <1>3, <1>5, <1>6, FiledPairs

LEMMA ShelfBoxes ==
  ASSUME NEW f \in Folders
  PROVE  /\ Shelf!In(f) \subseteq Messages \X Folders
         /\ \A n \in Messages, h \in Folders :
              <<n, h>> \in Shelf!In(f) <=> h = f /\ f \in folders[n]
<1>1. Shelf!In(f) = {p \in Filed : p[2] = f}
  BY DEF Shelf!In, Filed
<1> QED
  BY <1>1, FiledPairs

LEMMA CopyRefines ==
  ASSUME IInv, NEW m \in Messages, NEW r \in Messages, m # r, r \in liveM,
         m \in liveM \/ liveM' = liveM \cup {m},
         m \in liveM => liveM' = liveM,
         contents' = [contents EXCEPT ![m] = contents[r]], liveF' = liveF,
         folders' = [folders EXCEPT ![m] = folders[r]]
  PROVE  Shelf!Copy(m, r)
<1>1. Text' = Shelf!With(m, contents[r]) /\ Text[r] = contents[r] /\ DOMAIN Text = liveM
  BY DEF IInv, Typed, Text, Shelf!With
<1>2. Filed' = (Filed \ Shelf!Of(m)) \cup Shelf!Like(m, r)
  <2> DEFINE B == (Filed \ Shelf!Of(m)) \cup Shelf!Like(m, r)
  <2>1. B \subseteq Messages \X Folders
    BY FiledPairs, ShelfSets
  <2>2. ASSUME NEW n \in Messages, NEW f \in Folders
        PROVE  <<n, f>> \in Filed' <=> <<n, f>> \in B
    <3>1. <<n, f>> \in B <=> IF n = m THEN f \in folders[r] ELSE f \in folders[n]
      BY FiledPairs, ShelfSets
    <3>2. f \in folders'[n] <=> IF n = m THEN f \in folders[r] ELSE f \in folders[n]
      BY DEF IInv, Mirror
    <3> QED
      BY <3>1, <3>2, FiledPairsNext
  <2> HIDE DEF B
  <2>3. Filed' = B
    BY <2>1, <2>2, FiledPairsNext, SameRelation
  <2> QED
    BY <2>3 DEF B
<1> QED
  BY <1>1, <1>2 DEF Shelf!Copy, Text, Filed

LEMMA MoveRefines ==
  ASSUME IInv, NEW m \in Messages, NEW r \in Messages, m # r, r \in liveM,
         m \in liveM \/ liveM' = liveM \cup {m},
         m \in liveM => liveM' = liveM,
         MovedText(m, r), liveF' = liveF,
         folders' = [folders EXCEPT ![m] = folders[r], ![r] = {}]
  PROVE  Shelf!Move(m, r)
<1>1. PICK t \in Texts : contents' = [contents EXCEPT ![m] = contents[r], ![r] = t]
  BY DEF MovedText
<1>3. /\ Text' = [Shelf!With(m, contents[r]) EXCEPT ![r] = t]
      /\ Text[r] = contents[r] /\ DOMAIN Text = liveM
  BY <1>1 DEF IInv, Typed, Text, Shelf!With
<1>2. Filed' = (Filed \ (Shelf!Of(m) \cup Shelf!Of(r))) \cup Shelf!Like(m, r)
  <2> DEFINE B == (Filed \ (Shelf!Of(m) \cup Shelf!Of(r))) \cup Shelf!Like(m, r)
  <2>1. B \subseteq Messages \X Folders
    BY FiledPairs, ShelfSets, ShelfBoxes
  <2>2. ASSUME NEW n \in Messages, NEW h \in Folders
        PROVE  <<n, h>> \in Filed' <=> <<n, h>> \in B
    <3>1. <<n, h>> \in B <=> IF n = m THEN h \in folders[r] ELSE n # r /\ h \in folders[n]
      BY FiledPairs, ShelfSets, ShelfBoxes
    <3>2. h \in folders'[n] <=> IF n = m THEN h \in folders[r] ELSE n # r /\ h \in folders[n]
      BY DEF IInv, Mirror
    <3> QED
      BY <3>1, <3>2, FiledPairsNext
  <2> HIDE DEF B
  <2>3. Filed' = B
    BY <2>1, <2>2, FiledPairsNext, SameRelation
  <2> QED
    BY <2>3 DEF B
<1> QED
  BY <1>2, <1>3 DEF Shelf!Move, Text, Filed

LEMMA SwapRefines ==
  ASSUME IInv, NEW m \in Messages, NEW r \in Messages, Swap(m, r)
  PROVE  Shelf!Exchange(m, r)
<1>1. /\ m \in liveM /\ r \in liveM /\ liveM' = liveM /\ liveF' = liveF
      /\ contents' = [contents EXCEPT ![m] = contents[r], ![r] = contents[m]]
      /\ folders' = [folders EXCEPT ![m] = folders[r], ![r] = folders[m]]
  BY Swaps DEF Swap
<1>3. /\ Text' = [Text EXCEPT ![m] = Text[r], ![r] = Text[m]]
      /\ DOMAIN Text = liveM
  BY <1>1 DEF IInv, Typed, Text
<1>2. Filed' = (Filed \ (Shelf!Of(m) \cup Shelf!Of(r)))
            \cup Shelf!Like(m, r) \cup Shelf!Like(r, m)
  <2> DEFINE B == (Filed \ (Shelf!Of(m) \cup Shelf!Of(r)))
            \cup Shelf!Like(m, r) \cup Shelf!Like(r, m)
  <2>1. B \subseteq Messages \X Folders
    BY FiledPairs, ShelfSets, ShelfBoxes
  <2>2. ASSUME NEW n \in Messages, NEW h \in Folders
        PROVE  <<n, h>> \in Filed' <=> <<n, h>> \in B
    <3>1. <<n, h>> \in B <=> IF n = m THEN h \in folders[r]
                                ELSE IF n = r THEN h \in folders[m] ELSE h \in folders[n]
      BY FiledPairs, ShelfSets, ShelfBoxes
    <3>2. h \in folders'[n] <=> IF n = m THEN h \in folders[r]
                                ELSE IF n = r THEN h \in folders[m] ELSE h \in folders[n]
      BY <1>1 DEF IInv, Mirror
    <3> QED
      BY <3>1, <3>2, FiledPairsNext
  <2> HIDE DEF B
  <2>3. Filed' = B
    BY <2>1, <2>2, FiledPairsNext, SameRelation
  <2> QED
    BY <2>3 DEF B
<1> QED
  BY <1>1, <1>2, <1>3 DEF Shelf!Exchange, Text, Filed

LEMMA DestroyRefines ==
  ASSUME IInv, NEW m \in Messages, Destroy(m)
  PROVE  Shelf!End(m)
<1>1. /\ m \in liveM /\ liveM' = liveM \ {m} /\ liveF' = liveF /\ contents' = contents
      /\ folders' = [folders EXCEPT ![m] = {}]
  BY Destroys DEF Destroy
<1>3. /\ Text' = [n \in liveM \ {m} |-> Text[n]] /\ DOMAIN Text = liveM
  BY <1>1 DEF IInv, Typed, Text
<1>2. Filed' = Filed \ Shelf!Of(m)
  <2> DEFINE B == Filed \ Shelf!Of(m)
  <2>1. B \subseteq Messages \X Folders
    BY FiledPairs, ShelfSets, ShelfBoxes
  <2>2. ASSUME NEW n \in Messages, NEW h \in Folders
        PROVE  <<n, h>> \in Filed' <=> <<n, h>> \in B
    <3>1. <<n, h>> \in B <=> n # m /\ h \in folders[n]
      BY FiledPairs, ShelfSets, ShelfBoxes
    <3>2. h \in folders'[n] <=> n # m /\ h \in folders[n]
      BY <1>1 DEF IInv, Mirror
    <3> QED
      BY <3>1, <3>2, FiledPairsNext
  <2> HIDE DEF B
  <2>3. Filed' = B
    BY <2>1, <2>2, FiledPairsNext, SameRelation
  <2> QED
    BY <2>3 DEF B
<1> QED
  BY <1>1, <1>2, <1>3 DEF Shelf!End, Text, Filed

(* The message's folders are emptied when it is assigned to itself.        *)
LEMMA AssignRefines ==
  ASSUME IInv, NEW m \in Messages, NEW r \in Messages, Assign(m, r)
  PROVE  Shelf!Copy(m, r)
<1>1. /\ m \in liveM /\ r \in liveM /\ liveM' = liveM /\ liveF' = liveF
      /\ contents' = [contents EXCEPT ![m] = contents[r]]
      /\ folders' = [folders EXCEPT ![m] = IF m = r THEN {} ELSE folders[r]]
  BY Assigns DEF Assign
<1>2. CASE m # r
  BY <1>1, <1>2, CopyRefines
<1>3. CASE m = r
  <2>1. /\ Text' = Shelf!With(m, Text[r]) /\ DOMAIN Text = liveM
        /\ folders' = [folders EXCEPT ![m] = {}]
    BY <1>1, <1>3 DEF IInv, Typed, Text, Shelf!With
  <2>2. ASSUME NEW n \in Messages, NEW h \in Folders
        PROVE  <<n, h>> \in Filed' <=> <<n, h>> \in Filed \ Shelf!Of(m)
    <3>1. <<n, h>> \in Filed \ Shelf!Of(m) <=> n # m /\ h \in folders[n]
      BY FiledPairs, ShelfSets
    <3>2. h \in folders'[n] <=> n # m /\ h \in folders[n]
      BY <2>1 DEF IInv, Mirror
    <3> QED
      BY <3>1, <3>2, FiledPairsNext
  <2>3. Filed' = Filed \ Shelf!Of(m)
    BY <2>2, FiledPairs, FiledPairsNext, SameRelation
  <2> QED
    BY <1>1, <1>3, <2>1, <2>3 DEF Shelf!Copy, Text, Filed
<1> QED
  BY <1>2, <1>3

(* A folder given its own content, or a copy of another's.                 *)
LEMMA AssignFolderRefines ==
  ASSUME IInv, NEW f \in Folders, NEW g \in Folders, g \in liveF,
         liveF' = liveF \cup {f}, liveM' = liveM, contents' = contents,
         \A n \in Messages, h \in Folders :
           h \in folders'[n] <=> (h # f /\ h \in folders[n])
                                   \/ (h = f /\ f # g /\ n \in msgs[g])
  PROVE  Shelf!CopyBox(f, g)
<1> DEFINE C == {<<p[1], f>> : p \in Shelf!In(g)}
<1>1. C \subseteq Messages \X Folders
  BY ShelfBoxes
<1>2. ASSUME NEW n \in Messages, NEW h \in Folders
      PROVE  <<n, h>> \in C <=> h = f /\ g \in folders[n]
  <2>1. ASSUME h = f, g \in folders[n] PROVE <<n, h>> \in C
    <3>1. <<n, g>> \in Shelf!In(g) /\ <<n, g>>[1] = n
      BY <2>1, ShelfBoxes
    <3> QED
      BY <2>1, <3>1
  <2>2. ASSUME <<n, h>> \in C PROVE h = f /\ g \in folders[n]
    <3>1. PICK p \in Shelf!In(g) : <<n, h>> = <<p[1], f>>
      BY <2>2
    <3>2. p \in Messages \X Folders /\ p[1] = n /\ h = f /\ p = <<p[1], p[2]>>
      BY <3>1, ShelfBoxes
    <3>3. <<n, p[2]>> \in Shelf!In(g)
      BY <3>1, <3>2
    <3> QED
      BY <3>2, <3>3, ShelfBoxes
  <2> QED
    BY <2>1, <2>2
<1> HIDE DEF C
<1>3. Text' = Text
  BY DEF Text
<1>4. CASE f # g
  <2>1. Filed' = (Filed \ Shelf!In(f)) \cup C
    <3> DEFINE B == (Filed \ Shelf!In(f)) \cup C
    <3>1. B \subseteq Messages \X Folders
      BY <1>1, <1>2, FiledPairs, ShelfBoxes
    <3>2. ASSUME NEW n \in Messages, NEW h \in Folders
          PROVE  <<n, h>> \in Filed' <=> <<n, h>> \in B
      <4>1. <<n, h>> \in B <=> IF h = f THEN g \in folders[n] ELSE h \in folders[n]
        BY <1>1, <1>2, FiledPairs, ShelfBoxes
      <4>2. h \in folders'[n] <=> IF h = f THEN g \in folders[n] ELSE h \in folders[n]
        BY <1>4 DEF IInv, Mirror
      <4> QED
        BY <4>1, <4>2, FiledPairsNext
    <3> HIDE DEF B
    <3>3. Filed' = B
      BY <3>1, <3>2, FiledPairsNext, SameRelation
    <3> QED
      BY <3>3 DEF B
  <2> QED
    BY <1>3, <1>4, <2>1 DEF Shelf!CopyBox, Text, Filed, C
<1>5. CASE f = g
  <2>1. Filed' = Filed \ Shelf!In(f)
    <3> DEFINE B == Filed \ Shelf!In(f)
    <3>1. B \subseteq Messages \X Folders
      BY FiledPairs, ShelfBoxes
    <3>2. ASSUME NEW n \in Messages, NEW h \in Folders
          PROVE  <<n, h>> \in Filed' <=> <<n, h>> \in B
      <4>1. <<n, h>> \in B <=> h # f /\ h \in folders[n]
        BY FiledPairs, ShelfBoxes
      <4>2. h \in folders'[n] <=> h # f /\ h \in folders[n]
        BY <1>5 DEF IInv, Mirror
      <4> QED
        BY <4>1, <4>2, FiledPairsNext
    <3> HIDE DEF B
    <3>3. Filed' = B
      BY <3>1, <3>2, FiledPairsNext, SameRelation
    <3> QED
      BY <3>3 DEF B
  <2>2. liveF' = liveF
    BY <1>5
  <2> QED
    BY <1>3, <1>5, <2>1, <2>2 DEF Shelf!CopyBox, Text, Filed
<1> QED
  BY <1>4, <1>5

LEMMA OnFoldersRefines ==
  ASSUME IInv, NEW f \in Folders, NEW g \in Folders, OnFolders(f, g)
  PROVE  Shelf!CopyBox(f, g) /\ Shelf!Did("CopyFolder", f, g)
<1>1. ASSUME CopyConstructFolder(f, g) PROVE Shelf!CopyBox(f, g)
  <2>1. /\ f \notin liveF /\ g \in liveF /\ liveF' = liveF \cup {f}
        /\ liveM' = liveM /\ contents' = contents
    BY <1>1 DEF CopyConstructFolder
  <2>2. \A n \in Messages, h \in Folders :
          h \in folders'[n] <=> h \in folders[n] \/ (h = f /\ n \in msgs[g])
    BY <1>1, CopiesFolder
  <2>3. f # g /\ \A n \in Messages : f \notin folders[n]
    BY <2>1 DEF IInv, Mirror
  <2>4. \A n \in Messages, h \in Folders :
          h \in folders'[n] <=> (h # f /\ h \in folders[n])
                                  \/ (h = f /\ f # g /\ n \in msgs[g])
    BY <2>2, <2>3
  <2> QED
    BY <2>1, <2>4, AssignFolderRefines
<1>2. ASSUME AssignFolder(f, g) PROVE Shelf!CopyBox(f, g)
  <2>1. /\ f \in liveF /\ g \in liveF /\ liveF' = liveF \cup {f}
        /\ liveM' = liveM /\ contents' = contents
    BY <1>2 DEF AssignFolder
  <2>2. \A n \in Messages, h \in Folders :
          h \in folders'[n] <=> (h # f /\ h \in folders[n])
                                  \/ (h = f /\ f # g /\ n \in msgs[g])
    BY <1>2, AssignsFolder
  <2> QED
    BY <2>1, <2>2, AssignFolderRefines
<1> QED
  BY <1>1, <1>2 DEF OnFolders, Did, Shelf!Did

LEMMA DestroyFolderRefines ==
  ASSUME IInv, NEW f \in Folders, DestroyFolder(f)
  PROVE  Shelf!EndBox(f)
<1>1. /\ f \in liveF /\ liveF' = liveF \ {f} /\ liveM' = liveM /\ contents' = contents
      /\ \A n \in Messages, h \in Folders : h \in folders'[n] <=> h \in folders[n] /\ h # f
  BY DestroysFolder DEF DestroyFolder
<1>2. Filed' = Filed \ Shelf!In(f)
  <2> DEFINE B == Filed \ Shelf!In(f)
  <2>1. B \subseteq Messages \X Folders
    BY FiledPairs, ShelfSets, ShelfBoxes
  <2>2. ASSUME NEW n \in Messages, NEW h \in Folders
        PROVE  <<n, h>> \in Filed' <=> <<n, h>> \in B
    <3>1. <<n, h>> \in B <=> h # f /\ h \in folders[n]
      BY FiledPairs, ShelfSets, ShelfBoxes
    <3>2. h \in folders'[n] <=> h # f /\ h \in folders[n]
      BY <1>1 DEF IInv, Mirror
    <3> QED
      BY <3>1, <3>2, FiledPairsNext
  <2> HIDE DEF B
  <2>3. Filed' = B
    BY <2>1, <2>2, FiledPairsNext, SameRelation
  <2> QED
    BY <2>3 DEF B
<1>3. Text' = Text
  BY <1>1 DEF Text
<1> QED
  BY <1>1, <1>2, <1>3 DEF Shelf!EndBox, Text, Filed

LEMMA SaveRefines ==
  ASSUME IInv, NEW m \in Messages, NEW f \in Folders, Save(m, f)
  PROVE  Shelf!File(m, f)
<1>1. /\ m \in liveM /\ f \in liveF /\ liveM' = liveM /\ liveF' = liveF
      /\ contents' = contents /\ folders' = [folders EXCEPT ![m] = folders[m] \cup {f}]
  BY Saves DEF Save
<1>2. Filed' = Filed \cup {<<m, f>>}
  <2> DEFINE B == Filed \cup {<<m, f>>}
  <2>1. B \subseteq Messages \X Folders
    BY FiledPairs
  <2>2. ASSUME NEW n \in Messages, NEW h \in Folders
        PROVE  <<n, h>> \in Filed' <=> <<n, h>> \in B
    <3>1. <<n, h>> \in B <=> h \in folders[n] \/ (n = m /\ h = f)
      BY FiledPairs
    <3>2. h \in folders'[n] <=> h \in folders[n] \/ (n = m /\ h = f)
      BY <1>1 DEF IInv, Mirror
    <3> QED
      BY <3>1, <3>2, FiledPairsNext
  <2> HIDE DEF B
  <2>3. Filed' = B
    BY <2>1, <2>2, FiledPairsNext, SameRelation
  <2> QED
    BY <2>3 DEF B
<1>3. Text' = Text /\ DOMAIN Text = liveM
  BY <1>1 DEF Text
<1> QED
  BY <1>1, <1>2, <1>3 DEF Shelf!File, Text, Filed

LEMMA RemoveRefines ==
  ASSUME IInv, NEW m \in Messages, NEW f \in Folders, Remove(m, f)
  PROVE  Shelf!Unfile(m, f)
<1>1. /\ m \in liveM /\ f \in liveF /\ liveM' = liveM /\ liveF' = liveF
      /\ contents' = contents /\ folders' = [folders EXCEPT ![m] = folders[m] \ {f}]
  BY Removes DEF Remove
<1>2. Filed' = Filed \ {<<m, f>>}
  <2> DEFINE B == Filed \ {<<m, f>>}
  <2>1. B \subseteq Messages \X Folders
    BY FiledPairs
  <2>2. ASSUME NEW n \in Messages, NEW h \in Folders
        PROVE  <<n, h>> \in Filed' <=> <<n, h>> \in B
    <3>1. <<n, h>> \in B <=> h \in folders[n] /\ ~(n = m /\ h = f)
      BY FiledPairs
    <3>2. h \in folders'[n] <=> h \in folders[n] /\ ~(n = m /\ h = f)
      BY <1>1 DEF IInv, Mirror
    <3> QED
      BY <3>1, <3>2, FiledPairsNext
  <2> HIDE DEF B
  <2>3. Filed' = B
    BY <2>1, <2>2, FiledPairsNext, SameRelation
  <2> QED
    BY <2>3 DEF B
<1>3. Text' = Text /\ DOMAIN Text = liveM
  BY <1>1 DEF Text
<1> QED
  BY <1>1, <1>2, <1>3 DEF Shelf!Unfile, Text, Filed

LEMMA OnMessagesRefines ==
  ASSUME IInv, NEW m \in Messages, NEW r \in Messages, OnMessages(m, r)
  PROVE  \/ Shelf!Copy(m, r) /\ Shelf!Did("Copy", m, r)
         \/ Shelf!Move(m, r) /\ Shelf!Did("Move", m, r)
         \/ Shelf!Exchange(m, r) /\ Shelf!Did("Swap", m, r)
<1>1. ASSUME CopyConstruct(m, r) PROVE Shelf!Copy(m, r)
  <2>1. /\ m \notin liveM /\ r \in liveM /\ m # r /\ liveM' = liveM \cup {m}
        /\ liveF' = liveF /\ contents' = [contents EXCEPT ![m] = contents[r]]
        /\ folders' = [folders EXCEPT ![m] = folders[r]]
    BY <1>1, CopyConstructs DEF CopyConstruct
  <2> QED
    BY <2>1, CopyRefines
<1>2. ASSUME Assign(m, r) PROVE Shelf!Copy(m, r)
  BY <1>2, AssignRefines
<1>3. ASSUME MoveConstruct(m, r) \/ MoveAssign(m, r) PROVE Shelf!Move(m, r)
  <2>1. CASE m # r
    <3>1. /\ r \in liveM /\ (m \in liveM \/ liveM' = liveM \cup {m})
          /\ (m \in liveM => liveM' = liveM) /\ MovedText(m, r) /\ liveF' = liveF
      BY <1>3, <2>1 DEF MoveConstruct, MoveAssign
    <3>2. folders' = [folders EXCEPT ![m] = folders[r], ![r] = {}]
      BY <1>3, <2>1, MovesConstruct, MovesAssign
    <3> QED
      BY <2>1, <3>1, <3>2, MoveRefines
  <2>2. CASE m = r
    <3>1. m \in liveM /\ UNCHANGED <<contents, folders, msgs, liveM, liveF>>
      BY <1>3, <2>2, MovesToItself DEF MoveConstruct, MoveAssign
    <3> QED
      BY <2>2, <3>1 DEF Shelf!Move, Text, Filed
  <2> QED
    BY <2>1, <2>2
<1>4. ASSUME Swap(m, r) PROVE Shelf!Exchange(m, r)
  BY <1>4, SwapRefines
<1> QED
  BY <1>1, <1>2, <1>3, <1>4 DEF OnMessages, Did, Shelf!Did

LEMMA ConstructRefines ==
  ASSUME IInv, NEW m \in Messages, Construct(m)
  PROVE  \E t \in Texts : Shelf!New(m, t)
<1>1. /\ m \notin liveM /\ liveM' = liveM \cup {m} /\ folders' = folders /\ liveF' = liveF
  BY DEF Construct
<1>2. PICK t \in Texts : contents' = [contents EXCEPT ![m] = t]
  BY DEF Construct
<1>3. Text' = Shelf!With(m, t) /\ DOMAIN Text = liveM
  BY <1>1, <1>2 DEF IInv, Typed, Text, Shelf!With
<1>4. Filed' = Filed
  BY <1>1 DEF Filed
<1> QED
  BY <1>1, <1>3, <1>4 DEF Shelf!New, Text, Filed

(* For any messages, folders and texts, the two sides of pointers implement*)
(* Filing, call by call: each does to the relation what its own name says  *)
(* and leaves other objects alone.  A copy assigned to its own original    *)
(* empties it, a move or a swap with itself changes nothing.               *)
THEOREM FoldersAreFiling == Spec => OneRelation
<1>1. Init => Shelf!Init
  <2> SUFFICES ASSUME Init PROVE Shelf!Init
    OBVIOUS
  <2>1. /\ liveM = {} /\ liveF = {} /\ \A m \in Messages : folders[m] = {}
        /\ op = [name |-> "none", odd |-> FALSE]
    BY DEF Init
  <2>2. Filed = {} /\ Text = [m \in {} |-> CHOOSE t \in Texts : TRUE]
    BY <2>1 DEF Filed, Text
  <2> QED
    BY <2>1, <2>2 DEF Shelf!Init, Filed, Text
<1>2. IInv /\ [Next]_vars => [Shelf!Next]_(Shelf!vars)
  <2> SUFFICES ASSUME IInv, [Next]_vars PROVE Shelf!Next \/ UNCHANGED Shelf!vars
    OBVIOUS
  <2>1. ASSUME NEW m \in Messages, OnMessage(m) PROVE Shelf!Next
    <3>1. CASE Construct(m) /\ Did("Construct", m, m)
      <4>1. (\E t \in Texts : Shelf!New(m, t)) /\ Shelf!Did("Construct", m, m)
        BY <3>1, ConstructRefines DEF Did, Shelf!Did
      <4> QED
        BY <4>1 DEF Shelf!Next
    <3>2. CASE Destroy(m) /\ Did("Destroy", m, m)
      <4>1. Shelf!End(m) /\ Shelf!Did("Destroy", m, m)
        BY <3>2, DestroyRefines DEF Did, Shelf!Did
      <4> QED
        BY <4>1 DEF Shelf!Next
    <3> QED
      BY <2>1, <3>1, <3>2 DEF OnMessage
  <2>2. ASSUME NEW m \in Messages, NEW r \in Messages, OnMessages(m, r)
        PROVE  Shelf!Next
    BY <2>2, OnMessagesRefines DEF Shelf!Next
  <2>3. ASSUME NEW f \in Folders, OnFolder(f) PROVE Shelf!Next
    <3>1. CASE ConstructFolder(f) /\ Did("ConstructFolder", f, f)
      <4>1. Shelf!NewBox(f) /\ Shelf!Did("ConstructFolder", f, f)
        BY <3>1 DEF ConstructFolder, Shelf!NewBox, Did, Shelf!Did
      <4> QED
        BY <4>1 DEF Shelf!Next
    <3>2. CASE DestroyFolder(f) /\ Did("DestroyFolder", f, f)
      <4>1. Shelf!EndBox(f) /\ Shelf!Did("DestroyFolder", f, f)
        BY <3>2, DestroyFolderRefines DEF Did, Shelf!Did
      <4> QED
        BY <4>1 DEF Shelf!Next
    <3> QED
      BY <2>3, <3>1, <3>2 DEF OnFolder
  <2>4. ASSUME NEW f \in Folders, NEW g \in Folders, OnFolders(f, g) PROVE Shelf!Next
    BY <2>4, OnFoldersRefines DEF Shelf!Next
  <2>5. ASSUME NEW m \in Messages, NEW f \in Folders, OnBoth(m, f) PROVE Shelf!Next
    <3>1. CASE Save(m, f) /\ Did("Save", m, f)
      <4>1. Shelf!File(m, f) /\ Shelf!Did("Save", m, f)
        BY <3>1, SaveRefines DEF Did, Shelf!Did
      <4> QED
        BY <4>1 DEF Shelf!Next
    <3>2. CASE Remove(m, f) /\ Did("Remove", m, f)
      <4>1. Shelf!Unfile(m, f) /\ Shelf!Did("Remove", m, f)
        BY <3>2, RemoveRefines DEF Did, Shelf!Did
      <4> QED
        BY <4>1 DEF Shelf!Next
    <3> QED
      BY <2>5, <3>1, <3>2 DEF OnBoth
  <2>6. CASE UNCHANGED vars
    BY <2>6 DEF vars, Shelf!vars
  <2> QED
    BY <2>1, <2>2, <2>3, <2>4, <2>5, <2>6 DEF Next
<1> QED
  BY <1>1, <1>2, InitInv, NextInv, PTL DEF Spec, OneRelation, Shelf!Spec
=============================================================================
