------------------------------- MODULE Filing -------------------------------
(***************************************************************************)
(* What Message and Folder promise together (CppPrimerExercise): messages  *)
(* with a text, folders, and one relation that says which is in which.     *)
(* Every step is one call, whose name op tells.  A copy of a message is in *)
(* the folders the original is in, a moved message takes the other's place,*)
(* and what ends is in no folder.                                          *)
(***************************************************************************)
CONSTANTS Messages, Folders, Texts

VARIABLES text,    \* the text of each message there is
          boxes,   \* the folders there are
          filed,   \* which message is in which folder
          op       \* the call made last: its name and its objects

vars == <<text, boxes, filed, op>>

Of(m) == {p \in filed : p[1] = m}
In(f) == {p \in filed : p[2] = f}
Like(m, r) == {<<m, p[2]>> : p \in Of(r)}

Init == /\ text = [m \in {} |-> CHOOSE t \in Texts : TRUE] /\ boxes = {} /\ filed = {}
        /\ op = [name |-> "none", odd |-> FALSE]

Did(name, a, b) == op' = [name |-> name, on |-> a, with |-> b, odd |-> ~op.odd]

(* m has the text and the folders of r, or loses them to r's successor.    *)
With(m, t) == [n \in DOMAIN text \cup {m} |-> IF n = m THEN t ELSE text[n]]

New(m, t) == m \notin DOMAIN text /\ text' = With(m, t) /\ UNCHANGED <<boxes, filed>>

(* A message that is given its own content is in no folder any more.       *)
Copy(m, r) == /\ r \in DOMAIN text
              /\ text' = With(m, text[r])
              /\ filed' = (filed \ Of(m)) \cup (IF m = r THEN {} ELSE Like(m, r))
              /\ UNCHANGED boxes

Move(m, r) == /\ r \in DOMAIN text
              /\ \/ m = r /\ UNCHANGED <<text, filed>>
                 \/ /\ m # r
                    /\ \E t \in Texts :
                         text' = [With(m, text[r]) EXCEPT ![r] = t]
                    /\ filed' = (filed \ (Of(m) \cup Of(r))) \cup Like(m, r)
              /\ UNCHANGED boxes

Exchange(m, r) == /\ {m, r} \subseteq DOMAIN text
                  /\ text' = [text EXCEPT ![m] = text[r], ![r] = text[m]]
                  /\ filed' = (filed \ (Of(m) \cup Of(r))) \cup Like(m, r) \cup Like(r, m)
                  /\ UNCHANGED boxes

End(m) == /\ m \in DOMAIN text
          /\ text' = [n \in DOMAIN text \ {m} |-> text[n]]
          /\ filed' = filed \ Of(m)
          /\ UNCHANGED boxes

NewBox(f) == f \notin boxes /\ boxes' = boxes \cup {f} /\ UNCHANGED <<text, filed>>

(* A folder that is given its own content holds no message any more.       *)
CopyBox(f, g) ==
  /\ g \in boxes
  /\ boxes' = boxes \cup {f}
  /\ filed' = (filed \ In(f)) \cup (IF f = g THEN {} ELSE {<<p[1], f>> : p \in In(g)})
  /\ UNCHANGED text

EndBox(f) == /\ f \in boxes /\ boxes' = boxes \ {f}
             /\ filed' = filed \ In(f)
             /\ UNCHANGED text

File(m, f) == /\ m \in DOMAIN text /\ f \in boxes
              /\ filed' = filed \cup {<<m, f>>}
              /\ UNCHANGED <<text, boxes>>

Unfile(m, f) == /\ m \in DOMAIN text /\ f \in boxes
                /\ filed' = filed \ {<<m, f>>}
                /\ UNCHANGED <<text, boxes>>

Next ==
  \/ \E m \in Messages :
       \/ (\E t \in Texts : New(m, t)) /\ Did("Construct", m, m)
       \/ End(m) /\ Did("Destroy", m, m)
       \/ \E r \in Messages : \/ Copy(m, r) /\ Did("Copy", m, r)
                              \/ Move(m, r) /\ Did("Move", m, r)
                              \/ Exchange(m, r) /\ Did("Swap", m, r)
  \/ \E f \in Folders :
       \/ NewBox(f) /\ Did("ConstructFolder", f, f)
       \/ EndBox(f) /\ Did("DestroyFolder", f, f)
       \/ \E g \in Folders : CopyBox(f, g) /\ Did("CopyFolder", f, g)
       \/ \E m \in Messages : \/ File(m, f) /\ Did("Save", m, f)
                              \/ Unfile(m, f) /\ Did("Remove", m, f)

Spec == Init /\ [][Next]_vars
=============================================================================
