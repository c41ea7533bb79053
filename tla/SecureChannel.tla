--------------------------- MODULE SecureChannel ---------------------------
(***************************************************************************)
(* What the messenger promises its users, whatever becomes of the messages *)
(* on their way: a terminal shows a text only to the user it was written   *)
(* for, only if the user named as its author wrote it, and once.  Texts    *)
(* may get lost and may be shown in any order.                             *)
(***************************************************************************)
EXTENDS Sequences, Naturals

CONSTANTS User,        \* usernames
          MaxTexts     \* texts a user writes, the bound of the model

VARIABLES written,     \* the texts that were sealed for their addressee
          shown        \* what the terminal of each user has shown

Text == [from : User, to : User, no : 0 .. MaxTexts - 1]

Shown(p) == {shown[p][i] : i \in DOMAIN shown[p]}

Init == /\ written = {}
        /\ shown = [p \in User |-> << >>]

Write == \E t \in Text \ written :
            /\ written' = written \cup {t}
            /\ UNCHANGED shown

Show == \E t \in written :
            /\ t \notin Shown(t.to)
            /\ shown' = [shown EXCEPT ![t.to] = Append(@, t)]
            /\ UNCHANGED written

Next == Write \/ Show

Spec == Init /\ [][Next]_<<written, shown>>
=============================================================================
