----------------------------- MODULE LineEditor -----------------------------
(***************************************************************************)
(* What the user of a line editor sees: the text left and right of the     *)
(* cursor, and the lines that can be recalled.                             *)
(***************************************************************************)
EXTENDS Naturals, Sequences

CONSTANTS Room, Letters

VARIABLES before, after, kept

editorVars == <<before, after, kept>>

InsertAt(c) ==
    /\ Len(before) + Len(after) < Room
    /\ before' = Append(before, c) /\ UNCHANGED <<after, kept>>
EraseLeft ==
    /\ before # <<>> /\ before' = SubSeq(before, 1, Len(before) - 1)
    /\ UNCHANGED <<after, kept>>
EraseRight ==
    /\ after # <<>> /\ after' = Tail(after)
    /\ UNCHANGED <<before, kept>>
Move == before' \o after' = before \o after /\ UNCHANGED kept
Recall ==
    /\ \E i \in DOMAIN kept : before' = kept[i]
    /\ after' = <<>> /\ UNCHANGED kept
Clear == before' = <<>> /\ after' = <<>> /\ UNCHANGED kept
\* A line entered is the first to be recalled; older ones may be forgotten.
Enter ==
    /\ before' = <<>> /\ after' = <<>>
    /\ \/ kept # <<>> /\ Head(kept) = before \o after /\ UNCHANGED kept
       \/ \E n \in 0..Len(kept) : kept' = <<before \o after>> \o SubSeq(kept, 1, n)

EditorInit == before = <<>> /\ after = <<>> /\ kept = <<>>
EditorNext ==
    \/ Move \/ EraseLeft \/ EraseRight \/ Recall \/ Clear \/ Enter
    \/ \E c \in Letters : InsertAt(c)
EditorSpec == EditorInit /\ [][EditorNext]_editorVars
=============================================================================
