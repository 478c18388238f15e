----------------------------- MODULE TextBuffer -----------------------------
(***************************************************************************)
(* What the editor component promises of its two editing calls, as its     *)
(* tests use them: a text in which a call inserts or deletes the character *)
(* at the position it names, and no other.                                 *)
(***************************************************************************)
EXTENDS Naturals, Sequences, SequencesExt

CONSTANT Char
VARIABLES
    text,   \* what printString() returns
    call    \* the last call and its arguments

Init == text = <<>> /\ call = [op |-> "none"]

InsertChar(position, char) ==
    /\ call' = [op |-> "insert", position |-> position, char |-> char]
    /\ text' = InsertAt(text, position + 1, char)

\* The position after the last character holds nothing to delete.
DeleteChar(position) ==
    /\ call' = [op |-> "delete", position |-> position]
    /\ text' = IF position < Len(text) THEN RemoveAt(text, position + 1)
               ELSE text

Next ==
    \E position \in 0..Len(text) :
        (\E char \in Char : InsertChar(position, char)) \/ DeleteChar(position)

Spec == Init /\ [][Next]_<<text, call>>
=============================================================================
