----------------------------- MODULE SessionList -----------------------------
(***************************************************************************)
(* The lists of session identifiers that userIndex and docSessions keep    *)
(* (src/backEnd/internal/app/websocket/localPoolAction.go): a session is   *)
(* appended when a connection registers, once more for every connection of *)
(* the tab, and the first occurrence of it is left out again.              *)
(***************************************************************************)
EXTENDS Naturals, FiniteSets, Sequences, SequencesExt

\* searchIndex: where `session` first occurs in `list`, from 1; 0 for its -1.
searchIndex(session, list) ==
    LET first == {i \in DOMAIN list :
                    /\ list[i] = session
                    /\ \A j \in 1..(i-1) : list[j] # session}
    IN  IF first = {} THEN 0 ELSE CHOOSE i \in first : TRUE

\* An index off by one.
SkipsSession(list, session) == RemoveAt(list, searchIndex(session, list) + 1)

\* newSessions of deleteUserIndex and DeleteSessionInDoc: the first occurrence
\* is left out (an empty list stands for a deleted key).
WithoutSession(list, session) ==
    LET idx == searchIndex(session, list)
    IN  IF idx = 0 THEN list ELSE RemoveAt(list, idx)

\* How often a session is in a list.
Occurrences(s, list) == Cardinality({i \in DOMAIN list : list[i] = s})
=============================================================================
