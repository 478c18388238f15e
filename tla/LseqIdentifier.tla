--------------------------- MODULE LseqIdentifier ---------------------------
(***************************************************************************)
(* Identifiers of the LSEQ sequence (collaboration/CRDT/LseqIdentifier and *)
(* RopeTree/Sentinel): a path of digits and a client, with the order that  *)
(* places every character of a document.                                   *)
(***************************************************************************)
EXTENDS Integers, Sequences

CONSTANT EndDigit   \* the digit of SENT_END (10000000 in the code)

ASSUME EndAssumption == EndDigit \in Nat /\ EndDigit >= 2

ClientId == {"client-id", "sentinel-start", "sentinel-end"}
Identifier == [path : Seq(Nat), clientId : ClientId]

SENT_START == [path |-> <<0>>, clientId |-> "sentinel-start"]
SENT_END == [path |-> <<EndDigit>>, clientId |-> "sentinel-end"]

\* The digits agree up to the i-th, where p has ended or has the lesser one.
FirstDifference(p, q, i) ==
    /\ \A j \in 1..(i-1) : j \in DOMAIN p /\ p[j] = q[j]
    /\ i \in DOMAIN p => p[i] < q[i]
PathLess(p, q) == \E i \in DOMAIN q : FirstDifference(p, q, i)

\* The order of localeCompare on the client names.
LocaleRank ==
    [c \in ClientId |-> CASE c = "client-id" -> 1
                          [] c = "sentinel-end" -> 2
                          [] c = "sentinel-start" -> 3]

\* a.compare(b) < 0; a.compare(b) = 0 is a = b.
Less(a, b) ==
    \/ PathLess(a.path, b.path)
    \/ a.path = b.path /\ LocaleRank[a.clientId] < LocaleRank[b.clientId]
=============================================================================
