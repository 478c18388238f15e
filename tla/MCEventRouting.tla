--------------------------- MODULE MCEventRouting ---------------------------
(***************************************************************************)
(* Instances of EventRouting for TLC.  The sets are model values, hence    *)
(* interchangeable.                                                        *)
(***************************************************************************)
EXTENDS EventRouting, TLC

Symmetry ==
    Permutations(Conn) \cup Permutations(Session) \cup Permutations(User)
    \cup Permutations(Doc) \cup Permutations(Handler) \cup Permutations(Event)
=============================================================================
