------------------------- MODULE MCConnectionPool -------------------------
(***************************************************************************)
(* Instances of ConnectionPool for TLC.  The sets are model values, hence  *)
(* interchangeable.                                                        *)
(***************************************************************************)
EXTENDS ConnectionPool, TLC

Symmetry ==
    Permutations(Conn) \cup Permutations(Session) \cup Permutations(User)
    \cup Permutations(Doc) \cup Permutations(Handler)
=============================================================================
