----------------------------- MODULE MCSessions -----------------------------
(* Model-checking instance of Sessions.  Requests, passwords and agents are *)
(* interchangeable.                                                         *)
EXTENDS Sessions, TLC

Symmetry ==
    Permutations(Request) \cup Permutations(Password) \cup Permutations(Agent)
=============================================================================
