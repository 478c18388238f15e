----------------------------- MODULE MCHomeFiles -----------------------------
(***************************************************************************)
(* Instances of FileStore and HomeFiles for TLC.  Users, files and         *)
(* requests are model values that nothing tells apart.                     *)
(***************************************************************************)
EXTENDS HomeFiles, TLC

Symmetry ==
    Permutations(User) \cup Permutations(File) \cup Permutations(Request)
=============================================================================
