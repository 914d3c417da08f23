----------------------------- MODULE MCStartup -----------------------------
(* Servers that are alike but for their path, whose users type passwords   *)
(* that are alike.                                                         *)
EXTENDS Startup, TLC

Symmetry == Permutations(Servers \ Bare) \cup Permutations(Passwords)
=============================================================================
