--------------------------- MODULE MCVaultService ---------------------------
(* "Contract": c1 stores, removes and locks, c2 reads; of two identifiers   *)
(* that are alike one may be present at a time.  "Live": one client      *)
(* pings, the other lists.                                                  *)
EXTENDS VaultService, TLC

CONSTANTS a, b, c1, c2

OneWriter == [i \in Ids |-> c1]
Roles == c1 :> {"put", "remove", "lock"} @@ c2 :> {"get"}
Looks == c1 :> {"ping"} @@ c2 :> {"list"}
Symmetry == Permutations(Ids)
=============================================================================
