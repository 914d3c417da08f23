---------------------------- MODULE MCVaultStore ----------------------------
(* Two processes, three identifiers of which two may be present, two values *)
(* of different sizes and a file that is one byte too small for two of the  *)
(* larger value.                                                            *)
EXTENDS VaultStore, FiniteSetsExt, TLC

CONSTANTS small, large

ValueSize == small :> 1 @@ large :> 2
MCPlaintextSize ==
    [m \in Maps |-> MapThenSumSet(LAMBDA i : ValueSize[m[i]], Present(m))]
=============================================================================
