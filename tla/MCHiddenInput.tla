--------------------------- MODULE MCHiddenInput ---------------------------
(* A program with one prompt and one that asks twice, as the server does   *)
(* for a new vault.                                                        *)
EXTENDS HiddenInput

CONSTANTS ctl, server

MCRounds == [p \in Programs |-> IF p = server THEN 2 ELSE 1]
=============================================================================
