----------------------------- MODULE MCEndpoint -----------------------------
(* Two servers of one vault on the first socket path; three servers of two  *)
(* vaults, s3 and s4 of one and s5 of another, on the second.               *)
EXTENDS Endpoint

CONSTANTS s1, s2, s3, s4, s5, v1, v2, v3, e1, e2

MCVaults    == [s \in Servers |-> IF s \in {s1, s2} THEN v1
                                  ELSE IF s \in {s3, s4} THEN v2 ELSE v3]
MCEndpoints == [s \in Servers |-> IF s \in {s1, s2} THEN e1 ELSE e2]
=============================================================================
