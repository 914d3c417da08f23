----------------------------- MODULE DurableMap -----------------------------
(***************************************************************************)
(* What a vault promises whoever opens it next, whatever the machine did   *)
(* in between.  There is one map from identifiers to values, and a copy of *)
(* it that has reached the disk.  A caller changes one identifier at a     *)
(* time; the copy catches up as a whole; a power failure goes back to the  *)
(* copy, never to a mixture of the two.                                    *)
(***************************************************************************)
CONSTANTS Ids,        \* secret identifiers
          Values,     \* secret values
          NoSecret,   \* marks an identifier that has no value
          NoVault     \* the vault file does not exist

VARIABLES current,    \* the map an opener reads now
          stable      \* the map an opener reads after a power failure

vars == <<current, stable>>

Maps == [Ids -> Values \cup {NoSecret}]

Init == /\ current \in Maps \cup {NoVault}
        /\ stable = current

(* A new vault is empty. *)
Create == /\ current = NoVault
          /\ current' = [i \in Ids |-> NoSecret]
          /\ UNCHANGED stable

(* Storing v under i; v = NoSecret removes i. *)
Write(i, v) == /\ current # NoVault
               /\ current' = [current EXCEPT ![i] = v]
               /\ UNCHANGED stable

Flush == /\ stable' = current
         /\ UNCHANGED current

Lose == /\ current' = stable
        /\ UNCHANGED stable

Next == \/ Create
        \/ \E i \in Ids, v \in Values \cup {NoSecret} : Write(i, v)
        \/ Flush
        \/ Lose

Spec == Init /\ [][Next]_vars
=============================================================================
