------------------------------ MODULE Exchange ------------------------------
(***************************************************************************)
(* What one connection promises its client: every call is carried out at   *)
(* most once and none before it is made, a call returns with an answer     *)
(* only after it has been carried out, and a handle that has failed makes  *)
(* no more calls - though the last one may still be carried out.           *)
(***************************************************************************)
EXTENDS Naturals

VARIABLES handle,     \* "idle", "calling" or "failed"
          calls,      \* calls made so far
          pending,    \* the call that may still be carried out, or 0
          executed    \* the call that was carried out last, or 0

vars == <<handle, calls, pending, executed>>

Init == handle = "idle" /\ calls = 0 /\ pending = 0 /\ executed = 0

Call == /\ handle = "idle"
        /\ calls' = calls + 1
        /\ \/ handle' = "calling" /\ pending' = calls + 1
           \/ UNCHANGED <<handle, pending>>    \* nothing can be sent
        /\ UNCHANGED executed

Execute == /\ pending # 0
           /\ executed' = pending
           /\ pending' = 0
           /\ UNCHANGED <<handle, calls>>

Answer == /\ handle = "calling"
          /\ executed = calls
          /\ handle' = "idle"
          /\ UNCHANGED <<calls, pending, executed>>

Fail == /\ handle # "failed"
        /\ handle' = "failed"
        /\ UNCHANGED <<calls, pending, executed>>

Next == Call \/ Execute \/ Answer \/ Fail

Spec == Init /\ [][Next]_vars
=============================================================================
