----------------------------- MODULE FetchService -----------------------------
(***************************************************************************)
(* What the HTTP client promises the rest of the driver (Client.h): a      *)
(* request that is accepted has exactly one outcome, the server's answer   *)
(* to that very request or a failure, and it always has one in the end.    *)
(***************************************************************************)
CONSTANT Requests

VARIABLE outcome

Init == outcome = [r \in Requests |-> "none"]

Accept(r) ==
  /\ outcome[r] = "none"
  /\ outcome' = [outcome EXCEPT ![r] = "pending"]

Refuse(r) ==
  /\ outcome[r] = "none"
  /\ outcome' = [outcome EXCEPT ![r] = "refused"]

Deliver(r) ==
  /\ outcome[r] = "pending"
  /\ outcome' = [outcome EXCEPT ![r] = "own"]

Fail(r) ==
  /\ outcome[r] = "pending"
  /\ outcome' = [outcome EXCEPT ![r] = "failed"]

Next == \E r \in Requests : Accept(r) \/ Refuse(r) \/ Deliver(r) \/ Fail(r)

Spec == Init /\ [][Next]_outcome /\ \A r \in Requests : WF_outcome(Deliver(r) \/ Fail(r))
=============================================================================
