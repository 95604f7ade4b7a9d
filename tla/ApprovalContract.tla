--------------------------- MODULE ApprovalContract ---------------------------
(* What the approvals of the platform promise, whatever serves them: a request
   is decided once, and what it asks for is done at most once and only after it
   was approved. *)
EXTENDS Naturals

CONSTANT Requests
VARIABLES
  decision,   \* "none" before the request is made
  performed   \* how often its effect was started

Init == /\ decision = [r \in Requests |-> "none"]
        /\ performed = [r \in Requests |-> 0]

Ask(r) == /\ decision[r] = "none"
          /\ decision' = [decision EXCEPT ![r] = "pending"]
          /\ UNCHANGED performed

Decide(r) == /\ decision[r] = "pending"
             /\ \E d \in {"approved", "rejected"} : decision' = [decision EXCEPT ![r] = d]
             /\ UNCHANGED performed

Perform(r) == /\ decision[r] = "approved" /\ performed[r] = 0
              /\ performed' = [performed EXCEPT ![r] = 1]
              /\ UNCHANGED decision

Next == \E r \in Requests : Ask(r) \/ Decide(r) \/ Perform(r)

Spec == Init /\ [][Next]_<<decision, performed>>
=============================================================================
