---------------------------- MODULE WebhookOutbox ----------------------------
(* What the webhook component promises of a delivery once its row exists:    *)
(* it is delivered only after the receiver has accepted it, it is sent to    *)
(* nobody once it is delivered or given up, and it does not stay pending.    *)
(* Acceptances may repeat: the promise is at-least-once.                     *)
CONSTANT Deliveries

VARIABLES state,    \* none, pending, delivered, failed or removed
          accepted  \* how the receiver answered: accepted at least once

vars == <<state, accepted>>

Init ==
  /\ state = [d \in Deliveries |-> "none"]
  /\ accepted = {}

Enqueue(d) ==
  /\ state[d] = "none"
  /\ state' = [state EXCEPT ![d] = "pending"]
  /\ UNCHANGED accepted

\* A removed delivery may be on its way already.
Accept(d) ==
  /\ state[d] \in {"pending", "removed"}
  /\ accepted' = accepted \cup {d}
  /\ UNCHANGED state

Deliver(d) ==
  /\ state[d] = "pending"
  /\ d \in accepted
  /\ state' = [state EXCEPT ![d] = "delivered"]
  /\ UNCHANGED accepted

GiveUp(d) ==
  /\ state[d] = "pending"
  /\ state' = [state EXCEPT ![d] = "failed"]
  /\ UNCHANGED accepted

\* The endpoint is deleted, or finished rows are pruned: several rows go at once.
Remove(S) ==
  /\ S # {}
  /\ \A d \in S : state[d] \in {"pending", "delivered", "failed"}
  /\ state' = [d \in Deliveries |-> IF d \in S THEN "removed" ELSE state[d]]
  /\ UNCHANGED accepted

Next ==
  \/ \E d \in Deliveries : Enqueue(d) \/ Accept(d) \/ Deliver(d) \/ GiveUp(d)
  \/ \E S \in SUBSET Deliveries : Remove(S)

Resolved(d) == state[d] # "pending"

Safety == Init /\ [][Next]_vars

Spec ==
  /\ Safety
  /\ \A d \in Deliveries : ~Resolved(d) ~> Resolved(d)
=============================================================================
