------------------------------ MODULE Delivery ------------------------------
(***************************************************************************)
(* What the transactional outbox promises: an intent that was committed is *)
(* delivered at least once and then settled for good, and nothing is       *)
(* delivered or settled that was not committed.  Order is not promised.    *)
(***************************************************************************)
CONSTANT Messages

VARIABLES
    committed,  \* intents whose resource transaction has committed
    delivered,  \* intents the workflow service has received
    settled     \* intents nobody will deliver again on purpose

vars == <<committed, delivered, settled>>

Init == committed = {} /\ delivered = {} /\ settled = {}

Commit(m) ==
    /\ committed' = committed \cup {m}
    /\ UNCHANGED <<delivered, settled>>

Deliver(m) ==
    /\ m \in committed
    /\ delivered' = delivered \cup {m}
    /\ UNCHANGED <<committed, settled>>

Settle(m) ==
    /\ m \in delivered
    /\ settled' = settled \cup {m}
    /\ UNCHANGED <<committed, delivered>>

Next == \E m \in Messages : Commit(m) \/ Deliver(m) \/ Settle(m)

Spec == Init /\ [][Next]_vars

FairSpec ==
    Spec /\ \A m \in Messages : WF_vars(Deliver(m)) /\ WF_vars(Settle(m))
=============================================================================
