------------------------------- MODULE Outbox -------------------------------
(***************************************************************************)
(* TransactionalOutbox (services/jobs.py) and the loop that drives it      *)
(* (worker/dispatcher_cli.py): dispatcher processes lease committed        *)
(* intents, publish them to the workflow service and mark them.            *)
(*                                                                         *)
(* A claim is a query for candidates and, later, one guarded UPDATE per    *)
(* candidate; the updated rows stay locked to the commit, so the updates   *)
(* of one claim are one step.  Publishing is an external call between two  *)
(* transactions.                                                           *)
(***************************************************************************)
EXTENDS Integers, Sequences, FiniteSets

CONSTANTS
    MessageCount,  \* intents, numbered in the order (created_at, id)
    Dispatchers,   \* dispatcher processes
    DispatcherId,  \* their worker_id; not necessarily distinct
    BatchSize,     \* dispatcher_batch_size
    MaxTrouble,    \* bound: crashes, failed publications and slow batches
    Nobody         \* NULL

ASSUME OutboxAssumption ==
    /\ MessageCount \in Nat /\ BatchSize \in Nat \ {0} /\ MaxTrouble \in Nat
    /\ DOMAIN DispatcherId = Dispatchers
    /\ \A d \in Dispatchers : DispatcherId[d] # Nobody

Messages == 1..MessageCount

VARIABLES
    row,        \* OutboxMessage.state, "absent" before the insert commits
    claimedBy,  \* OutboxMessage.claimed_by
    lease,      \* whether claimed_at + lease_seconds is behind the clock
    due,        \* intents with available_at <= now
    attempts,   \* OutboxMessage.attempts
    candidates, \* ids a claim has selected but not updated yet
    overdue,    \* the expired claims at the time of that selection
    batch,      \* messages a dispatcher has claimed and not dealt with
    sent,       \* outcome of publishing Head(batch): none, ok or failed
    delivered,  \* intents that reached the workflow service
    setbacks,   \* history: failed publications and expired leases of an intent
    trouble     \* history: what counts against MaxTrouble

rows == <<row, claimedBy, lease, due, attempts>>
locals == <<candidates, overdue, batch, sent>>
vars == <<rows, locals, delivered, setbacks, trouble>>

-----------------------------------------------------------------------------
Init ==
    /\ row = [m \in Messages |-> "absent"]
    /\ claimedBy = [m \in Messages |-> Nobody]
    /\ lease = [m \in Messages |-> "none"]
    /\ due = {}
    /\ attempts = [m \in Messages |-> 0]
    /\ candidates = [d \in Dispatchers |-> {}]
    /\ overdue = [d \in Dispatchers |-> {}]
    /\ batch = [d \in Dispatchers |-> <<>>]
    /\ sent = [d \in Dispatchers |-> "none"]
    /\ delivered = {}
    /\ setbacks = [m \in Messages |-> 0]
    /\ trouble = 0

(* Bound: mishaps happen at most MaxTrouble times. *)
Mishap == trouble < MaxTrouble /\ trouble' = trouble + 1

(* A submission or a cancellation commits its intent. *)
Commit(m) ==
    /\ row[m] = "absent"
    /\ row' = [row EXCEPT ![m] = "pending"]
    /\ due' = due \cup {m}
    /\ UNCHANGED <<claimedBy, lease, attempts, locals, delivered, setbacks, trouble>>

(* Mutant: a claim whose dispatcher died is never taken over. *)
Claimable_PendingOnly(m) == row[m] = "pending"

(* Not processed and PENDING, or CLAIMED with an expired lease *)
Claimable(m) ==
    row[m] = "pending" \/ (row[m] = "claimed" /\ lease[m] = "expired")

(* The WHERE clause of the UPDATE; available_at is not in it.  It compares *)
(* claimed_at with the cutoff of the query, so a claim counts as expired   *)
(* only if it was then.                                                    *)
StillClaimable(d, m) ==
    row[m] = "pending" \/ (row[m] = "claimed" /\ <<m, attempts[m]>> \in overdue[d])

Oldest(S, n) == {m \in S : Cardinality({k \in S : k < m}) < n}

(* claim: the candidate query *)
Select(d) ==
    /\ batch[d] = <<>> /\ candidates[d] = {}
    /\ candidates' = [candidates EXCEPT ![d] =
           Oldest({m \in due : Claimable(m)}, BatchSize)]
    /\ candidates'[d] # {}
    /\ overdue' = [overdue EXCEPT ![d] =
           {<<m, attempts[m]>> : m \in {k \in candidates'[d] : row[k] = "claimed"}}]
    /\ UNCHANGED <<rows, batch, sent, delivered, setbacks, trouble>>

(* ORDER BY created_at, id *)
InOrder(S) == {s \in [1..Cardinality(S) -> S] :
                   \A i, j \in 1..Cardinality(S) : i < j => s[i] < s[j]}

(* claim: one guarded UPDATE per candidate, and the commit *)
Claim(d) ==
    LET won == {m \in candidates[d] : StillClaimable(d, m)}
        Won(f, v) == [m \in Messages |-> IF m \in won THEN v ELSE f[m]]
    IN  /\ candidates[d] # {}
        /\ candidates' = [candidates EXCEPT ![d] = {}]
        /\ overdue' = [overdue EXCEPT ![d] = {}]
        /\ row' = Won(row, "claimed")
        /\ claimedBy' = Won(claimedBy, DispatcherId[d])
        /\ lease' = Won(lease, "held")
        /\ attempts' = [m \in Messages |-> attempts[m] + IF m \in won THEN 1 ELSE 0]
        /\ \E s \in InOrder(won) : batch' = [batch EXCEPT ![d] = s]
        /\ UNCHANGED <<due, sent, delivered, setbacks, trouble>>

(* Dispatcher.publish of the next message: it may fail, and it may fail    *)
(* after the service took the message.                                     *)
Publish(d) ==
    /\ batch[d] # <<>> /\ sent[d] = "none"
    /\ \/ /\ sent' = [sent EXCEPT ![d] = "ok"]
          /\ delivered' = delivered \cup {Head(batch[d])}
          /\ trouble' = trouble
       \/ /\ Mishap
          /\ sent' = [sent EXCEPT ![d] = "failed"]
          /\ delivered' \in {delivered, delivered \cup {Head(batch[d])}}
    /\ UNCHANGED <<rows, candidates, overdue, batch, setbacks>>

(* The guarded UPDATE of _mark_published and _release_failed found no row: *)
(* ResourceConflictError ends the batch, and the process with it.          *)
Abort(d) ==
    /\ batch' = [batch EXCEPT ![d] = <<>>]
    /\ sent' = [sent EXCEPT ![d] = "none"]
    /\ UNCHANGED <<rows, setbacks>>

NextMessage(d) ==
    /\ batch' = [batch EXCEPT ![d] = Tail(@)]
    /\ sent' = [sent EXCEPT ![d] = "none"]

(* Mutant: a failed publication is marked as well. *)
Acknowledges_Any(d) == sent[d] # "none"

Acknowledges(d) == sent[d] = "ok"

Owns(d, m) == row[m] = "claimed" /\ claimedBy[m] = DispatcherId[d]

MarkPublished(d) ==
    LET m == Head(batch[d])
    IN  /\ batch[d] # <<>> /\ Acknowledges(d)
        /\ IF Owns(d, m)
           THEN /\ row' = [row EXCEPT ![m] = "published"]
                /\ NextMessage(d)
                /\ UNCHANGED <<claimedBy, lease, due, attempts, setbacks>>
           ELSE Abort(d)
        /\ UNCHANGED <<candidates, overdue, delivered, trouble>>

(* _release_failed: PENDING again, available after five seconds *)
ReleaseFailed(d) ==
    LET m == Head(batch[d])
    IN  /\ batch[d] # <<>> /\ sent[d] = "failed"
        /\ IF Owns(d, m)
           THEN /\ row' = [row EXCEPT ![m] = "pending"]
                /\ claimedBy' = [claimedBy EXCEPT ![m] = Nobody]
                /\ lease' = [lease EXCEPT ![m] = "none"]
                /\ due' = due \ {m}
                /\ setbacks' = [setbacks EXCEPT ![m] = @ + 1]
                /\ NextMessage(d)
                /\ UNCHANGED attempts
           ELSE Abort(d)
        /\ UNCHANGED <<candidates, overdue, delivered, trouble>>

(* The process dies, or a transaction of its batch raises; the supervisor  *)
(* starts it again.                                                        *)
Crash(d) ==
    /\ candidates[d] # {} \/ batch[d] # <<>>
    /\ Mishap
    /\ candidates' = [candidates EXCEPT ![d] = {}]
    /\ overdue' = [overdue EXCEPT ![d] = {}]
    /\ batch' = [batch EXCEPT ![d] = <<>>]
    /\ sent' = [sent EXCEPT ![d] = "none"]
    /\ UNCHANGED <<rows, delivered, setbacks>>

-----------------------------------------------------------------------------
(* Time. *)

Held(m) == \E d \in Dispatchers : \E i \in DOMAIN batch[d] : batch[d][i] = m

ExpireLease(m) ==
    /\ row[m] = "claimed" /\ lease[m] = "held"
    /\ lease' = [lease EXCEPT ![m] = "expired"]
    /\ setbacks' = [setbacks EXCEPT ![m] = @ + 1]
    /\ UNCHANGED <<row, claimedBy, due, attempts, locals, delivered>>

(* The lease runs out under a batch that is still being worked on. *)
OutliveLease(m) == Held(m) /\ Mishap /\ ExpireLease(m)

(* It runs out because nobody deals with the claim any more. *)
AbandonLease(m) == ~Held(m) /\ ExpireLease(m) /\ UNCHANGED trouble

EndBackoff(m) ==
    /\ row[m] \in {"pending", "claimed"} /\ m \notin due
    /\ due' = due \cup {m}
    /\ UNCHANGED <<row, claimedBy, lease, attempts, locals, delivered, setbacks, trouble>>

-----------------------------------------------------------------------------
DispatcherStep(d) ==
    Select(d) \/ Claim(d) \/ Publish(d) \/ MarkPublished(d) \/ ReleaseFailed(d)

Next ==
    \/ \E m \in Messages : Commit(m) \/ OutliveLease(m) \/ AbandonLease(m) \/ EndBackoff(m)
    \/ \E d \in Dispatchers : DispatcherStep(d) \/ Crash(d)

Spec == Init /\ [][Next]_vars

(* Every dispatcher keeps polling, the clock advances; the workflow        *)
(* service is available from some moment on (MaxTrouble).                  *)
Fairness ==
    /\ \A d \in Dispatchers : WF_vars(DispatcherStep(d))
    /\ \A m \in Messages : WF_vars(AbandonLease(m)) /\ WF_vars(EndBackoff(m))

FairSpec == Spec /\ Fairness
-----------------------------------------------------------------------------
(* Properties. *)

TypeOK ==
    /\ row \in [Messages -> {"absent", "pending", "claimed", "published"}]
    /\ \A m \in Messages :
          /\ claimedBy[m] \in {Nobody} \cup {DispatcherId[d] : d \in Dispatchers}
          /\ row[m] = "pending" <=> claimedBy[m] = Nobody /\ row[m] # "absent"
          /\ row[m] \in {"absent", "pending"} => lease[m] = "none"
    /\ due \subseteq Messages /\ delivered \subseteq Messages
    /\ \A d \in Dispatchers :
          /\ Len(batch[d]) <= BatchSize
          /\ sent[d] \in {"none", "ok", "failed"}

(* An intent is claimed a second time only after a failed publication or   *)
(* an expired lease, although two dispatchers may select it at once and    *)
(* the selection is stale when the updates run (claim).                    *)
ClaimsAccounted == \A m \in Messages : attempts[m] <= 1 + setbacks[m]

Promise == INSTANCE Delivery WITH
    committed <- {m \in Messages : row[m] # "absent"},
    settled <- {m \in Messages : row[m] = "published"}

(* The outbox keeps its promise: nothing is marked that was not delivered, *)
(* a marked intent stays marked whatever late dispatchers do.              *)
KeepsPromise == Promise!Spec

(* Every committed intent is delivered and settled in the end, through     *)
(* crashes, expired leases and failed publications.                        *)
DeliversAll == Promise!FairSpec

(* The outbox as the dispatchers see it: no claim without a cause, and      *)
(* every intent gets through.                                               *)
OutboxDelivers == []ClaimsAccounted /\ DeliversAll
=============================================================================
