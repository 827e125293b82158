---------------------------- MODULE OutboxProofs ----------------------------
(***************************************************************************)
(* The outbox implements Delivery for any number of intents, dispatchers   *)
(* and mishaps, with distinct or shared worker ids.                        *)
(***************************************************************************)
EXTENDS Outbox, FiniteSetTheorems, TLAPS

Committed == {m \in Messages : row[m] # "absent"}
Published == {m \in Messages : row[m] = "published"}

(* A dispatcher works only on committed intents, and what it is about to   *)
(* acknowledge has been delivered.                                         *)
BatchesOK ==
    \A d \in Dispatchers :
        /\ candidates[d] \subseteq Committed
        /\ candidates[d] # {} => batch[d] = <<>>
        /\ \A i \in 1..Len(batch[d]) : batch[d][i] \in Committed
        /\ sent[d] = "ok" => batch[d] # <<>> /\ Head(batch[d]) \in delivered

(* The inductive invariant: what is marked was delivered, what was         *)
(* delivered was committed.                                                *)
OutboxInv ==
    /\ row \in [Messages -> {"absent", "pending", "claimed", "published"}]
    /\ candidates \in [Dispatchers -> SUBSET Messages]
    /\ batch \in [Dispatchers -> Seq(Messages)]
    /\ sent \in [Dispatchers -> {"none", "ok", "failed"}]
    /\ due \subseteq Messages
    /\ delivered \subseteq Committed
    /\ Published \subseteq delivered
    /\ BatchesOK

-----------------------------------------------------------------------------
(* The updated rows of a claim are a sequence of them: a set of candidates *)
(* is finite, so its sorted enumeration is a sequence (claim).             *)
LEMMA ClaimedRows ==
    ASSUME NEW S \in SUBSET Messages, NEW s \in InOrder(S)
    PROVE  s \in Seq(S)
<1>1. IsFiniteSet(Messages)
  BY OutboxAssumption, FS_Interval DEF Messages
<1>2. Cardinality(S) \in Nat
  BY <1>1, FS_Subset, FS_CardinalityType
<1> QED
  BY <1>2 DEF InOrder

(* Initially nothing is committed, claimed or delivered. *)
LEMMA OutboxInit == Init => OutboxInv
  BY DEF Init, OutboxInv, BatchesOK, Committed, Published

(* The steps that leave the dispatchers' locals alone keep the invariant:  *)
(* commits and the passing of time (Commit, ExpireLease, EndBackoff).      *)
LEMMA TimeKeepsInv ==
    ASSUME OutboxInv, NEW m \in Messages,
           Commit(m) \/ OutliveLease(m) \/ AbandonLease(m) \/ EndBackoff(m)
    PROVE  OutboxInv'
<1>1. UNCHANGED <<candidates, batch, sent, delivered>>
  BY DEF Commit, OutliveLease, AbandonLease, ExpireLease, EndBackoff, locals
<1>2. /\ row' \in [Messages -> {"absent", "pending", "claimed", "published"}]
      /\ Committed \subseteq Committed' /\ Published' = Published
      /\ due' \subseteq Messages
  BY DEF Commit, OutliveLease, AbandonLease, ExpireLease, EndBackoff, locals,
         OutboxInv, Committed, Published
<1>3. BatchesOK'
  BY <1>1, <1>2 DEF OutboxInv, BatchesOK
<1> QED
  BY <1>1, <1>2, <1>3 DEF OutboxInv

(* A claim keeps it: the claimed rows were candidates, and candidates are  *)
(* committed intents (claim).                                              *)
LEMMA ClaimKeepsInv ==
    ASSUME OutboxInv, NEW d \in Dispatchers, Select(d) \/ Claim(d)
    PROVE  OutboxInv'
<1>1. CASE Select(d)
  <2>0. Oldest({m \in due : Claimable(m)}, BatchSize) \in SUBSET Committed
    BY DEF Oldest, Claimable, OutboxInv, Committed
  <2>1. PICK S \in SUBSET Committed : candidates' = [candidates EXCEPT ![d] = S]
    BY <1>1, <2>0 DEF Select
  <2>2. UNCHANGED <<row, due, batch, sent, delivered>> /\ batch[d] = <<>>
    BY <1>1 DEF Select, rows
  <2>3. candidates' \in [Dispatchers -> SUBSET Messages]
    BY <2>1 DEF OutboxInv, Committed
  <2>4. Committed' = Committed /\ Published' = Published
    BY <2>2 DEF Committed, Published
  <2>5. BatchesOK'
    BY <2>1, <2>2, <2>4 DEF OutboxInv, BatchesOK
  <2> QED
    BY <2>2, <2>3, <2>4, <2>5 DEF OutboxInv
<1>2. CASE Claim(d)
  <2> DEFINE won == {m \in candidates[d] : StillClaimable(d, m)}
  <2>1. won \in SUBSET Messages /\ \A m \in won : row[m] # "absent" /\ row[m] # "published"
    BY DEF OutboxInv, StillClaimable
  <2>2. PICK s \in InOrder(won) : batch' = [batch EXCEPT ![d] = s]
    BY <1>2 DEF Claim
  <2>3. s \in Seq(won)
    BY <2>1, <2>2, ClaimedRows
  <2>4. row' = [m \in Messages |-> IF m \in won THEN "claimed" ELSE row[m]]
    BY <1>2 DEF Claim
  <2>5. /\ candidates' = [candidates EXCEPT ![d] = {}]
        /\ UNCHANGED <<due, sent, delivered>>
    BY <1>2 DEF Claim
  <2> HIDE DEF won
  <2>6. /\ row' \in [Messages -> {"absent", "pending", "claimed", "published"}]
        /\ Committed' = Committed /\ Published' = Published
    BY <2>1, <2>4 DEF OutboxInv, Committed, Published
  <2>7. batch' \in [Dispatchers -> Seq(Messages)]
    BY <2>1, <2>2, <2>3 DEF OutboxInv
  <2>8. sent[d] # "ok"
    BY <1>2 DEF Claim, OutboxInv, BatchesOK
  <2>9. BatchesOK'
    BY <2>1, <2>2, <2>3, <2>5, <2>6, <2>8 DEF OutboxInv, BatchesOK, Committed
  <2> QED
    BY <2>5, <2>6, <2>7, <2>9 DEF OutboxInv
<1> QED
  BY <1>1, <1>2

(* Publishing and its bookkeeping keep it: a message is marked only after  *)
(* the service took it (dispatch_batch, _mark_published, _release_failed). *)
LEMMA BatchKeepsInv ==
    ASSUME OutboxInv, NEW d \in Dispatchers,
           Publish(d) \/ MarkPublished(d) \/ ReleaseFailed(d) \/ Crash(d)
    PROVE  OutboxInv'
<1>1. CASE Publish(d)
  <2> DEFINE m == Head(batch[d])
  <2>1. m \in Committed
    BY <1>1 DEF Publish, OutboxInv, BatchesOK
  <2>2. /\ UNCHANGED <<row, due, candidates, batch>>
        /\ Committed' = Committed /\ Published' = Published
    BY <1>1 DEF Publish, rows, Committed, Published
  <2>3. \/ sent' = [sent EXCEPT ![d] = "ok"] /\ delivered' = delivered \cup {m}
        \/ /\ sent' = [sent EXCEPT ![d] = "failed"]
           /\ delivered' \in {delivered, delivered \cup {m}}
    BY <1>1 DEF Publish
  <2>4. BatchesOK'
    BY <1>1, <2>2, <2>3 DEF Publish, OutboxInv, BatchesOK
  <2> QED
    BY <2>1, <2>2, <2>3, <2>4 DEF OutboxInv
<1>2. ASSUME Abort(d), UNCHANGED <<candidates, delivered>>
      PROVE  OutboxInv'
  <2>1. /\ batch' = [batch EXCEPT ![d] = <<>>]
        /\ sent' = [sent EXCEPT ![d] = "none"]
        /\ UNCHANGED <<row, due, candidates, delivered>>
    BY <1>2 DEF Abort, rows
  <2>2. Committed' = Committed /\ Published' = Published
    BY <2>1 DEF Committed, Published
  <2>3. BatchesOK'
    BY <2>1, <2>2 DEF OutboxInv, BatchesOK
  <2> QED
    BY <2>1, <2>2, <2>3 DEF OutboxInv
<1>3. ASSUME NextMessage(d), batch[d] # <<>>, UNCHANGED <<candidates, delivered>>,
             NEW s \in {"pending", "published"},
             row[Head(batch[d])] = "claimed",
             row' = [row EXCEPT ![Head(batch[d])] = s],
             due' \in {due, due \ {Head(batch[d])}},
             s = "published" => Head(batch[d]) \in delivered
      PROVE  OutboxInv'
  <2>1. /\ batch' = [batch EXCEPT ![d] = Tail(batch[d])]
        /\ sent' = [sent EXCEPT ![d] = "none"]
    BY <1>3 DEF NextMessage
  <2>2. /\ row' \in [Messages -> {"absent", "pending", "claimed", "published"}]
        /\ Committed' = Committed
        /\ Published' \subseteq delivered
    BY <1>3 DEF OutboxInv, Committed, Published
  <2>3. batch[d] \in Seq(Messages)
    BY DEF OutboxInv
  <2>4. /\ Tail(batch[d]) \in Seq(Messages)
        /\ Len(Tail(batch[d])) = Len(batch[d]) - 1
        /\ \A i \in 1..Len(Tail(batch[d])) : Tail(batch[d])[i] = batch[d][i+1]
    BY <1>3, <2>3
  <2>5. Len(batch[d]) \in Nat
    BY <2>3
  <2>6. \A i \in 1..Len(Tail(batch[d])) : Tail(batch[d])[i] \in Committed
    BY <2>4, <2>5 DEF OutboxInv, BatchesOK
  <2>7. BatchesOK'
    BY <1>3, <2>1, <2>2, <2>6 DEF OutboxInv, BatchesOK
  <2> QED
    BY <1>3, <2>1, <2>2, <2>4, <2>7 DEF OutboxInv
<1>4. CASE MarkPublished(d)
  <2>1. Head(batch[d]) \in delivered
    BY <1>4 DEF MarkPublished, Acknowledges, OutboxInv, BatchesOK
  <2> QED
    BY <1>2, <1>3, <1>4, <2>1 DEF MarkPublished, Owns
<1>5. CASE ReleaseFailed(d)
  BY <1>2, <1>3, <1>5 DEF ReleaseFailed, Owns
<1>6. CASE Crash(d)
  <2>1. /\ candidates' = [candidates EXCEPT ![d] = {}]
        /\ batch' = [batch EXCEPT ![d] = <<>>]
        /\ sent' = [sent EXCEPT ![d] = "none"]
        /\ UNCHANGED <<row, due, delivered>>
    BY <1>6 DEF Crash, rows
  <2>2. Committed' = Committed /\ Published' = Published
    BY <2>1 DEF Committed, Published
  <2>3. BatchesOK'
    BY <2>1, <2>2 DEF OutboxInv, BatchesOK
  <2> QED
    BY <2>1, <2>2, <2>3 DEF OutboxInv
<1> QED
  BY <1>1, <1>4, <1>5, <1>6

(* Every step keeps the invariant. *)
LEMMA OutboxInductive == OutboxInv /\ [Next]_vars => OutboxInv'
<1> SUFFICES ASSUME OutboxInv, [Next]_vars PROVE OutboxInv'
  OBVIOUS
<1>1. CASE UNCHANGED vars
  BY <1>1 DEF vars, rows, locals, OutboxInv, BatchesOK, Committed, Published
<1>2. CASE Next
  BY <1>2, TimeKeepsInv, ClaimKeepsInv, BatchKeepsInv DEF Next, DispatcherStep
<1> QED
  BY <1>1, <1>2

(* Seen through the mapping, a step commits, delivers or settles one       *)
(* intent, or changes nothing.                                             *)
LEMMA OutboxRefines ==
    OutboxInv /\ [Next]_vars => [Promise!Next]_(Promise!vars)
<1> SUFFICES ASSUME OutboxInv, [Next]_vars PROVE [Promise!Next]_(Promise!vars)
  OBVIOUS
<1>0. /\ Promise!vars = <<Committed, delivered, Published>>
      /\ (Promise!vars)' = <<Committed', delivered', Published'>>
  BY DEF Promise!vars, Committed, Published
<1>1. ASSUME Committed' = Committed, Published' = Published, delivered' = delivered
      PROVE  [Promise!Next]_(Promise!vars)
  BY <1>0, <1>1
<1>2. CASE UNCHANGED vars
  BY <1>1, <1>2 DEF vars, rows, Committed, Published
<1>3. ASSUME NEW m \in Messages, Commit(m)
      PROVE  [Promise!Next]_(Promise!vars)
  <2>1. Committed' = Committed \cup {m} /\ Published' = Published /\ delivered' = delivered
    BY <1>3 DEF Commit, locals, OutboxInv, Committed, Published
  <2> QED
    BY <2>1 DEF Promise!Next, Promise!Commit, Committed, Published
<1>4. ASSUME NEW m \in Messages, OutliveLease(m) \/ AbandonLease(m) \/ EndBackoff(m)
      PROVE  [Promise!Next]_(Promise!vars)
  BY <1>1, <1>4 DEF OutliveLease, AbandonLease, EndBackoff, ExpireLease, locals,
                    Committed, Published
<1>5. ASSUME NEW d \in Dispatchers, Select(d) \/ Crash(d)
      PROVE  [Promise!Next]_(Promise!vars)
  BY <1>1, <1>5 DEF Select, Crash, rows, Committed, Published
<1>6. ASSUME NEW d \in Dispatchers, Claim(d)
      PROVE  [Promise!Next]_(Promise!vars)
  <2>1. \A m \in Messages :
            \/ row'[m] = row[m]
            \/ row'[m] = "claimed" /\ row[m] \in {"pending", "claimed"}
    BY <1>6 DEF Claim, StillClaimable
  <2>2. Committed' = Committed /\ Published' = Published
    BY <2>1 DEF Committed, Published
  <2>3. delivered' = delivered
    BY <1>6 DEF Claim
  <2> QED
    BY <1>1, <2>2, <2>3
<1>7. ASSUME NEW d \in Dispatchers, Publish(d)
      PROVE  [Promise!Next]_(Promise!vars)
  <2> DEFINE m == Head(batch[d])
  <2>1. m \in Committed
    BY <1>7 DEF Publish, OutboxInv, BatchesOK
  <2>2. Committed' = Committed /\ Published' = Published
    BY <1>7 DEF Publish, rows, Committed, Published
  <2>3. delivered' = delivered \/ delivered' = delivered \cup {m}
    BY <1>7 DEF Publish
  <2>4. CASE delivered' = delivered \cup {m}
    BY <2>1, <2>2, <2>4 DEF Promise!Next, Promise!Deliver, Committed, Published
  <2> QED
    BY <1>1, <2>2, <2>3, <2>4
<1>8. ASSUME NEW d \in Dispatchers, MarkPublished(d)
      PROVE  [Promise!Next]_(Promise!vars)
  <2> DEFINE m == Head(batch[d])
  <2>1. delivered' = delivered
    BY <1>8 DEF MarkPublished
  <2>2. m \in delivered /\ m \in Messages
    BY <1>8 DEF MarkPublished, Acknowledges, OutboxInv, BatchesOK, Committed
  <2>3. CASE row' = row
    BY <1>1, <2>1, <2>3 DEF Committed, Published
  <2>4. CASE row[m] = "claimed" /\ row' = [row EXCEPT ![m] = "published"]
    <3>1. Committed' = Committed /\ Published' = Published \cup {m}
      BY <2>2, <2>4 DEF OutboxInv, Committed, Published
    <3> QED
      BY <2>1, <2>2, <3>1 DEF Promise!Next, Promise!Settle, Committed, Published
  <2> QED
    BY <1>8, <2>3, <2>4 DEF MarkPublished, Owns, Abort, rows
<1>9. ASSUME NEW d \in Dispatchers, ReleaseFailed(d)
      PROVE  [Promise!Next]_(Promise!vars)
  <2> DEFINE m == Head(batch[d])
  <2>1. \/ row' = row
        \/ row[m] = "claimed" /\ row' = [row EXCEPT ![m] = "pending"]
    BY <1>9 DEF ReleaseFailed, Owns, Abort, rows
  <2>2. Committed' = Committed /\ Published' = Published
    BY <2>1 DEF OutboxInv, Committed, Published
  <2>3. delivered' = delivered
    BY <1>9 DEF ReleaseFailed
  <2> QED
    BY <1>1, <2>2, <2>3
<1> QED
  BY <1>2, <1>3, <1>4, <1>5, <1>6, <1>7, <1>8, <1>9 DEF Next, DispatcherStep

-----------------------------------------------------------------------------
(* Every behaviour of the outbox is one of Delivery: an intent is marked   *)
(* published only after the workflow service received it, and neither a    *)
(* late dispatcher nor one that shares a worker_id can take that back.     *)
THEOREM PromiseKept == Spec => KeepsPromise
<1>1. Init => Promise!Init
  BY DEF Init, Promise!Init
<1>2. Spec => []OutboxInv
  BY OutboxInit, OutboxInductive, PTL DEF Spec
<1> QED
  BY <1>1, <1>2, OutboxRefines, PTL DEF Spec, KeepsPromise, Promise!Spec

-----------------------------------------------------------------------------
(* Claims. *)

(* How many claims an intent may have had, by what its row says now; the   *)
(* pending and the expired ones already have a setback for each.           *)
Accounted(m) ==
    /\ row[m] \in {"absent", "pending"} => attempts[m] <= setbacks[m]
    /\ row[m] = "claimed" /\ lease[m] = "expired" => attempts[m] <= setbacks[m]
    /\ attempts[m] <= 1 + setbacks[m]

(* A claim that a selection saw expired has had its setback, however long  *)
(* ago the selection was.                                                  *)
ClaimInv ==
    /\ lease \in [Messages -> {"none", "held", "expired"}]
    /\ attempts \in [Messages -> Nat]
    /\ setbacks \in [Messages -> Nat]
    /\ overdue \in [Dispatchers -> SUBSET (Messages \X Nat)]
    /\ \A d \in Dispatchers, m \in Messages, n \in Nat :
          <<m, n>> \in overdue[d] => n <= setbacks[m]
    /\ \A m \in Messages : Accounted(m)

(* What a claim selected as expired stays excused: setbacks only grow.     *)
LEMMA SetbacksGrow ==
    ASSUME ClaimInv, setbacks' \in [Messages -> Nat],
           \A m \in Messages : setbacks[m] <= setbacks'[m],
           overdue' \in [Dispatchers -> SUBSET (Messages \X Nat)],
           \A d \in Dispatchers : overdue'[d] \subseteq overdue[d]
    PROVE  \A d \in Dispatchers, m \in Messages, n \in Nat :
               <<m, n>> \in overdue'[d] => n <= setbacks'[m]
BY DEF ClaimInv

(* Time and the outcome of a publication keep the account: an expired      *)
(* lease and a released intent each add their setback.                     *)
LEMMA SetbackKeepsClaims ==
    ASSUME OutboxInv, ClaimInv, NEW m \in Messages,
           row' = row \/ \E s \in {"pending", "published"} : row' = [row EXCEPT ![m] = s],
           \/ UNCHANGED <<lease, setbacks>> /\ row'[m] # "pending"
           \/ /\ lease' = [lease EXCEPT ![m] = "expired"] /\ row' = row
              /\ setbacks' = [setbacks EXCEPT ![m] = @ + 1]
           \/ /\ lease' = [lease EXCEPT ![m] = "none"]
              /\ setbacks' = [setbacks EXCEPT ![m] = @ + 1]
           \/ UNCHANGED <<row, lease, setbacks>>
           \/ UNCHANGED <<lease, setbacks>> /\ row[m] = "absent",
           attempts' = attempts, overdue' = overdue
    PROVE  ClaimInv'
<1>1. /\ lease' \in [Messages -> {"none", "held", "expired"}]
      /\ setbacks' \in [Messages -> Nat]
      /\ \A k \in Messages : setbacks[k] <= setbacks'[k]
  BY DEF ClaimInv
<1>2. \A d \in Dispatchers, k \in Messages, n \in Nat :
          <<k, n>> \in overdue'[d] => n <= setbacks'[k]
  BY <1>1, SetbacksGrow DEF ClaimInv
<1>3. ASSUME NEW k \in Messages PROVE Accounted(k)'
  <2>1. attempts[k] \in Nat /\ setbacks[k] \in Nat /\ Accounted(k)
    BY DEF ClaimInv
  <2>2. CASE k = m
    BY <2>1, <2>2 DEF ClaimInv, OutboxInv, Accounted
  <2>3. CASE k # m
    BY <2>1, <2>3 DEF ClaimInv, OutboxInv, Accounted
  <2> QED
    BY <2>2, <2>3
<1> QED
  BY <1>1, <1>2, <1>3 DEF ClaimInv

(* A claim keeps it: what it takes was pending or selected as expired.     *)
LEMMA ClaimKeepsClaims ==
    ASSUME OutboxInv, ClaimInv, NEW d \in Dispatchers, Claim(d)
    PROVE  ClaimInv'
<1> DEFINE won == {m \in candidates[d] : StillClaimable(d, m)}
<1>1. /\ row' = [m \in Messages |-> IF m \in won THEN "claimed" ELSE row[m]]
      /\ lease' = [m \in Messages |-> IF m \in won THEN "held" ELSE lease[m]]
      /\ attempts' = [m \in Messages |-> attempts[m] + IF m \in won THEN 1 ELSE 0]
      /\ overdue' = [overdue EXCEPT ![d] = {}]
      /\ setbacks' = setbacks
  BY DEF Claim
<1>2. /\ lease' \in [Messages -> {"none", "held", "expired"}]
      /\ attempts' \in [Messages -> Nat]
      /\ overdue' \in [Dispatchers -> SUBSET (Messages \X Nat)]
      /\ \A e \in Dispatchers : overdue'[e] \subseteq overdue[e]
  BY <1>1 DEF ClaimInv
<1>3. \A e \in Dispatchers, m \in Messages, n \in Nat :
          <<m, n>> \in overdue'[e] => n <= setbacks'[m]
  BY <1>1, <1>2, SetbacksGrow DEF ClaimInv
<1>4. ASSUME NEW m \in Messages PROVE Accounted(m)'
  <2>1. attempts[m] \in Nat /\ setbacks[m] \in Nat /\ Accounted(m)
    BY DEF ClaimInv
  <2>2. CASE m \in won
    <3>1. attempts[m] <= setbacks[m]
      BY <2>1, <2>2 DEF StillClaimable, ClaimInv, Accounted
    <3> QED
      BY <1>1, <2>1, <2>2, <3>1 DEF Accounted
  <2>3. CASE m \notin won
    BY <1>1, <2>1, <2>3 DEF Accounted
  <2> QED
    BY <2>2, <2>3
<1> QED
  BY <1>1, <1>2, <1>3, <1>4 DEF ClaimInv

(* So does a selection: it notes an expired claim by its attempt number.   *)
LEMMA SelectKeepsClaims ==
    ASSUME OutboxInv, ClaimInv, NEW d \in Dispatchers, Select(d)
    PROVE  ClaimInv'
<1> DEFINE S == {m \in due : Claimable(m)}
           noted == {<<m, attempts[m]>> : m \in {k \in candidates'[d] : row[k] = "claimed"}}
<1>1. UNCHANGED <<row, lease, attempts, setbacks>>
  BY DEF Select, rows
<1>2. candidates'[d] \subseteq S
  BY DEF Select, Oldest, OutboxInv
<1>3. \A p \in noted : \E m \in Messages :
          p = <<m, attempts[m]>> /\ attempts[m] \in Nat /\ attempts[m] <= setbacks[m]
  <2>1. \A m \in candidates'[d] : row[m] = "claimed" =>
            m \in Messages /\ attempts[m] \in Nat /\ attempts[m] <= setbacks[m]
    BY <1>2 DEF Claimable, ClaimInv, Accounted, OutboxInv
  <2> QED
    BY <2>1
<1>4. overdue' = [overdue EXCEPT ![d] = noted]
  BY DEF Select
<1> HIDE DEF noted
<1>5. noted \in SUBSET (Messages \X Nat)
  BY <1>3
<1>6. overdue' \in [Dispatchers -> SUBSET (Messages \X Nat)]
  BY <1>4, <1>5 DEF ClaimInv
<1>7. ASSUME NEW e \in Dispatchers, NEW m \in Messages, NEW n \in Nat,
             <<m, n>> \in overdue'[e]
      PROVE  n <= setbacks'[m]
  <2>1. CASE e = d
    <3>1. <<m, n>> \in noted
      BY <1>4, <1>7, <2>1 DEF ClaimInv
    <3> QED
      BY <1>1, <1>3, <3>1
  <2>2. CASE e # d
    BY <1>1, <1>4, <1>7, <2>2 DEF ClaimInv
  <2> QED
    BY <2>1, <2>2
<1> QED
  BY <1>1, <1>6, <1>7 DEF ClaimInv, Accounted

(* Every step keeps the account of the claims.                             *)
LEMMA ClaimsInductive == OutboxInv /\ ClaimInv /\ [Next]_vars => ClaimInv'
<1> SUFFICES ASSUME OutboxInv, ClaimInv, [Next]_vars PROVE ClaimInv'
  OBVIOUS
<1>1. ASSUME UNCHANGED <<row, lease, attempts, setbacks>>,
             \/ overdue' = overdue
             \/ \E d \in Dispatchers : overdue' = [overdue EXCEPT ![d] = {}]
      PROVE  ClaimInv'
  BY <1>1 DEF ClaimInv, Accounted
<1>2. CASE UNCHANGED vars
  BY <1>1, <1>2 DEF vars, rows, locals
<1>3. ASSUME NEW m \in Messages,
             Commit(m) \/ OutliveLease(m) \/ AbandonLease(m)
      PROVE  ClaimInv'
  <2>1. CASE Commit(m)
    <3>1. /\ row[m] = "absent" /\ row' = [row EXCEPT ![m] = "pending"]
          /\ UNCHANGED <<lease, setbacks, attempts, overdue>>
      BY <2>1 DEF Commit, locals
    <3> QED
      BY <3>1, SetbackKeepsClaims
  <2>2. CASE OutliveLease(m) \/ AbandonLease(m)
    <3>1. /\ lease' = [lease EXCEPT ![m] = "expired"] /\ row' = row
          /\ setbacks' = [setbacks EXCEPT ![m] = @ + 1]
          /\ attempts' = attempts /\ overdue' = overdue
      BY <2>2 DEF OutliveLease, AbandonLease, ExpireLease, locals
    <3> QED
      BY <3>1, SetbackKeepsClaims
  <2> QED
    BY <1>3, <2>1, <2>2
<1>4. ASSUME NEW m \in Messages, EndBackoff(m)
      PROVE  ClaimInv'
  BY <1>1, <1>4 DEF EndBackoff, locals
<1>5. ASSUME NEW d \in Dispatchers, Publish(d) \/ Crash(d)
      PROVE  ClaimInv'
  BY <1>1, <1>5 DEF Publish, Crash, rows
<1>6. ASSUME NEW d \in Dispatchers, Abort(d), UNCHANGED <<overdue>>
      PROVE  ClaimInv'
  BY <1>1, <1>6 DEF Abort, rows
<1>7. ASSUME NEW d \in Dispatchers, MarkPublished(d) \/ ReleaseFailed(d)
      PROVE  ClaimInv'
  <2> DEFINE m == Head(batch[d])
  <2>1. m \in Messages /\ overdue' = overdue
    BY <1>7 DEF MarkPublished, ReleaseFailed, OutboxInv
  <2>2. CASE MarkPublished(d) /\ Owns(d, m)
    <3>1. /\ row' = [row EXCEPT ![m] = "published"]
          /\ UNCHANGED <<lease, attempts, setbacks>>
      BY <2>2 DEF MarkPublished
    <3>2. row'[m] # "pending"
      BY <2>1, <3>1 DEF OutboxInv
    <3> QED
      BY <2>1, <3>1, <3>2, SetbackKeepsClaims
  <2>3. CASE ReleaseFailed(d) /\ Owns(d, m)
    <3>1. /\ row' = [row EXCEPT ![m] = "pending"]
          /\ lease' = [lease EXCEPT ![m] = "none"]
          /\ setbacks' = [setbacks EXCEPT ![m] = @ + 1]
          /\ attempts' = attempts
      BY <2>3 DEF ReleaseFailed
    <3> QED
      BY <2>1, <3>1, SetbackKeepsClaims
  <2> QED
    BY <1>6, <1>7, <2>1, <2>2, <2>3 DEF MarkPublished, ReleaseFailed
<1> QED
  BY <1>2, <1>3, <1>4, <1>5, <1>7, ClaimKeepsClaims, SelectKeepsClaims
  DEF Next, DispatcherStep

(* An intent is claimed again only after a failed publication or an        *)
(* expired lease, although selections are stale when their updates run     *)
(* (claim; the safety half of OutboxDelivers).                             *)
THEOREM ClaimsHaveCauses == Spec => []ClaimsAccounted
<1>1. Init => ClaimInv
  BY DEF Init, ClaimInv, Accounted
<1>2. ClaimInv => ClaimsAccounted
  BY DEF ClaimInv, Accounted, ClaimsAccounted
<1> QED
  BY <1>1, <1>2, OutboxInit, OutboxInductive, ClaimsInductive, PTL DEF Spec
=============================================================================
