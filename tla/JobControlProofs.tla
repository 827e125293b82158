-------------------------- MODULE JobControlProofs --------------------------
(***************************************************************************)
(* Proofs about JobControl, for every set of runs, clients, keys,          *)
(* projects, specs and policies.                                           *)
(***************************************************************************)
EXTENDS JobControl, FiniteSetTheorems, TLAPS

(* The terminal states of the table are the three the code names.          *)
LEMMA TerminalStates ==
    \A s \in RunState : IsTerminal(s) <=> s \in TerminalState
BY DEF IsTerminal, Transitions, RunState, TerminalState

(* The transitions into cancelling and into the terminal states.           *)
LEMMA TransitionFacts ==
    /\ \A s : EnsureTransition(s, "cancelling") =>
          s \in {"queued", "provisioning", "running"}
    /\ EnsureTransition("cancelling", "cancelled")
    /\ \A s \in {"queued", "provisioning", "running"} : EnsureTransition(s, "failed")
BY DEF EnsureTransition, Transitions

-----------------------------------------------------------------------------
(* What the local variables of the open requests are at each statement.    *)
RequestInv ==
    /\ \A c \in Clients :
          /\ pc[c] # "idle" => asked[c] \in Submission
          /\ pc[c] \in {"policy", "reserve"} =>
                mine[c] \in Runs /\ state[mine[c]] = "absent"
          /\ pc[c] = "reserve" => seen[c] \in Policies
          /\ pc[c] = "done" => mine[c] \in Runs /\ state[mine[c]] # "absent"
    /\ \A c, d \in Clients :
          pc[c] \in {"policy", "reserve"} /\ pc[d] \in {"policy", "reserve"}
              /\ mine[c] = mine[d] => c = d

(* A committed row carries its submission and was never a draft.           *)
RowInv ==
    \A r \in Runs : /\ state[r] # "draft"
                    /\ state[r] # "absent" => sub[r] \in Submission

QuotaInv == TypeOK /\ RequestInv /\ RowInv /\ ReservationIffLive
                /\ UsageCountsReservations

-----------------------------------------------------------------------------
(* A reservation taken for a run that had none moves its class's counter   *)
(* and the set it counts together (reserve_run).                           *)
LEMMA ReserveCounts ==
    ASSUME TypeOK, TypeOK', UsageCountsReservations,
           NEW r \in Runs, NEW s \in Submission,
           resv[r] # "active",
           resv' = [resv EXCEPT ![r] = "active"],
           sub' = [sub EXCEPT ![r] = s],
           usage' = [usage EXCEPT ![ClassOf[s.spec]] = @ + 1]
    PROVE  UsageCountsReservations'
<1> SUFFICES ASSUME NEW k \in Classes
             PROVE  usage'[k] = Cardinality(ActiveOf(k)')
    BY DEF UsageCountsReservations
<1>0. usage[k] = Cardinality(ActiveOf(k)) /\ usage[k] \in Nat
    BY DEF UsageCountsReservations, TypeOK
<1>1. IsFiniteSet(ActiveOf(k))
    BY FS_Subset, RunsAssumption DEF ActiveOf
<1>2. r \notin ActiveOf(k)
    BY DEF ActiveOf
<1>3. ClassOf[s.spec] \in Classes
    BY SpecsAssumption DEF Submission
<1>4. CASE k = ClassOf[s.spec]
  <2>1. ActiveOf(k)' = ActiveOf(k) \cup {r}
      BY <1>4 DEF ActiveOf, TypeOK
  <2>2. usage'[k] = usage[k] + 1
      BY <1>4 DEF TypeOK
  <2>3. Cardinality(ActiveOf(k) \cup {r}) = Cardinality(ActiveOf(k)) + 1
      BY <1>1, <1>2, FS_AddElement
  <2>4. Cardinality(ActiveOf(k)') = Cardinality(ActiveOf(k)) + 1
      BY <2>1, <2>3
  <2>. QED  BY <1>0, <2>2, <2>4
<1>5. CASE k # ClassOf[s.spec]
  <2>1. ActiveOf(k)' = ActiveOf(k)
      BY <1>5 DEF ActiveOf, TypeOK
  <2>2. usage'[k] = usage[k]
      BY <1>5, <1>3 DEF TypeOK
  <2>. QED  BY <1>0, <2>1, <2>2
<1>. QED  BY <1>4, <1>5

(* Releasing keeps the counters and the sets they count together, and the  *)
(* counter that is decremented is positive (release_run).                  *)
LEMMA ReleaseCounts ==
    ASSUME TypeOK, UsageCountsReservations, RowInv, ReservationIffLive,
           NEW r \in Runs, NEW to \in {"released", "expired"},
           ReleaseRun(r, to), sub' = sub
    PROVE  /\ resv' = IF resv[r] = "active" THEN [resv EXCEPT ![r] = to] ELSE resv
           /\ lease' = lease
           /\ usage' \in [Classes -> Nat]
           /\ UsageCountsReservations'
<1>1. CASE resv[r] # "active"
    BY <1>1 DEF ReleaseRun, quotaVars, UsageCountsReservations, ActiveOf, TypeOK
<1>2. CASE resv[r] = "active"
  <2> DEFINE kr == ClassOf[sub[r].spec]
  <2>0. /\ resv' = [resv EXCEPT ![r] = to]
        /\ usage' = [usage EXCEPT ![kr] = @ - 1]
        /\ lease' = lease
      BY <1>2 DEF ReleaseRun
  <2>1. sub[r] \in Submission
      BY <1>2 DEF ReservationIffLive, RowInv, LiveState
  <2>2. kr \in Classes
      BY <2>1, SpecsAssumption DEF Submission
  <2>3. \A k \in Classes : IsFiniteSet(ActiveOf(k)) /\ Cardinality(ActiveOf(k)) \in Nat
      BY FS_Subset, FS_CardinalityType, RunsAssumption DEF ActiveOf
  <2>4. r \in ActiveOf(kr)
      BY <1>2 DEF ActiveOf
  <2>5. ActiveOf(kr) # {} /\ Cardinality(ActiveOf(kr)) # 0
      BY <2>2, <2>3, <2>4, FS_EmptySet
  <2>6. usage[kr] \in Nat \ {0}
      BY <2>2, <2>3, <2>5 DEF UsageCountsReservations
  <2>7. usage' \in [Classes -> Nat]
    <3>1. usage[kr] - 1 \in Nat
        BY <2>6
    <3>. QED  BY <2>0, <2>2, <3>1 DEF TypeOK
  <2>8. ASSUME NEW k \in Classes
        PROVE  usage'[k] = Cardinality(ActiveOf(k)')
    <3>1. CASE k = kr
      <4>1. ActiveOf(k)' = ActiveOf(k) \ {r}
          BY <1>2, <2>0, <3>1 DEF ActiveOf, TypeOK
      <4>2. usage'[k] = usage[k] - 1
          BY <2>0, <2>2, <3>1 DEF TypeOK
      <4>3. Cardinality(ActiveOf(kr) \ {r}) = Cardinality(ActiveOf(kr)) - 1
          BY <2>2, <2>3, <2>4, FS_RemoveElement
      <4>4. Cardinality(ActiveOf(k)') = Cardinality(ActiveOf(k)) - 1
          BY <3>1, <4>1, <4>3
      <4>. QED  BY <4>2, <4>4 DEF UsageCountsReservations
    <3>2. CASE k # kr
      <4>1. ActiveOf(k)' = ActiveOf(k)
          BY <1>2, <2>0, <3>2 DEF ActiveOf, TypeOK
      <4>2. usage'[k] = usage[k]
          BY <2>0, <2>2, <3>2 DEF TypeOK
      <4>. QED  BY <4>1, <4>2 DEF UsageCountsReservations
    <3>. QED  BY <3>1, <3>2
  <2>. QED  BY <1>2, <2>0, <2>7, <2>8 DEF UsageCountsReservations
<1>. QED  BY <1>1, <1>2

-----------------------------------------------------------------------------
(* A transaction of the worker or the API that ends a run keeps the quota  *)
(* invariant: the release and the state change go together.                *)
LEMMA TerminateQuota ==
    ASSUME QuotaInv, NEW r \in Runs,
           NEW expected \in SUBSET LiveState, NEW target \in TerminalState,
           Terminate(r, expected, target)
    PROVE  QuotaInv'
<1> USE DEF QuotaInv
<1>1. /\ state[r] \in LiveState /\ sub' = sub
      /\ state' = [state EXCEPT ![r] = target]
      /\ ReleaseRun(r, "released")
      /\ UNCHANGED <<cancelReq, policy, project, pc, asked, mine, seen, scanned>>
    BY DEF Terminate, clientVars
<1>2. /\ resv' = IF resv[r] = "active" THEN [resv EXCEPT ![r] = "released"] ELSE resv
      /\ lease' = lease
      /\ usage' \in [Classes -> Nat]
      /\ UsageCountsReservations'
    BY <1>1, ReleaseCounts
<1>3. TypeOK'
    BY <1>1, <1>2 DEF TypeOK, TerminalState, RunState
<1>4. RequestInv'
    BY <1>1 DEF RequestInv, TypeOK, TerminalState, LiveState
<1>5. RowInv'
    BY <1>1 DEF RowInv, TypeOK, TerminalState, LiveState
<1>6. ReservationIffLive'
    BY <1>1, <1>2 DEF ReservationIffLive, TypeOK, TerminalState, LiveState
<1>. QED  BY <1>2, <1>3, <1>4, <1>5, <1>6

(* Ending a request without a commit keeps the quota invariant.            *)
LEMMA FinishQuota ==
    ASSUME QuotaInv, NEW c \in Clients, Finish(c, NoRun),
           UNCHANGED <<runVars, quotaVars, policy, project, scanned>>
    PROVE  QuotaInv'
<1> USE DEF QuotaInv
<1>1. TypeOK'
    BY DEF TypeOK, Finish, runVars, quotaVars
<1>2. RequestInv'
    BY DEF RequestInv, TypeOK, Finish, runVars
<1>3. RowInv' /\ ReservationIffLive' /\ UsageCountsReservations'
    BY DEF RowInv, ReservationIffLive, UsageCountsReservations, ActiveOf, runVars, quotaVars
<1>. QED  BY <1>1, <1>2, <1>3

(* Looking a key up keeps the quota invariant.                             *)
LEMMA ReadKeyQuota ==
    ASSUME QuotaInv, NEW c \in Clients, pc[c] = "idle", NEW s \in Submission,
           ReadKey(c, s)
    PROVE  QuotaInv'
<1> USE DEF QuotaInv
<1>0. UNCHANGED <<runVars, quotaVars, policy, project, outbox, audit, scanned>>
    BY DEF ReadKey
<1>1. CASE Start(c, s)
  <2>1. TypeOK'
      BY <1>0, <1>1 DEF TypeOK, Start, Open, runVars, quotaVars
  <2>2. RequestInv'
      BY <1>0, <1>1 DEF RequestInv, TypeOK, Start, runVars
  <2>3. RowInv' /\ ReservationIffLive' /\ UsageCountsReservations'
      BY <1>0 DEF RowInv, ReservationIffLive, UsageCountsReservations, ActiveOf,
                  runVars, quotaVars
  <2>. QED  BY <2>1, <2>2, <2>3
<1>2. ASSUME NEW r \in IdempotentRun(s.key), Replay(c, r, s)
      PROVE  QuotaInv'
  <2>0. CASE Finish(c, NoRun)
      BY <1>0, <2>0, FinishQuota
  <2>1. CASE ~Finish(c, NoRun)
    <3>0. /\ pc' = [pc EXCEPT ![c] = "done"]
          /\ mine' = [mine EXCEPT ![c] = r]
          /\ asked' = [asked EXCEPT ![c] = s]
          /\ seen' = seen
          /\ r \in Runs /\ state[r] # "absent"
        BY <1>2, <2>1 DEF Replay, IdempotentRun, Stored
    <3>1. TypeOK'
        BY <1>0, <3>0 DEF TypeOK, runVars, quotaVars
    <3>2. RequestInv'
        BY <1>0, <3>0 DEF RequestInv, TypeOK, runVars
    <3>3. RowInv' /\ ReservationIffLive' /\ UsageCountsReservations'
        BY <1>0 DEF RowInv, ReservationIffLive, UsageCountsReservations, ActiveOf,
                    runVars, quotaVars
    <3>. QED  BY <3>1, <3>2, <3>3
  <2>. QED  BY <2>0, <2>1
<1>. QED  BY <1>1, <1>2 DEF ReadKey

-----------------------------------------------------------------------------
(* Every step keeps the quota invariant, one case per action.              *)
LEMMA QuotaStep == QuotaInv /\ [Next]_vars => QuotaInv'
<1> SUFFICES ASSUME QuotaInv, [Next]_vars PROVE QuotaInv'
    OBVIOUS
<1> USE DEF QuotaInv
<1>1. ASSUME NEW c \in Clients, NEW k \in Keys, NEW p \in Projects, NEW s \in Specs,
             Submit(c, k, p, s)
      PROVE  QuotaInv'
    BY <1>1, ReadKeyQuota DEF Submit, Submission
<1>2. ASSUME NEW c \in Clients, NEW k \in Keys, NEW r \in Runs, Retry(c, k, r)
      PROVE  QuotaInv'
  <2> DEFINE q == [key |-> k, project |-> sub[r].project, spec |-> sub[r].spec,
                   parent |-> r, attempt |-> sub[r].attempt + 1]
  <2>1. sub[r] \in Submission
      BY <1>2 DEF Retry, Stored, RowInv
  <2>2. q \in Submission
      BY <2>1 DEF Submission
  <2>3. pc[c] = "idle" /\ ReadKey(c, q)
      BY <1>2 DEF Retry
  <2>. QED  BY <2>2, <2>3, ReadKeyQuota
<1>3. ASSUME NEW c \in Clients, Insert(c)
      PROVE  QuotaInv'
  <2>0. /\ pc[c] = "insert" /\ asked[c] \in Submission
        /\ UNCHANGED <<runVars, quotaVars, policy, project, outbox, audit, scanned>>
      BY <1>3 DEF Insert, RequestInv
  <2>1. RowInv' /\ ReservationIffLive' /\ UsageCountsReservations'
      BY <2>0 DEF RowInv, ReservationIffLive, UsageCountsReservations, ActiveOf,
                  runVars, quotaVars
  <2>2. ASSUME NEW r \in Runs \ (Stored \cup InFlight),
               mine' = [mine EXCEPT ![c] = r], pc' = [pc EXCEPT ![c] = "policy"],
               UNCHANGED <<asked, seen>>
        PROVE  QuotaInv'
    <3>1. TypeOK'
        BY <2>0, <2>2 DEF TypeOK, Open, runVars, quotaVars
    <3>2. state[r] = "absent"
        BY <2>2 DEF Stored
    <3>3. \A d \in Clients : pc[d] \in {"policy", "reserve"} => mine[d] # r
        BY <2>2 DEF InFlight
    <3>4. RequestInv'
        BY <2>0, <2>2, <3>2, <3>3 DEF RequestInv, TypeOK, runVars
    <3>. QED  BY <2>1, <3>1, <3>4
  <2>3. ASSUME NEW r \in IdempotentRun(asked[c].key), Replay(c, r, asked[c])
        PROVE  QuotaInv'
    <3>0. CASE Finish(c, NoRun)
        BY <2>0, <3>0, FinishQuota
    <3>1. CASE ~Finish(c, NoRun)
      <4>0. /\ pc' = [pc EXCEPT ![c] = "done"]
            /\ mine' = [mine EXCEPT ![c] = r]
            /\ asked' = [asked EXCEPT ![c] = asked[c]]
            /\ seen' = seen
            /\ r \in Runs /\ state[r] # "absent"
          BY <2>3, <3>1 DEF Replay, IdempotentRun, Stored
      <4>1. TypeOK'
          BY <2>0, <4>0 DEF TypeOK, runVars, quotaVars
      <4>2. RequestInv'
          BY <2>0, <4>0 DEF RequestInv, TypeOK, runVars
      <4>. QED  BY <2>1, <4>1, <4>2
    <3>. QED  BY <3>0, <3>1
  <2>. QED  BY <1>3, <2>2, <2>3 DEF Insert
<1>4. ASSUME NEW c \in Clients, ReadPolicy(c)
      PROVE  QuotaInv'
  <2>0. UNCHANGED <<runVars, quotaVars, policy, project, outbox, audit, scanned>>
      BY <1>4 DEF ReadPolicy
  <2>1. CASE project[asked[c].project] = "active"
    <3>0. /\ pc[c] = "policy" /\ pc' = [pc EXCEPT ![c] = "reserve"]
          /\ seen' = [seen EXCEPT ![c] = policy] /\ UNCHANGED <<asked, mine>>
        BY <1>4, <2>1 DEF ReadPolicy
    <3>1. TypeOK'
        BY <2>0, <3>0 DEF TypeOK, Open, runVars, quotaVars
    <3>2. RequestInv'
        BY <2>0, <3>0 DEF RequestInv, TypeOK, runVars
    <3>3. RowInv' /\ ReservationIffLive' /\ UsageCountsReservations'
        BY <2>0 DEF RowInv, ReservationIffLive, UsageCountsReservations, ActiveOf,
                    runVars, quotaVars
    <3>. QED  BY <3>1, <3>2, <3>3
  <2>2. CASE project[asked[c].project] # "active"
      BY <1>4, <2>0, <2>2, FinishQuota DEF ReadPolicy
  <2>. QED  BY <2>1, <2>2
<1>5. ASSUME NEW c \in Clients, Reserve(c)
      PROVE  QuotaInv'
  <2> DEFINE r == mine[c]
  <2> DEFINE q == asked[c]
  <2>0. /\ pc[c] = "reserve" /\ q \in Submission /\ r \in Runs
        /\ state[r] = "absent" /\ seen[c] \in Policies
        /\ UNCHANGED <<cancelReq, policy, project, scanned>>
      BY <1>5 DEF Reserve, RequestInv
  <2>1. CASE FitsPolicy(q.spec, seen[c]) /\ HasCapacity(ClassOf[q.spec], seen[c])
    <3>0. /\ state' = [state EXCEPT ![r] = "queued"]
          /\ sub' = [sub EXCEPT ![r] = q]
          /\ resv' = [resv EXCEPT ![r] = "active"]
          /\ lease' = [lease EXCEPT ![r] = "fresh"]
          /\ usage' = [usage EXCEPT ![ClassOf[q.spec]] = @ + 1]
          /\ Finish(c, r)
        BY <1>5, <2>1 DEF Reserve
    <3>1. /\ pc' = [pc EXCEPT ![c] = "done"]
          /\ mine' = [mine EXCEPT ![c] = r]
          /\ seen' = [seen EXCEPT ![c] = NoPolicy]
          /\ asked' = asked
        BY <3>0, <2>0, RunsAssumption DEF Finish
    <3>2. ClassOf[q.spec] \in Classes
        BY <2>0, SpecsAssumption DEF Submission
    <3>3. TypeOK'
        BY <2>0, <3>0, <3>1, <3>2 DEF TypeOK, RunState
    <3>4. resv[r] # "active"
        BY <2>0 DEF ReservationIffLive, LiveState
    <3>5. UsageCountsReservations'
        BY <2>0, <3>0, <3>3, <3>4, ReserveCounts
    <3>6. RequestInv'
        BY <2>0, <3>0, <3>1 DEF RequestInv, TypeOK
    <3>7. RowInv'
        BY <2>0, <3>0 DEF RowInv, TypeOK
    <3>8. ReservationIffLive'
        BY <2>0, <3>0 DEF ReservationIffLive, TypeOK, LiveState
    <3>. QED  BY <3>3, <3>5, <3>6, <3>7, <3>8
  <2>2. CASE ~(FitsPolicy(q.spec, seen[c]) /\ HasCapacity(ClassOf[q.spec], seen[c]))
    <3>1. Finish(c, NoRun) /\ UNCHANGED <<runVars, quotaVars, policy, project, scanned>>
        BY <1>5, <2>2 DEF Reserve, runVars, quotaVars
    <3>. QED  BY <3>1, FinishQuota
  <2>. QED  BY <2>1, <2>2
<1>6. ASSUME NEW c \in Clients, Rollback(c) \/ Return(c)
      PROVE  QuotaInv'
    BY <1>6, FinishQuota DEF Rollback, Return
<1>7. ASSUME NEW r \in Runs, RequestCancellation(r) \/ ObserveCancellation(r)
      PROVE  QuotaInv'
  <2>0. /\ state[r] \in {"queued", "provisioning", "running"}
        /\ state' = [state EXCEPT ![r] = "cancelling"]
        /\ cancelReq' \in SUBSET Runs
        /\ UNCHANGED <<sub, resv, lease, usage, policy, project, pc, asked, mine, seen, scanned>>
      BY <1>7, TransitionFacts
      DEF RequestCancellation, ObserveCancellation, quotaVars, clientVars, TypeOK
  <2>1. TypeOK'
      BY <2>0 DEF TypeOK, RunState
  <2>2. RequestInv' /\ RowInv' /\ ReservationIffLive'
      BY <2>0 DEF RequestInv, RowInv, ReservationIffLive, TypeOK, LiveState
  <2>3. UsageCountsReservations'
      BY <2>0 DEF UsageCountsReservations, ActiveOf
  <2>. QED  BY <2>1, <2>2, <2>3
<1>8. ASSUME NEW p \in Projects, RequestDeletion(p)
      PROVE  QuotaInv'
    BY <1>8 DEF RequestDeletion, runVars, quotaVars, clientVars, TypeOK, RequestInv,
                RowInv, ReservationIffLive, UsageCountsReservations, ActiveOf
<1>9. ASSUME NEW p \in Policies, ReplacePolicy(p)
      PROVE  QuotaInv'
    BY <1>9 DEF ReplacePolicy, runVars, quotaVars, clientVars, TypeOK, RequestInv,
                RowInv, ReservationIffLive, UsageCountsReservations, ActiveOf
<1>10. ASSUME NEW r \in Runs, Prepare(r) \/ BeginExecution(r)
       PROVE  QuotaInv'
  <2>0. /\ state[r] \in {"queued", "provisioning"}
        /\ \E t \in {"provisioning", "running"} : state' = [state EXCEPT ![r] = t]
        /\ lease' \in [Runs -> {"fresh", "stale"}]
        /\ UNCHANGED <<sub, cancelReq, resv, usage, policy, project, pc, asked, mine, seen,
                       scanned>>
      BY <1>10 DEF Prepare, BeginExecution, quotaVars, clientVars, TypeOK
  <2>1. TypeOK'
    <3>1. PICK t \in {"provisioning", "running"} : state' = [state EXCEPT ![r] = t]
        BY <2>0
    <3>2. state' \in [Runs -> RunState \cup {"absent"}]
        BY <3>1 DEF TypeOK, RunState
    <3>. QED  BY <2>0, <3>2 DEF TypeOK
  <2>2. RequestInv' /\ RowInv' /\ ReservationIffLive'
      BY <2>0 DEF RequestInv, RowInv, ReservationIffLive, TypeOK, LiveState
  <2>3. UsageCountsReservations'
      BY <2>0 DEF UsageCountsReservations, ActiveOf
  <2>. QED  BY <2>1, <2>2, <2>3
<1>11. ASSUME NEW r \in Runs, Complete(r) \/ Fail(r) \/ AcknowledgeCancellation(r)
       PROVE  QuotaInv'
    BY <1>11, TerminateQuota
    DEF Complete, Fail, AcknowledgeCancellation, LiveState, TerminalState
<1>12. ASSUME NEW r \in Runs, Lapse(r)
       PROVE  QuotaInv'
    BY <1>12 DEF Lapse, runVars, clientVars, TypeOK, RequestInv, RowInv,
                 ReservationIffLive, UsageCountsReservations, ActiveOf
<1>13. CASE ScanStale
  <2>1. TypeOK'
      BY <1>13 DEF ScanStale, runVars, quotaVars, clientVars, TypeOK
  <2>2. RequestInv' /\ RowInv' /\ ReservationIffLive' /\ UsageCountsReservations'
      BY <1>13 DEF ScanStale, runVars, quotaVars, clientVars, RequestInv,
                   RowInv, ReservationIffLive, UsageCountsReservations, ActiveOf
  <2>. QED  BY <2>1, <2>2
<1>14. ASSUME NEW r \in Runs, Expire(r)
       PROVE  QuotaInv'
  <2>0. /\ scanned' = scanned \ {r}
        /\ UNCHANGED <<sub, cancelReq, policy, project, pc, asked, mine, seen>>
      BY <1>14 DEF Expire, clientVars
  <2>1. CASE StillStale(r)
    <3>1. state[r] \in LiveState /\ resv[r] = "active"
        BY <2>1 DEF StillStale, ReservationIffLive
    <3>2. ~IsTerminal(state[r])
        BY <3>1, TerminalStates DEF LiveState, TerminalState, RunState
    <3>3. /\ ReleaseRun(r, "expired")
          /\ \E t \in TerminalState : state' = [state EXCEPT ![r] = t]
        BY <1>14, <2>1, <3>2 DEF Expire, TerminalState
    <3>4. /\ resv' = [resv EXCEPT ![r] = "expired"]
          /\ lease' = lease
          /\ usage' \in [Classes -> Nat]
          /\ UsageCountsReservations'
        BY <2>0, <3>1, <3>3, ReleaseCounts
    <3>5. TypeOK'
        BY <2>0, <3>3, <3>4 DEF TypeOK, TerminalState, RunState
    <3>6. RequestInv' /\ RowInv'
        BY <2>0, <3>1, <3>3 DEF RequestInv, RowInv, TypeOK, TerminalState, LiveState
    <3>7. ReservationIffLive'
        BY <3>3, <3>4 DEF ReservationIffLive, TypeOK, TerminalState, LiveState
    <3>. QED  BY <3>4, <3>5, <3>6, <3>7
  <2>2. CASE ~StillStale(r)
    <3>1. UNCHANGED <<state, resv, lease, usage>>
        BY <1>14, <2>2 DEF Expire, quotaVars
    <3>. QED  BY <2>0, <3>1 DEF TypeOK, RequestInv, RowInv, ReservationIffLive,
                               UsageCountsReservations, ActiveOf
  <2>. QED  BY <2>1, <2>2
<1>15. CASE UNCHANGED vars
    BY <1>15 DEF vars, TypeOK, RequestInv, RowInv, ReservationIffLive,
                 UsageCountsReservations, ActiveOf
<1>. QED
    BY <1>1, <1>2, <1>3, <1>4, <1>5, <1>6, <1>7, <1>8, <1>9, <1>10, <1>11, <1>12,
       <1>13, <1>14, <1>15 DEF Next

(* Nothing is stored or reserved at first. *)
LEMMA QuotaInit == Init => QuotaInv
<1> SUFFICES ASSUME Init PROVE QuotaInv
    OBVIOUS
<1>1. TypeOK /\ RequestInv /\ RowInv /\ ReservationIffLive
    BY DEF Init, TypeOK, RequestInv, RowInv, ReservationIffLive, LiveState
<1>2. \A k \in Classes : ActiveOf(k) = {}
    BY DEF Init, ActiveOf
<1>3. UsageCountsReservations
    BY <1>2, FS_EmptySet DEF Init, UsageCountsReservations
<1>. QED  BY <1>1, <1>3 DEF QuotaInv

(* Types are right, each usage counter equals the number of ACTIVE         *)
(* reservations of its class, and a run holds one exactly while it is      *)
(* live, however submissions, worker transitions, cancellations, policy    *)
(* changes and reaper batches interleave.                                  *)
THEOREM QuotaCorrect == Spec => []QuotaInv
BY QuotaInit, QuotaStep, PTL DEF Spec

(* Every variable keeps its type; that a released counter stays a natural  *)
(* number needs the whole invariant (release_run).                         *)
THEOREM TypeCorrect == Spec => []TypeOK
<1>1. QuotaInv => TypeOK
    BY DEF QuotaInv
<1>. QED  BY <1>1, QuotaCorrect, PTL

(* The counters of QuotaUsage are exact (UsageCountsReservations).         *)
THEOREM UsageExact == Spec => []UsageCountsReservations
<1>1. QuotaInv => UsageCountsReservations
    BY DEF QuotaInv
<1>. QED  BY <1>1, QuotaCorrect, PTL

(* A run has an ACTIVE reservation exactly while it is live.               *)
THEOREM ReservationsExact == Spec => []ReservationIffLive
<1>1. QuotaInv => ReservationIffLive
    BY DEF QuotaInv
<1>. QED  BY <1>1, QuotaCorrect, PTL

-----------------------------------------------------------------------------
(* Idempotency. *)

(* Steps that neither touch a request's variables nor commit a run row.    *)
Quiet == UNCHANGED <<sub, pc, asked, mine>> /\ Stored' = Stored

(* A request ends without a commit. *)
Ended(c) == Finish(c, NoRun) /\ UNCHANGED <<runVars, project>>

(* The steps of workers, API cancellation, clock and reaper leave the requests
   in progress and the stored submissions alone. *)
LEMMA QuietSteps ==
    ASSUME QuotaInv, NEW r \in Runs,
           \/ RequestCancellation(r) \/ ObserveCancellation(r) \/ Prepare(r)
           \/ BeginExecution(r) \/ Complete(r) \/ Fail(r)
           \/ AcknowledgeCancellation(r) \/ Lapse(r) \/ Expire(r)
    PROVE  Quiet /\ project' = project
<1>1. UNCHANGED <<sub, pc, asked, mine, project>>
    BY DEF RequestCancellation, ObserveCancellation, Prepare, BeginExecution, Complete,
           Fail, AcknowledgeCancellation, Lapse, Expire, Terminate, runVars, clientVars
<1>2. /\ state[r] # "absent" \/ state' = state
      /\ \E t \in RunState : state' = [state EXCEPT ![r] = t] \/ state' = state
  <2>1. CASE \/ RequestCancellation(r) \/ ObserveCancellation(r) \/ Prepare(r)
             \/ BeginExecution(r) \/ Complete(r) \/ Fail(r) \/ AcknowledgeCancellation(r)
             \/ Lapse(r)
      BY <2>1, TransitionFacts
      DEF RequestCancellation, ObserveCancellation, Prepare, BeginExecution, Complete,
          Fail, AcknowledgeCancellation, Lapse, Terminate, runVars, RunState
  <2>2. CASE Expire(r)
    <3>1. StillStale(r) => state[r] # "absent"
        BY DEF StillStale, QuotaInv, ReservationIffLive, LiveState
    <3>. QED  BY <2>2, <3>1 DEF Expire, RunState
  <2>. QED  BY <2>1, <2>2
<1>3. Stored' = Stored
    BY <1>2 DEF Stored, QuotaInv, TypeOK, RunState
<1>. QED  BY <1>1, <1>3 DEF Quiet

(* The kinds of step the remaining invariants distinguish.                 *)
LEMMA StepKinds ==
    ASSUME QuotaInv, [Next]_vars
    PROVE  \/ Quiet /\ (project' = project \/ \E p \in Projects : RequestDeletion(p))
           \/ \E c \in Clients :
                 \/ \E q \in Submission : pc[c] = "idle" /\ ReadKey(c, q)
                 \/ Insert(c) \/ ReadPolicy(c) \/ Reserve(c) \/ Ended(c)
<1>1. ASSUME NEW c \in Clients, NEW k \in Keys, NEW p \in Projects, NEW s \in Specs,
             Submit(c, k, p, s)
      PROVE  \E q \in Submission : pc[c] = "idle" /\ ReadKey(c, q)
    BY <1>1 DEF Submit, Submission
<1>2. ASSUME NEW c \in Clients, NEW k \in Keys, NEW r \in Runs, Retry(c, k, r)
      PROVE  \E q \in Submission : pc[c] = "idle" /\ ReadKey(c, q)
  <2> DEFINE q == [key |-> k, project |-> sub[r].project, spec |-> sub[r].spec,
                   parent |-> r, attempt |-> sub[r].attempt + 1]
  <2>1. sub[r] \in Submission
      BY <1>2 DEF Retry, Stored, RowInv, QuotaInv
  <2>2. q \in Submission
      BY <2>1 DEF Submission
  <2>3. pc[c] = "idle" /\ ReadKey(c, q)
      BY <1>2 DEF Retry
  <2>. QED  BY <2>2, <2>3
<1>3. ASSUME NEW c \in Clients, Rollback(c) \/ Return(c)
      PROVE  Ended(c)
    BY <1>3 DEF Rollback, Return, Ended
<1>4. ASSUME \/ \E p \in Projects : RequestDeletion(p)
             \/ \E p \in Policies : ReplacePolicy(p)
             \/ ScanStale \/ UNCHANGED vars
      PROVE  Quiet /\ (project' = project \/ \E p \in Projects : RequestDeletion(p))
    BY <1>4 DEF RequestDeletion, ReplacePolicy, ScanStale, vars, runVars, clientVars,
                Quiet, Stored
<1>. QED  BY <1>1, <1>2, <1>3, <1>4, QuietSteps DEF Next

(* No two rows share a key, nor do an open insert and a row, nor two open  *)
(* inserts; an answer is the row of the key that was asked for.            *)
KeyInv ==
    /\ \A r, q \in Stored : sub[r].key = sub[q].key => r = q
    /\ \A c \in Clients : pc[c] \in {"policy", "reserve"} =>
          IdempotentRun(asked[c].key) = {}
    /\ \A c, d \in Clients :
          pc[c] \in {"policy", "reserve"} /\ pc[d] \in {"policy", "reserve"}
              /\ asked[c].key = asked[d].key => c = d
    /\ \A c \in Clients : pc[c] = "done" =>
          SameSubmission(mine[c], asked[c]) /\ sub[mine[c]].key = asked[c].key

(* Every step keeps the key invariant: an insert waits for the open insert *)
(* of its key (_submit_in_session).                                        *)
LEMMA KeyStep == QuotaInv /\ KeyInv /\ [Next]_vars => KeyInv'
<1> SUFFICES ASSUME QuotaInv, KeyInv, [Next]_vars PROVE KeyInv'
    OBVIOUS
<1>1. CASE Quiet
    BY <1>1 DEF Quiet, KeyInv, IdempotentRun, SameSubmission
<1>2. ASSUME NEW c \in Clients, Ended(c)
      PROVE  KeyInv'
    BY <1>2 DEF Ended, Finish, runVars, KeyInv, IdempotentRun, SameSubmission, Stored,
                QuotaInv, TypeOK
<1>3. ASSUME NEW c \in Clients, NEW q \in Submission, NEW r \in IdempotentRun(q.key),
             Replay(c, r, q), UNCHANGED <<runVars, project>>
      PROVE  KeyInv'
  <2>1. CASE Finish(c, NoRun)
      BY <1>2, <1>3, <2>1 DEF Ended
  <2>2. CASE ~Finish(c, NoRun)
      BY <1>3, <2>2 DEF Replay, runVars, KeyInv, IdempotentRun, SameSubmission, Stored,
                        QuotaInv, TypeOK
  <2>. QED  BY <2>1, <2>2
<1>4. ASSUME NEW c \in Clients, NEW q \in Submission, pc[c] = "idle", ReadKey(c, q)
      PROVE  KeyInv'
  <2>1. CASE Start(c, q)
      BY <1>4, <2>1 DEF ReadKey, Start, runVars, KeyInv, IdempotentRun, SameSubmission,
                        Stored, QuotaInv, TypeOK
  <2>2. CASE \E r \in IdempotentRun(q.key) : Replay(c, r, q)
      BY <1>3, <1>4, <2>2 DEF ReadKey
  <2>. QED  BY <1>4, <2>1, <2>2 DEF ReadKey
<1>5. ASSUME NEW c \in Clients, Insert(c)
      PROVE  KeyInv'
  <2>0. pc[c] = "insert" /\ asked[c] \in Submission /\ UNCHANGED <<runVars, project>>
      BY <1>5 DEF Insert, QuotaInv, RequestInv
  <2>1. CASE /\ IdempotentRun(asked[c].key) = {}
             /\ pc' = [pc EXCEPT ![c] = "policy"]
             /\ \E r \in Runs : mine' = [mine EXCEPT ![c] = r]
             /\ UNCHANGED <<asked, seen>>
    <3>1. \A d \in Clients \ {c} :
            pc[d] \in {"policy", "reserve"} => asked[d].key # asked[c].key
        BY <1>5 DEF Insert, KeyContended
    <3>. QED  BY <2>0, <2>1, <3>1 DEF runVars, KeyInv, IdempotentRun, SameSubmission,
                                      Stored, QuotaInv, TypeOK
  <2>2. CASE \E r \in IdempotentRun(asked[c].key) : Replay(c, r, asked[c])
      BY <1>3, <2>0, <2>2
  <2>. QED  BY <1>5, <2>1, <2>2 DEF Insert
<1>6. ASSUME NEW c \in Clients, ReadPolicy(c)
      PROVE  KeyInv'
  <2>1. CASE Finish(c, NoRun)
      BY <1>2, <1>6, <2>1 DEF Ended, ReadPolicy
  <2>2. CASE ~Finish(c, NoRun)
      BY <1>6, <2>2 DEF ReadPolicy, runVars, KeyInv, IdempotentRun, SameSubmission,
                        Stored, QuotaInv, TypeOK
  <2>. QED  BY <2>1, <2>2
<1>7. ASSUME NEW c \in Clients, Reserve(c)
      PROVE  KeyInv'
  <2>1. CASE Finish(c, NoRun) /\ UNCHANGED <<state, sub>>
      BY <1>2, <1>7, <2>1 DEF Ended, Reserve, runVars
  <2>2. CASE /\ state' = [state EXCEPT ![mine[c]] = "queued"]
             /\ sub' = [sub EXCEPT ![mine[c]] = asked[c]]
             /\ Finish(c, mine[c])
    <3>1. /\ pc[c] = "reserve" /\ mine[c] \in Runs /\ state[mine[c]] = "absent"
          /\ pc' = [pc EXCEPT ![c] = "done"] /\ mine' = mine /\ asked' = asked
      <4>1. /\ pc[c] = "reserve" /\ mine[c] \in Runs /\ state[mine[c]] = "absent"
          BY <1>7 DEF Reserve, QuotaInv, RequestInv
      <4>2. /\ pc' = [pc EXCEPT ![c] = "done"] /\ asked' = asked
            /\ mine' = [mine EXCEPT ![c] = mine[c]]
          BY <2>2, <4>1, RunsAssumption DEF Finish
      <4>. QED  BY <4>1, <4>2 DEF QuotaInv, TypeOK
    <3>2. Stored' = Stored \cup {mine[c]} /\ mine[c] \notin Stored
        BY <2>2, <3>1 DEF Stored, QuotaInv, TypeOK
    <3>3. \A r \in Stored : sub'[r] = sub[r] /\ sub[r].key # asked[c].key
        BY <2>2, <3>1, <3>2 DEF KeyInv, IdempotentRun, QuotaInv, TypeOK, Stored
    <3>4. sub'[mine[c]] = asked[c]
        BY <2>2, <3>1 DEF QuotaInv, TypeOK
    <3>5. \A d \in Clients : pc[d] = "done" => mine[d] \in Stored
        BY DEF QuotaInv, RequestInv, Stored
    <3>6. \A r, q \in Stored' : sub'[r].key = sub'[q].key => r = q
        BY <3>2, <3>3, <3>4 DEF KeyInv
    <3>7. \A d \in Clients : pc'[d] \in {"policy", "reserve"} =>
            IdempotentRun(asked[d].key)' = {}
      <4> SUFFICES ASSUME NEW d \in Clients, pc'[d] \in {"policy", "reserve"}
                   PROVE  IdempotentRun(asked[d].key)' = {}
          OBVIOUS
      <4>1. d # c /\ pc[d] \in {"policy", "reserve"}
          BY <3>1 DEF QuotaInv, TypeOK
      <4>2. asked[d].key # asked[c].key /\ IdempotentRun(asked[d].key) = {}
          BY <4>1, <3>1 DEF KeyInv
      <4>. QED  BY <3>1, <3>2, <3>3, <3>4, <4>2 DEF IdempotentRun
    <3>8. \A d, e \in Clients :
            pc'[d] \in {"policy", "reserve"} /\ pc'[e] \in {"policy", "reserve"}
              /\ asked'[d].key = asked'[e].key => d = e
        BY <3>1 DEF KeyInv, QuotaInv, TypeOK
    <3>9. \A d \in Clients : pc'[d] = "done" =>
            SameSubmission(mine[d], asked[d])' /\ sub'[mine'[d]].key = asked'[d].key
      <4> SUFFICES ASSUME NEW d \in Clients, pc'[d] = "done"
                   PROVE  SameSubmission(mine[d], asked[d])'
                            /\ sub'[mine'[d]].key = asked'[d].key
          OBVIOUS
      <4>1. CASE d = c
          BY <3>1, <3>4, <4>1 DEF SameSubmission
      <4>2. CASE d # c
          BY <3>1, <3>3, <3>5, <4>2 DEF SameSubmission, KeyInv, QuotaInv, TypeOK
      <4>. QED  BY <4>1, <4>2
    <3>. QED  BY <3>6, <3>7, <3>8, <3>9 DEF KeyInv
  <2>. QED  BY <1>7, <2>1, <2>2 DEF Reserve
<1>. QED  BY StepKinds, <1>1, <1>2, <1>4, <1>5, <1>6, <1>7

(* One idempotency key names one run: every answer to the key is that run  *)
(* and matches what was asked, for any number of racing submissions and    *)
(* retries (_submit_in_session).                                           *)
THEOREM IdempotencyCorrect == Spec => []AnswersAgree
<1>1. Init => KeyInv
    BY DEF Init, KeyInv, Stored
<1>2. QuotaInv /\ KeyInv => AnswersAgree
    BY DEF QuotaInv, RequestInv, KeyInv, AnswersAgree, Stored
<1>. QED  BY <1>1, <1>2, KeyStep, QuotaCorrect, PTL DEF Spec

-----------------------------------------------------------------------------
(* Finality and project deletion. *)

(* No step leaves a terminal state or rewrites a stored submission.        *)
LEMMA FinalStep ==
    QuotaInv /\ [Next]_vars =>
        \A r \in Stored : /\ sub'[r] = sub[r]
                          /\ state[r] \in TerminalState => state'[r] = state[r]
<1> SUFFICES ASSUME QuotaInv, [Next]_vars, NEW r \in Stored
             PROVE  /\ sub'[r] = sub[r]
                    /\ state[r] \in TerminalState => state'[r] = state[r]
    OBVIOUS
<1>1. r \in Runs /\ state \in [Runs -> RunState \cup {"absent"}]
        /\ sub \in [Runs -> Submission \cup {NoSub}] /\ state[r] # "absent"
    BY DEF QuotaInv, TypeOK, Stored
<1>2. ASSUME NEW c \in Clients, Reserve(c)
      PROVE  sub'[r] = sub[r] /\ state'[r] = state[r]
    BY <1>1, <1>2 DEF Reserve, QuotaInv, RequestInv
<1>3. ASSUME NEW q \in Runs,
             \/ RequestCancellation(q) \/ ObserveCancellation(q) \/ Prepare(q)
             \/ BeginExecution(q) \/ Complete(q) \/ Fail(q) \/ AcknowledgeCancellation(q)
      PROVE  sub' = sub /\ (state[r] \in TerminalState => state'[r] = state[r])
    BY <1>1, <1>3, TransitionFacts
    DEF RequestCancellation, ObserveCancellation, Prepare, BeginExecution, Complete, Fail,
        AcknowledgeCancellation, Terminate, TerminalState
<1>4. ASSUME NEW q \in Runs, Expire(q)
      PROVE  sub' = sub /\ (state[r] \in TerminalState => state'[r] = state[r])
  <2>1. state[q] \in TerminalState => IsTerminal(state[q])
      BY TerminalStates DEF TerminalState, RunState
  <2>. QED  BY <1>1, <1>4, <2>1 DEF Expire
<1>5. ASSUME \/ \E c \in Clients, k \in Keys, p \in Projects, s \in Specs : Submit(c, k, p, s)
             \/ \E c \in Clients, k \in Keys, q \in Runs : Retry(c, k, q)
             \/ \E c \in Clients : Insert(c) \/ ReadPolicy(c) \/ Rollback(c) \/ Return(c)
             \/ \E p \in Projects : RequestDeletion(p)
             \/ \E p \in Policies : ReplacePolicy(p)
             \/ \E q \in Runs : Lapse(q)
             \/ ScanStale \/ UNCHANGED vars
      PROVE  sub' = sub /\ state' = state
    BY <1>5 DEF Submit, Retry, ReadKey, Insert, ReadPolicy, Rollback, Return,
                RequestDeletion, ReplacePolicy, Lapse, ScanStale, vars, runVars
<1>. QED  BY <1>2, <1>3, <1>4, <1>5 DEF Next

(* Terminal rows are never overwritten and a stored submission never       *)
(* changes, whichever of the writers acts (TerminalFinal).                 *)
THEOREM TerminalRowsFinal == Spec => TerminalFinal
<1>1. QuotaInv /\ [Next]_vars =>
        [\A r \in Stored : /\ sub'[r] = sub[r]
                           /\ IsTerminal(state[r]) => state'[r] = state[r]]_vars
    BY FinalStep, TerminalStates DEF Stored, QuotaInv, TypeOK
<1>. QED  BY <1>1, QuotaCorrect, PTL DEF Spec, TerminalFinal

(* A request about to commit holds the key-share lock of an active         *)
(* project, so a deletion request cannot have seen the project quiet.      *)
ProjectInv ==
    /\ \A c \in Clients : pc[c] = "reserve" => project[asked[c].project] = "active"
    /\ \A r \in Stored : project[sub[r].project] = "deletion_pending" =>
          state[r] \in TerminalState

(* Every step keeps the project invariant: a deletion request waits for    *)
(* the open inserts of its project (ProjectDeletionService.request).       *)
LEMMA ProjectStep == QuotaInv /\ ProjectInv /\ [Next]_vars => ProjectInv'
<1> SUFFICES ASSUME QuotaInv, ProjectInv, [Next]_vars PROVE ProjectInv'
    OBVIOUS
<1>0. \A r \in Stored : /\ sub'[r] = sub[r]
                        /\ state[r] \in TerminalState => state'[r] = state[r]
    BY FinalStep
<1>1. CASE Quiet /\ project' = project
    BY <1>0, <1>1 DEF Quiet, ProjectInv
<1>2. ASSUME NEW p \in Projects, RequestDeletion(p)
      PROVE  ProjectInv'
  <2>1. /\ \A c \in Clients : pc[c] = "reserve" => asked[c].project # p
        /\ \A r \in Stored : sub[r].project = p => state[r] \in TerminalState
      BY <1>2, TerminalStates
      DEF RequestDeletion, SharesProject, Stored, QuotaInv, TypeOK, RowInv
  <2>2. /\ UNCHANGED <<state, sub, pc, asked>>
        /\ project' = [project EXCEPT ![p] = "deletion_pending"]
      BY <1>2 DEF RequestDeletion, runVars, clientVars
  <2>3. /\ \A c \in Clients : pc[c] = "reserve" => asked[c].project \in Projects
        /\ \A r \in Stored : sub[r].project \in Projects
      BY DEF QuotaInv, RequestInv, RowInv, Stored, Submission
  <2>. QED  BY <2>1, <2>2, <2>3 DEF ProjectInv, Stored, QuotaInv, TypeOK
<1>3. ASSUME NEW c \in Clients, Ended(c)
      PROVE  ProjectInv'
    BY <1>3 DEF Ended, Finish, runVars, ProjectInv, Stored, QuotaInv, TypeOK
<1>4. ASSUME NEW c \in Clients, UNCHANGED <<runVars, project>>,
             pc' \in {[pc EXCEPT ![c] = t] : t \in {"insert", "policy", "done"}},
             asked' = asked \/ \E q \in Submission : asked' = [asked EXCEPT ![c] = q]
      PROVE  ProjectInv'
    BY <1>4 DEF runVars, ProjectInv, Stored, QuotaInv, TypeOK
<1>5. ASSUME NEW c \in Clients, NEW q \in Submission, NEW r, Replay(c, r, q),
             UNCHANGED <<runVars, project>>
      PROVE  ProjectInv'
    BY <1>3, <1>4, <1>5 DEF Replay, Ended
<1>6. ASSUME NEW c \in Clients, NEW q \in Submission, ReadKey(c, q)
      PROVE  ProjectInv'
    BY <1>4, <1>5, <1>6 DEF ReadKey, Start
<1>7. ASSUME NEW c \in Clients, Insert(c)
      PROVE  ProjectInv'
  <2>1. asked[c] \in Submission /\ UNCHANGED <<runVars, project>>
      BY <1>7 DEF Insert, QuotaInv, RequestInv
  <2>. QED  BY <1>4, <1>5, <1>7, <2>1 DEF Insert
<1>8. ASSUME NEW c \in Clients, ReadPolicy(c)
      PROVE  ProjectInv'
  <2>1. CASE Finish(c, NoRun)
      BY <1>3, <1>8, <2>1 DEF Ended, ReadPolicy
  <2>2. CASE ~Finish(c, NoRun)
      BY <1>8, <2>2 DEF ReadPolicy, runVars, ProjectInv, Stored, QuotaInv, TypeOK
  <2>. QED  BY <2>1, <2>2
<1>9. ASSUME NEW c \in Clients, Reserve(c)
      PROVE  ProjectInv'
  <2>1. CASE Finish(c, NoRun) /\ UNCHANGED <<state, sub>>
      BY <1>3, <1>9, <2>1 DEF Ended, Reserve, runVars
  <2>2. CASE /\ state' = [state EXCEPT ![mine[c]] = "queued"]
             /\ sub' = [sub EXCEPT ![mine[c]] = asked[c]]
             /\ Finish(c, mine[c])
    <3>1. /\ pc[c] = "reserve" /\ mine[c] \in Runs /\ state[mine[c]] = "absent"
          /\ project' = project
        BY <1>9 DEF Reserve, QuotaInv, RequestInv
    <3>2. pc' = [pc EXCEPT ![c] = "done"] /\ asked' = asked
        BY <2>2, <3>1, RunsAssumption DEF Finish
    <3>3. Stored' = Stored \cup {mine[c]}
        BY <2>2, <3>1 DEF Stored, QuotaInv, TypeOK
    <3>4. project[asked[c].project] = "active" /\ sub'[mine[c]] = asked[c]
        BY <2>2, <3>1 DEF ProjectInv, QuotaInv, TypeOK
    <3>. QED  BY <1>0, <3>1, <3>2, <3>3, <3>4 DEF ProjectInv, QuotaInv, TypeOK
  <2>. QED  BY <1>9, <2>1, <2>2 DEF Reserve
<1>. QED  BY StepKinds, <1>1, <1>2, <1>3, <1>6, <1>7, <1>8, <1>9

(* A project whose deletion was requested has no live run and gets none,   *)
(* although retry locks no project row (ProjectDeletionService.request).   *)
THEOREM DeletionCorrect == Spec => []DeletedProjectsQuiet
<1>1. Init => ProjectInv
    BY DEF Init, ProjectInv, Stored
<1>2. QuotaInv /\ ProjectInv => DeletedProjectsQuiet
    BY TerminalStates DEF QuotaInv, TypeOK, Stored, RowInv, ProjectInv, DeletedProjectsQuiet,
                          TerminalState, RunState
<1>. QED  BY <1>1, <1>2, ProjectStep, QuotaCorrect, PTL DEF Spec

-----------------------------------------------------------------------------
(* Lineage and evidence. *)

(* A submission that names a parent repeats a stored run that ended badly. *)
Descends(s) ==
    s.parent # NoRun =>
        /\ s.parent \in Stored
        /\ state[s.parent] \in {"failed", "cancelled"}
        /\ s.spec = sub[s.parent].spec
        /\ s.attempt = sub[s.parent].attempt + 1

(* So do the stored submissions and those of the open requests: a request  *)
(* uses what retry read of its source long after it was read.              *)
LineageInv ==
    /\ \A c \in Clients : pc[c] \in Open => Descends(asked[c])
    /\ \A r \in Stored : Descends(sub[r]) /\ sub[r].parent # r

(* A descent is never undone, since the source's row is final.             *)
LEMMA DescentStands ==
    QuotaInv /\ [Next]_vars => \A s \in Submission : Descends(s) => Descends(s)'
<1> SUFFICES ASSUME QuotaInv, [Next]_vars, NEW s \in Submission, Descends(s),
                    s.parent # NoRun
             PROVE  Descends(s)'
    BY DEF Descends
<1> DEFINE p == s.parent
<1>1. /\ p \in Stored /\ state[p] \in {"failed", "cancelled"}
      /\ s.spec = sub[p].spec /\ s.attempt = sub[p].attempt + 1
    BY DEF Descends
<1>2. sub'[p] = sub[p] /\ state'[p] = state[p]
    BY <1>1, FinalStep DEF TerminalState
<1>3. p \in Stored'
    BY <1>1, <1>2 DEF Stored
<1>. QED  BY <1>1, <1>2, <1>3 DEF Descends

(* Every step keeps the lineage: an insert carries what its request asked. *)
LEMMA LineageStep == QuotaInv /\ LineageInv /\ [Next]_vars => LineageInv'
<1> SUFFICES ASSUME QuotaInv, LineageInv, [Next]_vars PROVE LineageInv'
    OBVIOUS
<1>0. /\ \A c \in Clients : pc[c] \in Open => asked[c] \in Submission /\ Descends(asked[c])
      /\ \A r \in Stored : sub[r] \in Submission /\ sub'[r] = sub[r] /\ sub[r].parent # r
      /\ \A r \in Stored : Descends(sub[r])
      /\ \A s \in Submission : Descends(s) => Descends(s)'
    BY DescentStands, FinalStep
    DEF LineageInv, QuotaInv, RequestInv, RowInv, Stored, Open
<1>1. ASSUME Stored' = Stored,
             \A c \in Clients : pc'[c] \in Open =>
                 \/ pc[c] \in Open /\ asked'[c] = asked[c]
                 \/ asked'[c] \in Submission /\ Descends(asked'[c])
      PROVE  LineageInv'
  <2>1. ASSUME NEW c \in Clients, pc'[c] \in Open
        PROVE  Descends(asked[c])'
    <3>1. asked'[c] \in Submission /\ Descends(asked'[c])
        BY <1>0, <1>1, <2>1
    <3>. QED  BY <1>0, <3>1 DEF Descends
  <2>2. ASSUME NEW r \in Stored'
        PROVE  Descends(sub[r])' /\ sub'[r].parent # r
      BY <1>0, <1>1, <2>2 DEF Descends
  <2>. QED  BY <2>1, <2>2 DEF LineageInv, Open
<1>2. CASE Quiet
    BY <1>1, <1>2 DEF Quiet
<1>3. ASSUME NEW c \in Clients, Ended(c)
      PROVE  LineageInv'
    BY <1>1, <1>3 DEF Ended, Finish, runVars, Stored, QuotaInv, TypeOK, Open
<1>4. ASSUME NEW c \in Clients, NEW q \in Submission, NEW r, Replay(c, r, q),
             UNCHANGED runVars
      PROVE  LineageInv'
    BY <1>1, <1>4 DEF Replay, Finish, runVars, Stored, QuotaInv, TypeOK, Open
<1>5. ASSUME NEW c \in Clients, NEW q \in Submission, Descends(q), ReadKey(c, q)
      PROVE  LineageInv'
  <2>1. UNCHANGED runVars
      BY <1>5 DEF ReadKey
  <2>2. CASE Start(c, q)
    <3>1. \A d \in Clients : \/ asked'[d] = q
                             \/ pc'[d] = pc[d] /\ asked'[d] = asked[d]
      <4>1. pc' = [pc EXCEPT ![c] = "insert"] /\ asked' = [asked EXCEPT ![c] = q]
          BY <2>2 DEF Start
      <4>. QED  BY <4>1 DEF QuotaInv, TypeOK
    <3>. QED  BY <1>1, <1>5, <2>1, <3>1 DEF runVars, Stored
  <2>3. CASE \E r \in IdempotentRun(q.key) : Replay(c, r, q)
      BY <1>4, <2>1, <2>3
  <2>. QED  BY <1>5, <2>2, <2>3 DEF ReadKey
<1>6. ASSUME NEW c \in Clients, NEW k \in Keys, NEW p \in Projects, NEW s \in Specs,
             Submit(c, k, p, s)
      PROVE  LineageInv'
  <2> DEFINE q == [key |-> k, project |-> p, spec |-> s, parent |-> NoRun, attempt |-> 1]
  <2>1. q \in Submission /\ Descends(q)
      BY DEF Submission, Descends
  <2>2. ReadKey(c, q)
      BY <1>6 DEF Submit
  <2>. QED  BY <1>5, <2>1, <2>2
<1>7. ASSUME NEW c \in Clients, NEW k \in Keys, NEW r \in Runs, Retry(c, k, r)
      PROVE  LineageInv'
  <2> DEFINE q == [key |-> k, project |-> sub[r].project, spec |-> sub[r].spec,
                   parent |-> r, attempt |-> sub[r].attempt + 1]
  <2>1. sub[r] \in Submission /\ r \in Stored /\ Retryable(r)
      BY <1>0, <1>7 DEF Retry
  <2>2. q \in Submission /\ Descends(q)
      BY <2>1 DEF Submission, Descends, Retryable
  <2>3. ReadKey(c, q)
      BY <1>7 DEF Retry
  <2>. QED  BY <1>5, <2>2, <2>3
<1>8. ASSUME NEW c \in Clients, Insert(c)
      PROVE  LineageInv'
  <2>1. asked[c] \in Submission /\ UNCHANGED runVars /\ pc[c] = "insert"
      BY <1>8 DEF Insert, QuotaInv, RequestInv
  <2>2. CASE pc' = [pc EXCEPT ![c] = "policy"] /\ asked' = asked
      BY <1>1, <2>1, <2>2 DEF runVars, Stored, QuotaInv, TypeOK, Open
  <2>. QED  BY <1>4, <1>8, <2>1, <2>2 DEF Insert
<1>9. ASSUME NEW c \in Clients, ReadPolicy(c)
      PROVE  LineageInv'
    BY <1>1, <1>9 DEF ReadPolicy, Finish, runVars, Stored, QuotaInv, TypeOK, Open
<1>10. ASSUME NEW c \in Clients, Reserve(c)
       PROVE  LineageInv'
  <2>1. CASE Finish(c, NoRun) /\ UNCHANGED <<state, sub>>
      BY <1>1, <1>10, <2>1 DEF Finish, Stored, QuotaInv, TypeOK, Open
  <2>2. CASE /\ state' = [state EXCEPT ![mine[c]] = "queued"]
             /\ sub' = [sub EXCEPT ![mine[c]] = asked[c]]
             /\ Finish(c, mine[c])
    <3>1. /\ pc[c] = "reserve" /\ mine[c] \in Runs /\ state[mine[c]] = "absent"
        BY <1>10 DEF Reserve, QuotaInv, RequestInv
    <3>2. pc' = [pc EXCEPT ![c] = "done"] /\ asked' = asked
        BY <2>2, <3>1, RunsAssumption DEF Finish
    <3>3. Stored' = Stored \cup {mine[c]} /\ mine[c] \notin Stored
        BY <2>2, <3>1 DEF Stored, QuotaInv, TypeOK
    <3>4. sub'[mine[c]] = asked[c] /\ asked[c] \in Submission /\ Descends(asked[c])
        BY <1>0, <2>2, <3>1 DEF QuotaInv, TypeOK, Open
    <3>5. ASSUME NEW d \in Clients, pc'[d] \in Open
          PROVE  Descends(asked[d])'
      <4>1. asked'[d] = asked[d] /\ asked[d] \in Submission /\ Descends(asked[d])
          BY <1>0, <3>2, <3>5 DEF QuotaInv, TypeOK, Open
      <4>. QED  BY <1>0, <4>1 DEF Descends
    <3>6. ASSUME NEW r \in Stored'
          PROVE  Descends(sub[r])' /\ sub'[r].parent # r
      <4>1. CASE r = mine[c]
        <5>1. Descends(asked[c])'
            BY <1>0, <3>2, <3>4 DEF Descends
        <5>2. sub'[r].parent # r
            BY <3>1, <3>3, <3>4, <4>1, RunsAssumption DEF Descends
        <5>. QED  BY <3>2, <3>4, <4>1, <5>1, <5>2 DEF Descends
      <4>2. CASE r # mine[c]
          BY <1>0, <3>3, <3>6, <4>2 DEF Descends
      <4>. QED  BY <4>1, <4>2
    <3>. QED  BY <3>5, <3>6 DEF LineageInv, Open
  <2>. QED  BY <1>10, <2>1, <2>2 DEF Reserve
<1>11. ASSUME NEW c \in Clients, Rollback(c) \/ Return(c)
       PROVE  LineageInv'
    BY <1>3, <1>11 DEF Rollback, Return, Ended
<1>12. ASSUME \/ \E p \in Projects : RequestDeletion(p)
              \/ \E p \in Policies : ReplacePolicy(p)
              \/ ScanStale \/ UNCHANGED vars
       PROVE  LineageInv'
    BY <1>2, <1>12 DEF RequestDeletion, ReplacePolicy, ScanStale, vars, runVars, clientVars,
                       Quiet, Stored
<1>. QED
    BY QuietSteps, <1>2, <1>6, <1>7, <1>8, <1>9, <1>10, <1>11, <1>12 DEF Next

(* What the tables say of one run, fact by fact.                           *)
EvidenceOf(r) ==
    /\ \A t \in TerminalState : <<r, t>> \in audit <=> state[r] = t
    /\ <<r, "quota.reservation_expired">> \in audit <=> resv[r] = "expired"
    /\ <<r, "run.cancel">> \in outbox <=> r \in cancelReq
    /\ r \in cancelReq => state[r] \in {"cancelling", "cancelled"}
    /\ state[r] = "absent" => resv[r] = "none"

EvidenceInv == \A r \in Runs : EvidenceOf(r)

(* A run that a step leaves alone keeps its evidence.                      *)
LEMMA EvidenceKept ==
    ASSUME NEW r \in Runs, EvidenceOf(r),
           state'[r] = state[r], resv'[r] = resv[r],
           r \in cancelReq' <=> r \in cancelReq,
           \A t \in TerminalState \cup {"quota.reservation_expired"} :
               <<r, t>> \in audit' <=> <<r, t>> \in audit,
           <<r, "run.cancel">> \in outbox' <=> <<r, "run.cancel">> \in outbox
    PROVE  EvidenceOf(r)'
BY DEF EvidenceOf

(* Every step keeps the evidence: the row, the reservation, the audit      *)
(* event and the intent of a transition are written together.              *)
LEMMA EvidenceStep == QuotaInv /\ EvidenceInv /\ [Next]_vars => EvidenceInv'
<1> SUFFICES ASSUME QuotaInv, EvidenceInv, [Next]_vars, NEW r \in Runs
             PROVE  EvidenceOf(r)'
    BY DEF EvidenceInv
<1>0. /\ EvidenceOf(r) /\ NoRun # r
      /\ state \in [Runs -> RunState \cup {"absent"}]
      /\ resv \in [Runs -> {"none", "active", "released", "expired"}]
      /\ resv[r] = "active" <=> state[r] \in LiveState
    BY RunsAssumption DEF EvidenceInv, QuotaInv, TypeOK, ReservationIffLive
<1>1. ASSUME NEW c \in Clients, Reserve(c)
      PROVE  EvidenceOf(r)'
  <2>1. mine[c] \in Runs /\ state[mine[c]] = "absent"
      BY <1>1 DEF Reserve, QuotaInv, RequestInv
  <2>2. CASE r = mine[c] /\ state' # state
    <3>1. /\ state'[r] = "queued" /\ resv'[r] = "active" /\ cancelReq' = cancelReq
          /\ audit' = audit \cup {<<r, "run.submitted">>}
          /\ outbox' = outbox \cup {<<r, "run.dispatch">>}
        BY <1>0, <1>1, <2>2 DEF Reserve
    <3>. QED  BY <1>0, <2>1, <2>2, <3>1 DEF EvidenceOf, TerminalState
  <2>3. CASE r # mine[c] \/ state' = state
    <3>1. /\ state'[r] = state[r] /\ resv'[r] = resv[r] /\ cancelReq' = cancelReq
          /\ \A t \in TerminalState \cup {"quota.reservation_expired"} :
                <<r, t>> \in audit' <=> <<r, t>> \in audit
          /\ <<r, "run.cancel">> \in outbox' <=> <<r, "run.cancel">> \in outbox
      <4>1. CASE UNCHANGED <<state, sub, resv, lease, usage, outbox, audit>>
          BY <1>1, <4>1 DEF Reserve
      <4>2. CASE /\ state' = [state EXCEPT ![mine[c]] = "queued"]
                 /\ resv' = [resv EXCEPT ![mine[c]] = "active"]
                 /\ outbox' = outbox \cup {<<mine[c], "run.dispatch">>}
                 /\ audit' = audit \cup {<<mine[c], "run.submitted">>}
        <5>1. state' # state
            BY <1>0, <2>1, <4>2
        <5>. QED  BY <1>0, <1>1, <2>3, <4>2, <5>1 DEF Reserve, TerminalState
      <4>. QED  BY <1>1, <4>1, <4>2 DEF Reserve
    <3>. QED  BY <1>0, <3>1, EvidenceKept
  <2>. QED  BY <2>2, <2>3
<1>2. ASSUME NEW q \in Runs, RequestCancellation(q)
      PROVE  EvidenceOf(r)'
  <2>1. /\ state[q] \in {"queued", "provisioning", "running"}
        /\ state' = [state EXCEPT ![q] = "cancelling"] /\ resv' = resv
        /\ cancelReq' = cancelReq \cup {q}
        /\ outbox' = outbox \cup {<<q, "run.cancel">>}
        /\ audit' = audit \cup {<<q, "run.cancellation_requested">>}
      BY <1>2, TransitionFacts DEF RequestCancellation, quotaVars
  <2>. QED  BY <1>0, <2>1 DEF EvidenceOf, TerminalState
<1>3. ASSUME NEW q \in Runs, ObserveCancellation(q)
      PROVE  EvidenceOf(r)'
    BY <1>0, <1>3 DEF ObserveCancellation, quotaVars, EvidenceOf, TerminalState
<1>4. ASSUME NEW q \in Runs, NEW from, NEW target \in TerminalState,
             Terminate(q, from, target), from \subseteq LiveState,
             q \in cancelReq => target = "cancelled"
      PROVE  EvidenceOf(r)'
  <2>1. /\ state[q] \in LiveState /\ state' = [state EXCEPT ![q] = target]
        /\ audit' = audit \cup {<<q, target>>}
        /\ cancelReq' = cancelReq /\ outbox' = outbox
      BY <1>4 DEF Terminate
  <2>2. resv' = [resv EXCEPT ![q] = "released"] \/ resv' = resv
      BY <1>4 DEF Terminate, ReleaseRun, quotaVars
  <2>3. resv[q] = "active"
      BY <2>1 DEF QuotaInv, ReservationIffLive
  <2>. QED  BY <1>0, <1>4, <2>1, <2>2, <2>3 DEF EvidenceOf, TerminalState, LiveState
<1>5. ASSUME NEW q \in Runs, Complete(q) \/ Fail(q) \/ AcknowledgeCancellation(q)
      PROVE  EvidenceOf(r)'
  <2>1. q \in cancelReq => state[q] \in {"cancelling", "cancelled"}
      BY DEF EvidenceInv, EvidenceOf
  <2>2. CASE Complete(q)
      BY <1>4, <2>1, <2>2 DEF Complete, Terminate, TerminalState, LiveState
  <2>3. CASE Fail(q)
      BY <1>4, <2>1, <2>3 DEF Fail, Terminate, TerminalState, LiveState
  <2>4. CASE AcknowledgeCancellation(q)
      BY <1>4, <2>1, <2>4 DEF AcknowledgeCancellation, Terminate, TerminalState, LiveState
  <2>. QED  BY <1>5, <2>2, <2>3, <2>4
<1>6. ASSUME NEW q \in Runs, Expire(q)
      PROVE  EvidenceOf(r)'
  <2> DEFINE target == IF state[q] = "cancelling" THEN "cancelled" ELSE "failed"
  <2>1. cancelReq' = cancelReq /\ outbox' = outbox
      BY <1>6 DEF Expire
  <2>2. CASE ~StillStale(q)
    <3>1. UNCHANGED <<state, resv, audit>>
        BY <1>6, <2>2 DEF Expire, quotaVars
    <3>. QED  BY <1>0, <2>1, <3>1 DEF EvidenceOf
  <2>3. CASE StillStale(q)
    <3>1. resv[q] = "active" /\ state[q] \in LiveState /\ ~IsTerminal(state[q])
        BY <2>3, TerminalStates
        DEF StillStale, QuotaInv, ReservationIffLive, LiveState, RunState, TerminalState
    <3>2. /\ resv' = [resv EXCEPT ![q] = "expired"]
          /\ state' = [state EXCEPT ![q] = target]
          /\ audit' = audit \cup {<<q, "quota.reservation_expired">>, <<q, target>>}
        BY <1>6, <2>3, <3>1 DEF Expire, ReleaseRun
    <3>3. q \in cancelReq => target = "cancelled"
        BY <3>1 DEF EvidenceInv, EvidenceOf, LiveState
    <3>. QED  BY <1>0, <2>1, <3>1, <3>2, <3>3 DEF EvidenceOf, TerminalState, LiveState
  <2>. QED  BY <2>2, <2>3
<1>7. ASSUME NEW q \in Runs, Prepare(q) \/ BeginExecution(q) \/ Lapse(q)
      PROVE  EvidenceOf(r)'
    BY <1>0, <1>7 DEF Prepare, BeginExecution, Lapse, runVars, quotaVars, EvidenceOf,
                      TerminalState
<1>8. ASSUME \/ \E p \in Projects : RequestDeletion(p)
             \/ \E p \in Policies : ReplacePolicy(p)
      PROVE  EvidenceOf(r)'
  <2>1. /\ UNCHANGED <<state, cancelReq, resv, outbox>>
        /\ \E f \in {"project.deletion_requested", "quota.policy_changed"} :
              audit' = audit \cup {<<NoRun, f>>}
      BY <1>8 DEF RequestDeletion, ReplacePolicy, runVars, quotaVars
  <2>2. \A t : <<r, t>> \in audit' <=> <<r, t>> \in audit
      BY <1>0, <2>1
  <2>. QED  BY <1>0, <2>1, <2>2, EvidenceKept
<1>9. ASSUME \/ \E c \in Clients, k \in Keys, p \in Projects, s \in Specs : Submit(c, k, p, s)
             \/ \E c \in Clients, k \in Keys, q \in Runs : Retry(c, k, q)
             \/ \E c \in Clients : Insert(c) \/ ReadPolicy(c) \/ Rollback(c) \/ Return(c)
             \/ ScanStale \/ UNCHANGED vars
      PROVE  EvidenceOf(r)'
  <2>1. UNCHANGED <<state, cancelReq, resv, outbox, audit>>
      BY <1>9 DEF Submit, Retry, ReadKey, Insert, ReadPolicy, Rollback, Return, ScanStale,
                  vars, runVars, quotaVars
  <2>. QED  BY <1>0, <2>1, EvidenceKept
<1>. QED  BY <1>1, <1>2, <1>3, <1>5, <1>6, <1>7, <1>8, <1>9 DEF Next

(* Only the reaper writes "expired", and it re-reads the lease under lock. *)
LEMMA ReapedStep ==
    QuotaInv /\ [Next]_vars =>
        \A r \in Runs : resv[r] = "active" /\ resv'[r] = "expired" => lease[r] = "stale"
<1> SUFFICES ASSUME QuotaInv, [Next]_vars, NEW r \in Runs,
                    resv[r] = "active", resv'[r] = "expired"
             PROVE  lease[r] = "stale"
    OBVIOUS
<1>0. resv \in [Runs -> {"none", "active", "released", "expired"}]
    BY DEF QuotaInv, TypeOK
<1>1. ASSUME NEW q \in Runs, Expire(q)
      PROVE  lease[r] = "stale"
    BY <1>0, <1>1 DEF Expire, ReleaseRun, StillStale, quotaVars
<1>2. ASSUME NEW q \in Runs, Complete(q) \/ Fail(q) \/ AcknowledgeCancellation(q)
      PROVE  FALSE
    BY <1>0, <1>2
    DEF Complete, Fail, AcknowledgeCancellation, Terminate, ReleaseRun, quotaVars
<1>3. ASSUME NEW c \in Clients, Reserve(c)
      PROVE  FALSE
    BY <1>0, <1>3 DEF Reserve
<1>4. ASSUME \/ \E c \in Clients, k \in Keys, p \in Projects, s \in Specs : Submit(c, k, p, s)
             \/ \E c \in Clients, k \in Keys, q \in Runs : Retry(c, k, q)
             \/ \E c \in Clients : Insert(c) \/ ReadPolicy(c) \/ Rollback(c) \/ Return(c)
             \/ \E q \in Runs : RequestCancellation(q) \/ ObserveCancellation(q)
             \/ \E q \in Runs : Prepare(q) \/ BeginExecution(q) \/ Lapse(q)
             \/ \E p \in Projects : RequestDeletion(p)
             \/ \E p \in Policies : ReplacePolicy(p)
             \/ ScanStale \/ UNCHANGED vars
      PROVE  FALSE
  <2>1. resv' = resv
      BY <1>4 DEF Submit, Retry, ReadKey, Insert, ReadPolicy, Rollback, Return,
                  RequestCancellation, ObserveCancellation, Prepare, BeginExecution, Lapse,
                  RequestDeletion, ReplacePolicy, ScanStale, vars, quotaVars
  <2>. QED  BY <2>1
<1>. QED  BY <1>1, <1>2, <1>3, <1>4 DEF Next

(* Lineage and evidence are true of every state, terminal rows are never   *)
(* overwritten and only a stale reservation is reaped (RecordsStand).      *)
THEOREM RecordsKept == Spec => RecordsStand
<1>1. Init => LineageInv /\ EvidenceInv
    BY DEF Init, LineageInv, EvidenceInv, EvidenceOf, Stored, Open, TerminalState
<1>2. QuotaInv /\ LineageInv => LineageSound
    BY DEF LineageInv, LineageSound, Descends
<1>3. EvidenceInv => EvidenceMatchesState
  <2> SUFFICES ASSUME EvidenceInv, NEW r \in Runs
               PROVE  {t \in TerminalState : <<r, t>> \in audit}
                        = IF state[r] \in TerminalState THEN {state[r]} ELSE {}
      BY DEF EvidenceInv, EvidenceOf, EvidenceMatchesState
  <2>. QED  BY DEF EvidenceInv, EvidenceOf
<1>4. QuotaInv /\ [Next]_vars =>
        [\A r \in Runs : resv[r] = "active" /\ resv'[r] = "expired"
            => lease[r] = "stale"]_vars
    BY ReapedStep
<1>. QED
    BY <1>1, <1>2, <1>3, <1>4, LineageStep, EvidenceStep, QuotaCorrect, TerminalRowsFinal,
       PTL DEF Spec, RecordsStand, ReapedOnlyStale
-----------------------------------------------------------------------------
(* The limits of the policy. *)

(* No policy grants more slots than these. *)
Bounds(slots) == \A p \in Policies, k \in Classes : p.limit[k] <= slots[k]

UsageWithin(slots) == \A k \in Classes : usage[k] <= slots[k]

(* The operator changes no limit. *)
SameLimits == \A p, q \in Policies : p.limit = q.limit

(* What a step other than a reservation does to the counters *)
LEMMA UsageFalls ==
    ASSUME QuotaInv, [Next]_vars, \A c \in Clients : ~Reserve(c), NEW k \in Classes
    PROVE  usage'[k] <= usage[k]
<1>0. usage \in [Classes -> Nat] /\ \A r \in Runs : state[r] # "absent" => ClassOf[sub[r].spec] \in Classes
    BY SpecsAssumption DEF QuotaInv, TypeOK, RowInv, Submission
<1>1. ASSUME NEW r \in Runs, NEW to, ReleaseRun(r, to)
      PROVE  usage'[k] <= usage[k]
  <2>1. CASE resv[r] = "active"
    <3>1. usage' = [usage EXCEPT ![ClassOf[sub[r].spec]] = @ - 1]
        BY <1>1, <2>1 DEF ReleaseRun
    <3>. QED  BY <1>0, <3>1
  <2>2. CASE resv[r] # "active"
      BY <1>0, <1>1, <2>2 DEF ReleaseRun, quotaVars
  <2>. QED  BY <2>1, <2>2
<1>2. CASE usage' = usage
    BY <1>0, <1>2
<1>3. ASSUME NEW r \in Runs, Complete(r) \/ Fail(r) \/ AcknowledgeCancellation(r) \/ Expire(r)
      PROVE  usage' = usage \/ \E to : ReleaseRun(r, to)
    BY <1>3 DEF Complete, Fail, AcknowledgeCancellation, Terminate, Expire, quotaVars
<1>4. ASSUME Next,
             \A r \in Runs : ~(Complete(r) \/ Fail(r) \/ AcknowledgeCancellation(r) \/ Expire(r))
      PROVE  usage' = usage
    BY <1>4 DEF Next, Submit, Retry, ReadKey, Insert, ReadPolicy, Rollback, Return,
       RequestCancellation, RequestDeletion, ReplacePolicy, Prepare, BeginExecution,
       ObserveCancellation, Lapse, ScanStale, quotaVars
<1>5. CASE UNCHANGED vars
    BY <1>2, <1>5 DEF vars
<1>. QED  BY <1>1, <1>2, <1>3, <1>4, <1>5

(* A reservation finds room in the policy it has read, whichever that is. *)
LEMMA BoundStep ==
    ASSUME NEW slots \in [Classes -> Nat], Bounds(slots),
           QuotaInv, UsageWithin(slots), [Next]_vars
    PROVE  UsageWithin(slots)'
<1>1. /\ usage \in [Classes -> Nat] /\ usage' \in [Classes -> Nat]
      /\ \A p \in Policies : p.limit \in [Classes -> Nat]
    BY QuotaStep, PoliciesAssumption DEF QuotaInv, TypeOK
<1>2. ASSUME NEW c \in Clients, Reserve(c) PROVE UsageWithin(slots)'
  <2>1. CASE usage' = usage
      BY <2>1 DEF UsageWithin
  <2>2. CASE usage' # usage
    <3> DEFINE k == ClassOf[asked[c].spec]
    <3>1. /\ HasCapacity(k, seen[c]) /\ usage' = [usage EXCEPT ![k] = @ + 1] /\ pc[c] = "reserve"
        BY <1>2, <2>2 DEF Reserve
    <3>2. seen[c] \in Policies
        BY <3>1 DEF QuotaInv, RequestInv
    <3>3. k \in Classes => usage[k] < slots[k]
        BY <1>1, <3>1, <3>2 DEF HasCapacity, Bounds
    <3> HIDE DEF k
    <3>. QED  BY <1>1, <3>1, <3>3 DEF UsageWithin
  <2>. QED  BY <2>1, <2>2
<1>3. CASE \A c \in Clients : ~Reserve(c)
  <2>1. \A k \in Classes : usage'[k] <= usage[k]
      BY <1>3, UsageFalls
  <2>. QED  BY <1>1, <2>1 DEF UsageWithin
<1>. QED  BY <1>2, <1>3

(* However many submissions race for the last slots and whatever policies  *)
(* are installed meanwhile, the slots in use are never more than the most  *)
(* any of these policies grants (reserve_run).                             *)
THEOREM SlotsBounded ==
    ASSUME NEW slots \in [Classes -> Nat], Bounds(slots)
    PROVE  Spec => []UsageWithin(slots)
<1>1. Init => UsageWithin(slots)
    BY DEF Init, UsageWithin
<1>2. QuotaInv /\ UsageWithin(slots) /\ [Next]_vars => UsageWithin(slots)'
    BY BoundStep
<1>. QED  BY <1>1, <1>2, QuotaCorrect, PTL DEF Spec

(* As long as the operator leaves the limits alone, no job beyond them is  *)
(* admitted (reserve_run counts under the lock of the usage row, with a    *)
(* policy read before).                                                    *)
THEOREM LimitsHold == ASSUME SameLimits PROVE Spec => []UsageWithinLimits
<1> DEFINE granted == (CHOOSE p \in Policies : TRUE).limit
<1>1. granted \in [Classes -> Nat] /\ \A p \in Policies : p.limit = granted
    BY PoliciesAssumption DEF SameLimits
<1>2. Bounds(granted)
    BY <1>1, PoliciesAssumption DEF Bounds
<1>3. QuotaInv /\ UsageWithin(granted) => UsageWithinLimits
    BY <1>1 DEF UsageWithin, UsageWithinLimits, QuotaInv, TypeOK
<1> HIDE DEF granted
<1>4. Init => UsageWithin(granted)
    BY <1>1 DEF Init, UsageWithin
<1>5. QuotaInv /\ UsageWithin(granted) /\ [Next]_vars => UsageWithin(granted)'
    BY <1>1, <1>2, BoundStep
<1>. QED  BY <1>3, <1>4, <1>5, QuotaCorrect, PTL DEF Spec
=============================================================================
