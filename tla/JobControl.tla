----------------------------- MODULE JobControl -----------------------------
(***************************************************************************)
(* The durable-job control plane of one organization: run admission        *)
(* (services/jobs.py), concurrent-job quotas (services/platform.py), the   *)
(* project deletion request (services/project_deletion.py) and, as single  *)
(* transactions, the worker's lifecycle writes (workflows/store.py).       *)
(*                                                                         *)
(* PostgreSQL runs at READ COMMITTED, so a submission is the sequence of   *)
(* its statements that other transactions can interleave with:             *)
(*   idle -> insert -> policy -> reserve -> done                           *)
(* Everything from the acquisition of the usage row lock to the commit is  *)
(* one step, because every other writer of quota state takes that lock.    *)
(* A compare-and-swap on a run row that succeeds is one step too; one that *)
(* fails changes nothing.  Run events are modelled in DurableRun.          *)
(***************************************************************************)
EXTENDS RunStates, FiniteSets

CONSTANTS
    Runs,       \* pool of run ids (uuid4)
    Clients,    \* concurrent API requests
    Keys,       \* Idempotency-Key values of the organization
    Projects,   \* projects of the organization
    Specs,      \* (kind, normalized spec) pairs, told apart by spec_sha256
    ClassOf,    \* RUN_QUOTA_CLASSES of the spec's kind
    Needs,      \* the largest resource ceiling the spec asks for
    Policies,   \* quota policies the platform operator may install
    NoRun       \* NULL for a run id

Classes == {"cpu", "expensive"}

ASSUME RunsAssumption == IsFiniteSet(Runs) /\ NoRun \notin Runs
ASSUME SpecsAssumption ==
    /\ ClassOf \in [Specs -> Classes]
    /\ Needs \in [Specs -> Nat]
ASSUME PoliciesAssumption ==
    /\ Policies # {}
    /\ Policies \subseteq [limit : [Classes -> Nat], ceiling : Nat]

VARIABLES
    state,      \* Run.state of every run, "absent" before the insert commits
    sub,        \* the immutable columns of the run row
    cancelReq,  \* runs with cancellation_requested_at set
    resv,       \* QuotaReservation.state
    lease,      \* whether expires_at lies behind the clock
    usage,      \* QuotaUsage.active_*_jobs
    policy,     \* the QuotaPolicy row
    project,    \* Project.lifecycle_state
    outbox,     \* OutboxMessage rows ever inserted
    audit,      \* AuditEvent rows, as facts
    pc, asked, mine, seen,  \* per API request: progress and local variables
    scanned     \* candidates of the running expire_stale batch

runVars == <<state, sub, cancelReq>>
quotaVars == <<resv, lease, usage>>
clientVars == <<pc, asked, mine, seen>>
vars == <<state, sub, cancelReq, resv, lease, usage, policy, project,
          outbox, audit, pc, asked, mine, seen, scanned>>

-----------------------------------------------------------------------------
(* Rows and statements. *)

(* What a submission or a retry asks for: the columns _same_submission     *)
(* compares, and the attempt number.                                       *)
Submission == [key : Keys, project : Projects, spec : Specs,
               parent : Runs \cup {NoRun}, attempt : Nat \ {0}]
NoSub == [key |-> "none", project |-> "none", spec |-> "none",
          parent |-> "none", attempt |-> 0]
NoPolicy == [limit |-> [c \in Classes |-> 0], ceiling |-> 0]

Stored == {r \in Runs : state[r] # "absent"}

(* A request between its first statement and the end of its transaction. *)
Open == {"insert", "policy", "reserve"}

(* Run rows inserted by transactions that have not committed. *)
InFlight == {mine[c] : c \in {d \in Clients : pc[d] \in {"policy", "reserve"}}}

(* _idempotent_run: the committed row of an idempotency key *)
IdempotentRun(k) == {r \in Stored : sub[r].key = k}

(* _same_submission *)
SameSubmission(r, s) ==
    /\ sub[r].spec = s.spec
    /\ sub[r].project = s.project
    /\ sub[r].parent = s.parent

(* Mutant: a deletion request does not wait for open inserts. *)
SharesProject_Never(c, p) == FALSE

(* SELECT ... FOR UPDATE of the project row, held by a submission until it *)
(* ends, and the FOR KEY SHARE lock that the foreign key of an inserted    *)
(* run row holds on it.                                                    *)
HoldsProject(c, p) ==
    pc[c] \in Open /\ asked[c].project = p
        /\ asked[c].parent = NoRun
SharesProject(c, p) == pc[c] \in {"policy", "reserve"} /\ asked[c].project = p

(* Mutants: no unique index on (organization_id, idempotency_key); the     *)
(* insert waits for its own transaction as well.                           *)
KeyContended_Self(c, k) == \E d \in Clients : pc[d] \in Open /\ asked[d].key = k
KeyContended_Never(c, k) == FALSE

(* An uncommitted row with the same key makes INSERT ... ON CONFLICT wait. *)
KeyContended(c, k) ==
    \E d \in Clients \ {c} : pc[d] \in {"policy", "reserve"} /\ asked[d].key = k

ActiveRuns == {r \in Runs : resv[r] = "active"}
ActiveOf(k) == {r \in Runs : resv[r] = "active" /\ ClassOf[sub[r].spec] = k}

-----------------------------------------------------------------------------
Init ==
    /\ state = [r \in Runs |-> "absent"]
    /\ sub = [r \in Runs |-> NoSub]
    /\ cancelReq = {}
    /\ resv = [r \in Runs |-> "none"]
    /\ lease = [r \in Runs |-> "fresh"]
    /\ usage = [c \in Classes |-> 0]
    /\ policy \in Policies
    /\ project = [p \in Projects |-> "active"]
    /\ outbox = {}
    /\ audit = {}
    /\ pc = [c \in Clients |-> "idle"]
    /\ asked = [c \in Clients |-> NoSub]
    /\ mine = [c \in Clients |-> NoRun]
    /\ seen = [c \in Clients |-> NoPolicy]
    /\ scanned = {}

-----------------------------------------------------------------------------
(* API requests. *)

(* The request ends, with a run to report or (rolled back) with none. *)
Finish(c, r) ==
    /\ pc' = [pc EXCEPT ![c] = IF r = NoRun THEN "idle" ELSE "done"]
    /\ mine' = [mine EXCEPT ![c] = r]
    /\ seen' = [seen EXCEPT ![c] = NoPolicy]
    /\ asked' = IF r = NoRun THEN [asked EXCEPT ![c] = NoSub] ELSE asked

(* Bound: a request starts only while the pool of run ids covers it. *)
RunIdsLeft ==
    Cardinality(Stored) + Cardinality({d \in Clients : pc[d] \in Open})
        < Cardinality(Runs)

Start(c, s) ==
    /\ RunIdsLeft
    /\ pc' = [pc EXCEPT ![c] = "insert"]
    /\ asked' = [asked EXCEPT ![c] = s]
    /\ UNCHANGED <<mine, seen>>

(* Answer a replayed key with the first run, or raise ResourceConflict. *)
Replay(c, r, s) ==
    /\ IF SameSubmission(r, s)
       THEN /\ pc' = [pc EXCEPT ![c] = "done"]
            /\ mine' = [mine EXCEPT ![c] = r]
            /\ asked' = [asked EXCEPT ![c] = s]
            /\ seen' = seen
       ELSE Finish(c, NoRun)

ReadKey(c, s) ==
    /\ IF IdempotentRun(s.key) = {}
       THEN Start(c, s)
       ELSE \E r \in IdempotentRun(s.key) : Replay(c, r, s)
    /\ UNCHANGED <<runVars, quotaVars, policy, project, outbox, audit, scanned>>

(* submit: lock the active project, then look the key up *)
Submit(c, k, p, s) ==
    /\ pc[c] = "idle"
    /\ project[p] = "active"
    /\ \A d \in Clients : ~HoldsProject(d, p) /\ ~SharesProject(d, p)
    /\ ReadKey(c, [key |-> k, project |-> p, spec |-> s,
                   parent |-> NoRun, attempt |-> 1])

Retryable(r) == state[r] \in {"failed", "cancelled"}

(* retry: the source must be FAILED or CANCELLED; no project lock is taken *)
Retry(c, k, r) ==
    /\ pc[c] = "idle"
    /\ r \in Stored
    /\ Retryable(r)
    /\ project[sub[r].project] = "active"
    /\ ReadKey(c, [key |-> k, project |-> sub[r].project, spec |-> sub[r].spec,
                   parent |-> r, attempt |-> sub[r].attempt + 1])

(* INSERT ... ON CONFLICT DO NOTHING, and the re-read when it conflicts *)
Insert(c) ==
    /\ pc[c] = "insert"
    /\ ~KeyContended(c, asked[c].key)
    /\ \A d \in Clients \ {c} : ~HoldsProject(d, asked[c].project)
    /\ IF IdempotentRun(asked[c].key) = {}
       THEN /\ \E r \in Runs \ (Stored \cup InFlight) :
                  mine' = [mine EXCEPT ![c] = r]
            /\ pc' = [pc EXCEPT ![c] = "policy"]
            /\ UNCHANGED <<asked, seen>>
       ELSE \E r \in IdempotentRun(asked[c].key) : Replay(c, r, asked[c])
    /\ UNCHANGED <<runVars, quotaVars, policy, project, outbox, audit, scanned>>

(* _run on the inserted row re-checks the project; _locked then reads the  *)
(* policy row before it waits for the usage row.                           *)
ReadPolicy(c) ==
    /\ pc[c] = "policy"
    /\ IF project[asked[c].project] = "active"
       THEN /\ pc' = [pc EXCEPT ![c] = "reserve"]
            /\ seen' = [seen EXCEPT ![c] = policy]
            /\ UNCHANGED <<asked, mine>>
       ELSE Finish(c, NoRun)
    /\ UNCHANGED <<runVars, quotaVars, policy, project, outbox, audit, scanned>>

(* validate_run_resource_policy *)
FitsPolicy(s, p) == Needs[s] <= p.ceiling

(* reserve_run: a class is full at its limit *)
HasCapacity(k, p) == usage[k] < p.limit[k]

(* reserve_run under the usage row lock, initial event, outbox, audit and  *)
(* commit; a rejected reservation rolls the insert back                    *)
Reserve(c) ==
    LET r == mine[c]
        s == asked[c].spec
        k == ClassOf[s]
    IN  /\ pc[c] = "reserve"
        /\ IF FitsPolicy(s, seen[c]) /\ HasCapacity(k, seen[c])
           THEN /\ state' = [state EXCEPT ![r] = "queued"]
                /\ sub' = [sub EXCEPT ![r] = asked[c]]
                /\ resv' = [resv EXCEPT ![r] = "active"]
                /\ lease' = [lease EXCEPT ![r] = "fresh"]
                /\ usage' = [usage EXCEPT ![k] = @ + 1]
                /\ outbox' = outbox \cup {<<r, "run.dispatch">>}
                /\ audit' = audit \cup {<<r, "run.submitted">>}
                /\ Finish(c, r)
           ELSE /\ Finish(c, NoRun)
                /\ UNCHANGED <<state, sub, resv, lease, usage, outbox, audit>>
        /\ UNCHANGED <<cancelReq, policy, project, scanned>>

(* Any statement of an open transaction may raise (rejected admission or   *)
(* input artifact, lost connection): the session rolls back.               *)
Rollback(c) ==
    /\ pc[c] \in Open
    /\ Finish(c, NoRun)
    /\ UNCHANGED <<runVars, quotaVars, policy, project, outbox, audit, scanned>>

(* The caller takes its answer and may send another request. *)
Return(c) ==
    /\ pc[c] = "done"
    /\ Finish(c, NoRun)
    /\ UNCHANGED <<runVars, quotaVars, policy, project, outbox, audit, scanned>>

(* JobControlPlane.request_cancellation *)
RequestCancellation(r) ==
    /\ r \in Stored
    /\ project[sub[r].project] = "active"
    /\ EnsureTransition(state[r], "cancelling")
    /\ state' = [state EXCEPT ![r] = "cancelling"]
    /\ cancelReq' = cancelReq \cup {r}
    /\ outbox' = outbox \cup {<<r, "run.cancel">>}
    /\ audit' = audit \cup {<<r, "run.cancellation_requested">>}
    /\ UNCHANGED <<sub, quotaVars, policy, project, clientVars, scanned>>

(* ProjectDeletionService.request: FOR UPDATE waits for every open insert  *)
RequestDeletion(p) ==
    /\ project[p] = "active"
    /\ \A d \in Clients : ~HoldsProject(d, p) /\ ~SharesProject(d, p)
    /\ \A r \in Stored : sub[r].project = p =>
          IsTerminal(state[r]) /\ resv[r] # "active"
    /\ project' = [project EXCEPT ![p] = "deletion_pending"]
    /\ audit' = audit \cup {<<NoRun, "project.deletion_requested">>}
    /\ UNCHANGED <<runVars, quotaVars, policy, outbox, clientVars, scanned>>

(* PlatformService.replace_policy, under the usage row lock *)
ReplacePolicy(p) ==
    /\ p # policy
    /\ \A k \in Classes : usage[k] <= p.limit[k]
    /\ \A r \in ActiveRuns : FitsPolicy(sub[r].spec, p)
    /\ policy' = p
    /\ audit' = audit \cup {<<NoRun, "quota.policy_changed">>}
    /\ UNCHANGED <<runVars, quotaVars, project, outbox, clientVars, scanned>>

-----------------------------------------------------------------------------
(* Worker transactions: DurableRunStore._transition and its controls. *)

(* Mutants: the counter is not decremented; nothing is released. *)
ReleaseRun_Leaks(r, to) ==
    /\ resv' = [resv EXCEPT ![r] = IF @ = "active" THEN to ELSE @]
    /\ UNCHANGED <<usage, lease>>
ReleaseRun_Skipped(r, to) == UNCHANGED quotaVars

(* release_run: an ACTIVE reservation gives its slot back exactly once *)
ReleaseRun(r, to) ==
    IF resv[r] = "active"
    THEN /\ resv' = [resv EXCEPT ![r] = to]
         /\ usage' = [usage EXCEPT ![ClassOf[sub[r].spec]] = @ - 1]
         /\ lease' = lease
    ELSE UNCHANGED quotaVars

(* _transition to a terminal state: release, then the audit event *)
Terminate(r, expected, target) ==
    /\ state[r] \in expected
    /\ EnsureTransition(state[r], target)
    /\ state' = [state EXCEPT ![r] = target]
    /\ ReleaseRun(r, "released")
    /\ audit' = audit \cup {<<r, target>>}
    /\ UNCHANGED <<sub, cancelReq, policy, project, outbox, clientVars, scanned>>

Prepare(r) ==
    /\ state[r] = "queued"
    /\ state' = [state EXCEPT ![r] = "provisioning"]
    /\ UNCHANGED <<sub, cancelReq, quotaVars, policy, project, outbox, audit,
                   clientVars, scanned>>

(* begin_execution: renew_run, or RuntimeError and a rolled back transition *)
BeginExecution(r) ==
    /\ state[r] = "provisioning"
    /\ resv[r] = "active"
    /\ FitsPolicy(sub[r].spec, policy)
    /\ state' = [state EXCEPT ![r] = "running"]
    /\ lease' = [lease EXCEPT ![r] = "fresh"]
    /\ UNCHANGED <<sub, cancelReq, resv, usage, policy, project, outbox, audit,
                   clientVars, scanned>>

Complete(r) == Terminate(r, {"running"}, "succeeded")

Fail(r) == Terminate(r, {"queued", "provisioning", "running"}, "failed")

(* DurableRunStore.request_cancellation: a cancellation of the activity    *)
(* that the API has not persisted                                          *)
ObserveCancellation(r) ==
    /\ state[r] \in {"queued", "provisioning", "running"}
    /\ state' = [state EXCEPT ![r] = "cancelling"]
    /\ audit' = audit \cup {<<r, "run.cancellation_requested">>}
    /\ UNCHANGED <<sub, cancelReq, quotaVars, policy, project, outbox,
                   clientVars, scanned>>

AcknowledgeCancellation(r) == Terminate(r, {"cancelling"}, "cancelled")

-----------------------------------------------------------------------------
(* Time and the reservation reaper. *)

(* The clock passes expires_at. *)
Lapse(r) ==
    /\ resv[r] = "active"
    /\ lease[r] = "fresh"
    /\ lease' = [lease EXCEPT ![r] = "stale"]
    /\ UNCHANGED <<runVars, resv, usage, policy, project, outbox, audit,
                   clientVars, scanned>>

(* expire_stale: the candidate query, in its own transaction *)
ScanStale ==
    /\ scanned = {}
    /\ scanned' = {r \in Runs : resv[r] = "active" /\ lease[r] = "stale"}
    /\ scanned' # {}
    /\ UNCHANGED <<runVars, quotaVars, policy, project, outbox, audit, clientVars>>

(* Mutants: expires_at is not re-checked; a running run is skipped. *)
StillStale_AnyLease(r) == resv[r] = "active"
StillStale_NotRunning(r) ==
    resv[r] = "active" /\ lease[r] = "stale" /\ state[r] # "running"

(* The reservation re-read under lock by the candidate's transaction *)
StillStale(r) == resv[r] = "active" /\ lease[r] = "stale"

(* expire_stale: one candidate *)
Expire(r) ==
    LET target == IF state[r] = "cancelling" THEN "cancelled" ELSE "failed"
    IN  /\ r \in scanned
        /\ scanned' = scanned \ {r}
        /\ IF StillStale(r)
           THEN /\ ReleaseRun(r, "expired")
                /\ IF IsTerminal(state[r])
                   THEN /\ state' = state
                        /\ audit' = audit \cup {<<r, "quota.reservation_expired">>}
                   ELSE /\ EnsureTransition(state[r], target)
                        /\ state' = [state EXCEPT ![r] = target]
                        /\ audit' = audit \cup {<<r, "quota.reservation_expired">>,
                                                <<r, target>>}
           ELSE UNCHANGED <<state, quotaVars, audit>>
        /\ UNCHANGED <<sub, cancelReq, policy, project, outbox, clientVars>>

-----------------------------------------------------------------------------
ClientStep(c) == Insert(c) \/ ReadPolicy(c) \/ Reserve(c)

Next ==
    \/ \E c \in Clients, k \in Keys, p \in Projects, s \in Specs : Submit(c, k, p, s)
    \/ \E c \in Clients, k \in Keys, r \in Runs : Retry(c, k, r)
    \/ \E c \in Clients : Insert(c) \/ ReadPolicy(c) \/ Reserve(c)
    \/ \E c \in Clients : Rollback(c) \/ Return(c)
    \/ \E r \in Runs : RequestCancellation(r)
    \/ \E p \in Projects : RequestDeletion(p)
    \/ \E p \in Policies : ReplacePolicy(p)
    \/ \E r \in Runs : Prepare(r) \/ BeginExecution(r) \/ Complete(r) \/ Fail(r)
    \/ \E r \in Runs : ObserveCancellation(r) \/ AcknowledgeCancellation(r)
    \/ \E r \in Runs : Lapse(r)
    \/ ScanStale
    \/ \E r \in Runs : Expire(r)

Spec == Init /\ [][Next]_vars

(* Requests are served and answered; PostgreSQL queues lock waiters, so a  *)
(* statement whose lock keeps becoming free is not starved (SF).  The      *)
(* clock advances and the scheduled maintenance job keeps running.         *)
(* Nothing is assumed of workers.                                          *)
Fairness ==
    /\ \A c \in Clients : SF_vars(ClientStep(c)) /\ WF_vars(Return(c))
    /\ \A r \in Runs : WF_vars(Lapse(r)) /\ WF_vars(Expire(r))
    /\ WF_vars(ScanStale)

FairSpec == Spec /\ Fairness
-----------------------------------------------------------------------------
(* Properties. *)

TypeOK ==
    /\ state \in [Runs -> RunState \cup {"absent"}]
    /\ sub \in [Runs -> Submission \cup {NoSub}]
    /\ cancelReq \subseteq Runs
    /\ resv \in [Runs -> {"none", "active", "released", "expired"}]
    /\ lease \in [Runs -> {"fresh", "stale"}]
    /\ usage \in [Classes -> Nat]
    /\ policy \in Policies
    /\ project \in [Projects -> {"active", "deletion_pending"}]
    /\ pc \in [Clients -> Open \cup {"idle", "done"}]
    /\ asked \in [Clients -> Submission \cup {NoSub}]
    /\ mine \in [Clients -> Runs \cup {NoRun}]
    /\ seen \in [Clients -> Policies \cup {NoPolicy}]
    /\ scanned \subseteq Runs

(* The usage counters that admission compares with the limits are exactly  *)
(* the numbers of ACTIVE reservations of each class, whatever mixture of   *)
(* worker, API and reaper released the others: no slot leaks, none is      *)
(* given back twice (reserve_run, release_run, expire_stale).              *)
UsageCountsReservations ==
    \A k \in Classes : usage[k] = Cardinality(ActiveOf(k))

(* A run holds a reservation from its submission to its terminal           *)
(* transition, and not longer: "It never leaves an executable active run   *)
(* without a reservation" (tenant-isolation-quotas-audit.md).              *)
ReservationIffLive ==
    \A r \in Runs : resv[r] = "active" <=> state[r] \in LiveState

(* Every answer to an idempotency key names one run, and that run is what  *)
(* the request asked for, even when the requests race (_submit_in_session).*)
AnswersAgree ==
    /\ \A c \in Clients : pc[c] = "done" => SameSubmission(mine[c], asked[c])
    /\ \A c, d \in Clients :
          pc[c] = "done" /\ pc[d] = "done" /\ asked[c].key = asked[d].key
              => mine[c] = mine[d]
    /\ \A r, q \in Stored : sub[r].key = sub[q].key => r = q

(* A retry descends from a run that failed or was cancelled and stays so,  *)
(* with the same spec and the next attempt number (retry).                 *)
LineageSound ==
    \A r \in Stored : sub[r].parent # NoRun =>
        /\ sub[r].parent \in Stored \ {r}
        /\ state[sub[r].parent] \in {"failed", "cancelled"}
        /\ sub[r].spec = sub[sub[r].parent].spec
        /\ sub[r].attempt = sub[sub[r].parent].attempt + 1

(* A project waiting for deletion has no live run, although a retry takes  *)
(* no lock on the project row before it inserts (request, _run).           *)
DeletedProjectsQuiet ==
    \A r \in Stored : project[sub[r].project] = "deletion_pending" =>
        IsTerminal(state[r])

(* Racing submissions never take more slots than the policy allows         *)
(* ("prove the N+1 job is rejected", ADR-0007), as long as the operator    *)
(* leaves it alone: instances with one policy.  ActiveRunsFitPolicy says   *)
(* what a policy change does to admission.                                 *)
UsageWithinLimits ==
    \A k \in Classes : usage[k] <= policy.limit[k]

(* Durable evidence agrees with the row: one terminal audit event, of the  *)
(* state the run ended in; an expiry event exactly for an expired          *)
(* reservation; a cancel intent exactly for a cancellation the API took.   *)
EvidenceMatchesState ==
    \A r \in Runs :
        /\ {t \in TerminalState : <<r, t>> \in audit}
              = IF state[r] \in TerminalState THEN {state[r]} ELSE {}
        /\ <<r, "quota.reservation_expired">> \in audit <=> resv[r] = "expired"
        /\ <<r, "run.cancel">> \in outbox <=> r \in cancelReq
        /\ r \in cancelReq => state[r] \in {"cancelling", "cancelled"}

(* Every active run still satisfies the policy in force, so renew_run does *)
(* not meet "persisted run no longer satisfies quota policy".              *)
ActiveRunsFitPolicy ==
    \A r \in ActiveRuns : FitsPolicy(sub[r].spec, policy)

(* The reaper ends only reservations whose lease has run out, not one that *)
(* BeginExecution renewed after the candidate query (expire_stale).        *)
ReapedOnlyStale ==
    [][\A r \in Runs : resv[r] = "active" /\ resv'[r] = "expired"
          => lease[r] = "stale"]_vars

(* A run row in a terminal state is final and a stored submission is       *)
(* immutable, for every writer ("Terminal rows are never overwritten",     *)
(* durable-jobs.md).                                                       *)
TerminalFinal ==
    [][\A r \in Stored :
          /\ sub'[r] = sub[r]
          /\ IsTerminal(state[r]) => state'[r] = state[r]]_vars

(* What is recorded about a run stands: its lineage, its evidence, its end, *)
(* and a reservation that was renewed in time.                              *)
RecordsStand ==
    /\ [](LineageSound /\ EvidenceMatchesState)
    /\ ReapedOnlyStale /\ TerminalFinal

(* No request waits forever on the project row, the key or the policy.     *)
RequestsFinish ==
    \A c \in Clients : pc[c] \in Open ~> pc[c] \notin Open

(* Admission answers every request and takes no more than the policy: the  *)
(* wait for the usage row neither loses a request nor lets one slip past.  *)
AdmissionServes == []UsageWithinLimits /\ RequestsFinish

(* A run whose worker, workflow or dispatch is lost still ends and frees   *)
(* its slot: lease and reaper alone suffice (expire_stale).                *)
LiveRunsEnd ==
    \A r \in Runs : state[r] \in LiveState ~> state[r] \in TerminalState
=============================================================================
