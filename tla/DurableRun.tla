----------------------------- MODULE DurableRun -----------------------------
(***************************************************************************)
(* One durable run from its committed submission to its end: the run row   *)
(* (workflows/store.py), the Temporal workflow (workflow.py), the activity *)
(* attempts that execute it (activities.py), the publisher of its outbox   *)
(* intents (dispatcher.py) and the reservation reaper (platform.py).       *)
(*                                                                         *)
(* Attempts overlap: an attempt the server gave up on keeps running until  *)
(* it notices.  An activity is the sequence of its database transactions:  *)
(* a state() read is one step, the transition decided from it another, and *)
(* others move the row in between.  A compare-and-swap that loses is       *)
(* retried by the code and changes nothing, so only the winning one is a   *)
(* step.  JobControl models the quota reservation: it is ACTIVE exactly    *)
(* while the run is live.                                                  *)
(***************************************************************************)
EXTENDS RunStates, Sequences, FiniteSets

CONSTANTS
    MaxAttempts,     \* EXECUTION_MAX_ATTEMPTS
    MaxTries,        \* CONTROL_RETRY_POLICY.maximum_attempts
    MaxProgress,     \* bound: progress messages of one attempt
    Results,         \* normalized summaries a child may compute
    NoResult,        \* NULL, and the empty summary of a cancelled child
    Adopting,        \* values of requires_adoption for the kinds considered
    WorkerShutdowns  \* whether workers are redeployed under running activities

ASSUME AttemptsAssumption ==
    MaxAttempts \in Nat \ {0} /\ MaxTries \in Nat \ {0} /\ MaxProgress \in Nat
ASSUME ResultsAssumption == NoResult \notin Results /\ Adopting \subseteq BOOLEAN

Attempts == 1..MaxAttempts
Prep == 0                     \* the prepare activity
Fin == MaxAttempts + 1        \* finalize_failure or finalize_cancellation
Tasks == Prep..Fin

VARIABLES
    state, events, result, cancelAt,  \* the run row and its RunEvent rows
    artifacts,   \* RUN_RESULT Artifact rows, as <<attempt, content>>
    manifest,    \* the output digest bound by the finalized manifest
    adopts,      \* requires_adoption(kind)
    intents,     \* committed outbox rows not yet marked published
    wf,          \* progress of CorpusRunWorkflow.run
    signalled,   \* _cancel_requested
    current,     \* the execution attempt the Temporal server waits for
    tries,       \* attempts of the prepare or finalize activity
    task         \* the activities on the workers

row == <<state, events, result, cancelAt>>
outcome == <<artifacts, manifest>>
flow == <<wf, signalled, current, tries>>
vars == <<row, outcome, adopts, intents, flow, task>>

Lifecycle == INSTANCE RunLifecycle WITH Attempts <- 1..MaxAttempts

-----------------------------------------------------------------------------
(* Activities on a worker. *)

(* at: the next step; seen: the state its last read returned; then: what a *)
(* cancellation or failure on the way reports; made: the child's summary;  *)
(* said: the child sequence of its last progress message.                  *)
Idle == [at |-> "idle", seen |-> "none", then |-> "ok", made |-> NoResult, said |-> 0]
Running(label) == [Idle EXCEPT !.at = label]

Reports == {"ok", "retry", "error", "cancelled"}
Gone == Reports \cup {"idle", "lost"}

(* A report that nobody waits for any more is dropped; otherwise the next  *)
(* step starts with the locals it needs.                                   *)
Awaited(t) == IF wf = "execute" THEN t = current
              ELSE t = IF wf = "prepare" THEN Prep ELSE Fin
Proceed(t, step) ==
    task' = [task EXCEPT ![t] =
        IF step.at \notin Reports THEN step
        ELSE Running(IF Awaited(t) THEN step.at ELSE "lost")]

Goto(t, label) == Proceed(t, Running(label))
GotoThen(t, label, then) == Proceed(t, [Running(label) EXCEPT !.then = then])
Keep(t, label) == Proceed(t, [task[t] EXCEPT !.at = label, !.seen = "none"])
Decide(t, label) == Proceed(t, [task[t] EXCEPT !.at = label, !.seen = state])
Done(t) == Goto(t, task[t].then)

(* _transition: the row must still be in one of the expected states *)
Expected(states) == state \in states

(* DurableRunStore._transition *)
Transition(states, target, type, summary) ==
    IF Expected(states)
    THEN /\ EnsureTransition(state, target)
         /\ state' = target
         /\ events' = Append(events, Lifecycle!Event(type))
         /\ result' = summary
         /\ cancelAt' = cancelAt
    ELSE UNCHANGED row

Elsewhere == UNCHANGED <<outcome, adopts, intents, flow>>
-----------------------------------------------------------------------------
Init ==
    /\ state = "queued"
    /\ events = <<Lifecycle!Event("run.submitted")>>
    /\ result = NoResult
    /\ cancelAt = FALSE
    /\ artifacts = {}
    /\ manifest = NoResult
    /\ adopts \in Adopting
    /\ intents = {"run.dispatch"}
    /\ wf = "absent"
    /\ signalled = FALSE
    /\ current = 0
    /\ tries = 0
    /\ task = [t \in Tasks |-> Idle]

-----------------------------------------------------------------------------
(* Store operations shared by the activities. *)

(* acknowledge_cancellation: read, then cancel from the state that was read *)
AckRead(t) ==
    /\ task[t].at = "ack"
    /\ CASE state \in {"queued", "provisioning", "running"} -> Decide(t, "observe")
         [] state = "cancelling" -> Keep(t, "acknowledge")
         [] OTHER -> Done(t)
    /\ UNCHANGED row /\ Elsewhere

(* request_cancellation *)
Observe(t) ==
    LET seen == {task[t].seen}
    IN  /\ task[t].at = "observe"
        /\ Transition(seen, "cancelling", "run.cancellation_observed", NoResult)
        /\ IF state' = "cancelling" THEN Keep(t, "acknowledge") ELSE Done(t)
        /\ Elsewhere

Acknowledge(t) ==
    /\ task[t].at = "acknowledge"
    /\ Transition({"cancelling"}, "cancelled", "run.cancelled", NoResult)
    /\ Done(t)
    /\ Elsewhere

(* fail *)
FailRead(t) ==
    /\ task[t].at = "fail"
    /\ CASE state = "cancelling" -> Keep(t, "ack")
         [] IsTerminal(state) -> Done(t)
         [] OTHER -> Keep(t, "failing")
    /\ UNCHANGED row /\ Elsewhere

FailSwap(t) ==
    /\ task[t].at = "failing"
    /\ Transition({"queued", "provisioning", "running"}, "failed", "run.failed", NoResult)
    /\ Done(t)
    /\ Elsewhere

(* prepare *)
PrepareRead ==
    /\ task[Prep].at = "prepare"
    /\ CASE state = "queued" -> Goto(Prep, "provision")
         [] state = "cancelling" -> Goto(Prep, "ack")
         [] OTHER -> Goto(Prep, "ok")
    /\ UNCHANGED row /\ Elsewhere

Provision ==
    /\ task[Prep].at = "provision"
    /\ Transition({"queued"}, "provisioning", "run.provisioning", NoResult)
    /\ Goto(Prep, "ok")
    /\ Elsewhere

StoreStep(t) ==
    \/ AckRead(t) \/ Observe(t) \/ Acknowledge(t) \/ FailRead(t) \/ FailSwap(t)
    \/ t = Prep /\ (PrepareRead \/ Provision)
-----------------------------------------------------------------------------
(* execute_run. *)

(* A redelivery after success only finalizes the manifest. *)
Load(a) ==
    /\ task[a].at = "load"
    /\ Goto(a, IF state = "succeeded" THEN "manifest" ELSE "begin")
    /\ UNCHANGED row /\ Elsewhere

(* begin_execution: what follows from a state *)
AfterBegin(s) ==
    CASE s \in {"queued", "provisioning"} -> "advance"
      [] s = "running" -> "compute"
      [] s = "cancelling" -> "ack"
      [] OTHER -> "ok"

Begin(a) ==
    /\ task[a].at = "begin"
    /\ IF state \in {"queued", "provisioning"}
       THEN Decide(a, "advance") ELSE Goto(a, AfterBegin(state))
    /\ UNCHANGED row /\ Elsewhere

(* begin_execution: QUEUED -> PROVISIONING -> RUNNING *)
AdvanceRow(a) ==
    LET seen == task[a].seen
    IN  /\ task[a].at = "advance"
        /\ IF seen = "queued"
           THEN Transition({seen}, "provisioning", "run.provisioning", NoResult)
           ELSE Transition({seen}, "running", "run.started", NoResult)
        /\ Proceed(a, IF state' \in {"queued", "provisioning"}
                      THEN [Running("advance") EXCEPT !.seen = state']
                      ELSE Running(AfterBegin(state')))
        /\ Elsewhere

Cancelled == state \in {"cancelling", "cancelled"}

(* Mutant: progress is stored in any state of the row. *)
TakesProgress_Always == TRUE

Progress == {i \in DOMAIN events : events[i].type = "run.progress"}

TakesProgress == state = "running"

(* record_progress: monotonic by attempt, then by child sequence *)
Precedes(e, a, n) == e.attempt < a \/ (e.attempt = a /\ e.number < n)

NewerThanLatest(a, n) ==
    \A i \in Progress : (\A j \in Progress : j <= i) => Precedes(events[i], a, n)

(* persist_progress of the next child message (_compute) *)
RecordProgress(a) ==
    LET n == task[a].said + 1
    IN  /\ task[a].at = "compute"
        /\ n <= MaxProgress
        /\ ~Cancelled
        /\ task' = [task EXCEPT ![a] = [task[a] EXCEPT !.said = n]]
        /\ events' = IF TakesProgress /\ NewerThanLatest(a, n)
                     THEN Append(events, Lifecycle!ProgressEvent(a, n))
                     ELSE events
        /\ UNCHANGED <<state, result, cancelAt>> /\ Elsewhere

(* tick: the child is terminated, the summary stays empty *)
Tick(a) ==
    /\ task[a].at = "compute"
    /\ Cancelled
    /\ GotoThen(a, "ack", "check")
    /\ UNCHANGED row /\ Elsewhere

(* The child answers. *)
Compute(a) ==
    /\ task[a].at = "compute"
    /\ \E r \in Results : Proceed(a, [Running("check") EXCEPT !.made = r])
    /\ UNCHANGED row /\ Elsewhere

(* cancellation_requested before the commit; adopt repeats the same check *)
(* while it verifies and copies the staged object.                         *)
Check(a) ==
    /\ task[a].at = "check"
    /\ IF Cancelled THEN Goto(a, "ack") ELSE Keep(a, "commit")
    /\ UNCHANGED row /\ Elsewhere

AfterCommit(s) == IF s = "succeeded" THEN "manifest" ELSE "ok"

(* complete: read, then the terminal compare-and-swap *)
CompleteRead(a) ==
    /\ task[a].at = "commit" /\ ~adopts
    /\ CASE state = "cancelling" -> Goto(a, "ack")
         [] IsTerminal(state) -> Goto(a, AfterCommit(state))
         [] OTHER -> Keep(a, "complete")
    /\ UNCHANGED row /\ Elsewhere

Complete(a) ==
    /\ task[a].at = "complete"
    /\ Transition({"running"}, "succeeded", "run.succeeded", task[a].made)
    /\ Goto(a, AfterCommit(state'))
    /\ Elsewhere

(* _cancel_locked *)
CancelLocked ==
    /\ state' = "cancelled"
    /\ events' = CASE state = "cancelled" -> events
                   [] state = "cancelling" ->
                        Append(events, Lifecycle!Event("run.cancelled"))
                   [] OTHER -> events \o <<Lifecycle!Event("run.cancellation_observed"),
                                           Lifecycle!Event("run.cancelled")>>
    /\ result' = NoResult
    /\ cancelAt' = TRUE

(* Mutant: the checks made before the commit are trusted. *)
LockedState_Checked == "running"

(* The run row, read again FOR UPDATE *)
LockedState == state

(* commit_adopted_result: everything under the run row lock *)
CommitAdopted(a) ==
    LET made == task[a].made
        cancelled == LockedState \in {"cancelling", "cancelled"} \/ cancelAt
    IN  /\ task[a].at = "commit" /\ adopts
        /\ \/ /\ made = NoResult        \* no staged artifact in the summary
              /\ GotoThen(a, "fail", "error")
              /\ UNCHANGED <<row, artifacts>>
           \/ /\ made # NoResult /\ cancelled
              /\ CancelLocked
              /\ Goto(a, "ok")
              /\ UNCHANGED artifacts
           \/ /\ made # NoResult /\ ~cancelled /\ LockedState = "running"
              /\ state' = "succeeded"
              /\ events' = Append(events, Lifecycle!Event("run.succeeded"))
              /\ result' = made
              /\ artifacts' = artifacts \cup {<<a, made>>}
              /\ Goto(a, "manifest")
              /\ UNCHANGED cancelAt
           \/ /\ made # NoResult /\ ~cancelled /\ LockedState # "running"
              /\ Goto(a, IF LockedState # "succeeded" THEN "error"
                         ELSE IF made = result THEN "manifest" ELSE "retry")
              /\ UNCHANGED <<row, artifacts>>
        /\ UNCHANGED <<manifest, adopts, intents, flow>>

(* _finalize_manifest: bind the outputs of the succeeded run *)
FinalizeManifest(a) ==
    /\ task[a].at = "manifest"
    /\ manifest' = result
    /\ Goto(a, "ok")
    /\ UNCHANGED <<row, artifacts, adopts, intents, flow>>

(* Any await may raise: a store error leaves execute_run as it is, every   *)
(* other failure goes through _handle_execution_failure.                   *)
Raise(a, retryable, handled) ==
    /\ task[a].at \notin Gone
    /\ IF handled /\ task[a].at # "fail" /\ (~retryable \/ a = MaxAttempts)
       THEN GotoThen(a, "fail", "error")
       ELSE Goto(a, IF retryable THEN "retry" ELSE "error")
    /\ UNCHANGED row /\ Elsewhere

(* CancelledError: the workflow cancelled the activity, the server gave    *)
(* the attempt up (heartbeat answered NOT_FOUND) or the worker shuts down. *)
(* All three acknowledge the cancellation of the run.                      *)
Interrupted(a) ==
    /\ task[a].at \notin Gone
    /\ task[a].then # "cancelled"
    /\ signalled \/ a # current \/ wf # "execute" \/ WorkerShutdowns
    /\ GotoThen(a, "ack", "cancelled")
    /\ UNCHANGED row /\ Elsewhere

(* The worker process dies. *)
Crash(a) ==
    /\ task[a].at \notin {"idle", "lost"}
    /\ Goto(a, "lost")
    /\ UNCHANGED row /\ Elsewhere

ExecuteStep(a) ==
    \/ Load(a) \/ Begin(a) \/ AdvanceRow(a) \/ RecordProgress(a) \/ Tick(a)
    \/ Compute(a) \/ Check(a) \/ CompleteRead(a) \/ Complete(a)
    \/ CommitAdopted(a) \/ FinalizeManifest(a)
-----------------------------------------------------------------------------
(* The workflow and the Temporal server. *)

Open == {"started", "prepare", "execute", "failing", "cancelling"}
Closed == {"completed", "failed"}

Quiet == UNCHANGED <<row, outcome, adopts>>

StartTask(t, label) == task' = [task EXCEPT ![t] = Running(label)]

(* _finalize_failure or _finalize_cancellation *)
Finalize(cancel) ==
    /\ wf' = IF cancel THEN "cancelling" ELSE "failing"
    /\ tries' = 1
    /\ StartTask(Fin, IF cancel THEN "ack" ELSE "fail")

(* The first workflow task *)
Run ==
    /\ wf = "started"
    /\ IF signalled
       THEN Finalize(TRUE)
       ELSE wf' = "prepare" /\ tries' = 1 /\ StartTask(Prep, "prepare")
    /\ UNCHANGED <<signalled, current, intents>> /\ Quiet

(* The prepare activity ended. *)
Prepared ==
    /\ wf = "prepare"
    /\ IF task[Prep].at = "ok"
       THEN wf' = "execute" /\ current' = 1 /\ StartTask(1, "load") /\ tries' = 0
       ELSE /\ task[Prep].at = "error"
            /\ Finalize(signalled)
            /\ UNCHANGED current
    /\ UNCHANGED <<signalled, intents>> /\ Quiet

(* The server retries the execution, unless its cancellation is requested. *)
Retries == current < MaxAttempts /\ ~signalled

NextAttempt ==
    /\ Retries
    /\ current' = current + 1
    /\ StartTask(current + 1, "load")
    /\ UNCHANGED <<wf, tries>>

(* Mutant: the ActivityError is not handled. *)
ActivityFails_Unhandled == FALSE

(* The workflow receives an ActivityError. *)
ActivityFails == Finalize(signalled) /\ UNCHANGED current

(* The awaited attempt reports. *)
Executed ==
    /\ wf = "execute"
    /\ CASE task[current].at = "ok" ->
               wf' = "completed" /\ UNCHANGED <<current, tries, task>>
         [] task[current].at \in {"retry", "cancelled"} ->
               NextAttempt \/ (~Retries /\ ActivityFails)
         [] task[current].at = "error" -> ActivityFails
         [] OTHER -> FALSE
    /\ UNCHANGED <<signalled, intents>> /\ Quiet

(* No heartbeat, or the start-to-close or schedule-to-close time is over:  *)
(* the server stops waiting for the attempt, which may still be running.   *)
TimeOut ==
    /\ wf = "execute"
    /\ NextAttempt \/ ActivityFails
    /\ UNCHANGED <<signalled, intents>> /\ Quiet

(* The prepare and finalize activities are retried a bounded number of     *)
(* times; a transition they lose to another writer is not an error.        *)
AwaitedControl ==
    CASE wf = "prepare" -> {Prep}
      [] wf \in {"failing", "cancelling"} -> {Fin}
      [] OTHER -> {}

ControlTrouble ==
    \E t \in AwaitedControl :
        /\ task[t].at \notin Reports
        /\ IF tries < MaxTries
           THEN /\ tries' = tries + 1
                /\ StartTask(t, CASE wf = "prepare" -> "prepare"
                                  [] wf = "failing" -> "fail"
                                  [] OTHER -> "ack")
           ELSE Goto(t, "error") /\ UNCHANGED tries
        /\ UNCHANGED <<wf, signalled, current, intents>> /\ Quiet

Finalized ==
    /\ wf \in {"failing", "cancelling"}
    /\ task[Fin].at \in {"ok", "error"}
    /\ wf' = IF wf = "cancelling" /\ task[Fin].at = "ok" THEN "completed" ELSE "failed"
    /\ UNCHANGED <<signalled, current, tries, intents, task>> /\ Quiet

WorkflowStep == Run \/ Prepared \/ Executed \/ Finalized
-----------------------------------------------------------------------------
(* The dispatcher, the API and the clock. *)

(* A published intent is marked, or delivered again. *)
Marked(intent) == intents' \in {intents, intents \ {intent}}

(* start_workflow: the workflow id makes a second start a no-op *)
PublishDispatch ==
    /\ "run.dispatch" \in intents
    /\ wf' = IF wf = "absent" THEN "started" ELSE wf
    /\ Marked("run.dispatch")
    /\ UNCHANGED <<signalled, current, tries, task>> /\ Quiet

(* Mutant: a failed signal is not looked into. *)
SignalSettled_Never == FALSE

(* The probe of a signal that found no open workflow *)
SignalSettled == IsTerminal(state)

(* The cancellation signal; it cancels the running activity, and the       *)
(* prepare activity is abandoned at once.                                  *)
PublishCancel ==
    /\ "run.cancel" \in intents
    /\ IF wf \in Open
       THEN /\ signalled' = TRUE
            /\ IF wf = "prepare" THEN Finalize(TRUE) ELSE UNCHANGED <<wf, tries, task>>
       ELSE SignalSettled /\ UNCHANGED <<wf, tries, task, signalled>>
    /\ Marked("run.cancel")
    /\ UNCHANGED current /\ Quiet

(* JobControlPlane.request_cancellation *)
RequestCancellation ==
    /\ EnsureTransition(state, "cancelling")
    /\ state' = "cancelling"
    /\ events' = Append(events, Lifecycle!Event("run.cancellation_requested"))
    /\ cancelAt' = TRUE
    /\ intents' = intents \cup {"run.cancel"}
    /\ UNCHANGED <<result, outcome, adopts, flow, task>>

Reaped == ~IsTerminal(state)

(* expire_stale: the reservation's lease may run out at any time, also     *)
(* while an attempt executes, since only the first attempt renews it.      *)
Expire ==
    LET target == IF state = "cancelling" THEN "cancelled" ELSE "failed"
    IN  /\ Reaped
        /\ EnsureTransition(state, target)
        /\ state' = target
        /\ events' = Append(events, Lifecycle!Event(
               IF target = "cancelled" THEN "run.cancelled" ELSE "run.failed"))
        /\ result' = NoResult
        /\ UNCHANGED <<cancelAt, outcome, adopts, intents, flow, task>>
-----------------------------------------------------------------------------
Next ==
    \/ \E t \in Tasks : StoreStep(t)
    \/ \E a \in Attempts : ExecuteStep(a) \/ Interrupted(a) \/ Crash(a)
    \/ \E a \in Attempts, retryable, handled \in BOOLEAN : Raise(a, retryable, handled)
    \/ WorkflowStep \/ TimeOut \/ ControlTrouble
    \/ PublishDispatch \/ PublishCancel
    \/ RequestCancellation \/ Expire

Spec == Init /\ [][Next]_vars

(* The dispatcher loop, the workers and the maintenance job keep running,  *)
(* a child process ends within its deadline, and the server notices an     *)
(* attempt without heartbeats.  Crashes, errors and timeouts of attempts   *)
(* that still run are left to chance.                                      *)
NoticesLoss == wf = "execute" /\ task[current].at = "lost" /\ TimeOut

Fairness ==
    /\ WF_vars(PublishDispatch /\ intents' # intents)
    /\ WF_vars(PublishCancel /\ intents' # intents)
    /\ \A t \in Tasks : WF_vars(StoreStep(t) \/ (t \in Attempts /\ ExecuteStep(t)))
    /\ WF_vars(WorkflowStep) /\ WF_vars(NoticesLoss)
    /\ WF_vars(Expire)

FairSpec == Spec /\ Fairness
-----------------------------------------------------------------------------
(* Properties. *)

TypeOK ==
    /\ state \in RunState
    /\ result \in Results \cup {NoResult}
    /\ manifest \in Results \cup {NoResult}
    /\ artifacts \subseteq Attempts \X Results
    /\ cancelAt \in BOOLEAN /\ adopts \in BOOLEAN /\ signalled \in BOOLEAN
    /\ intents \subseteq {"run.dispatch", "run.cancel"}
    /\ wf \in Open \cup Closed \cup {"absent"}
    /\ current \in 0..MaxAttempts /\ tries \in 0..MaxTries
    /\ \A t \in Tasks :
          /\ task[t].seen \in RunState \cup {"none"}
          /\ task[t].then \in Reports \cup {"check"}
          /\ task[t].made \in Results \cup {NoResult}
          /\ task[t].said \in 0..MaxProgress

(* A cancellation that the API persisted before the terminal transition    *)
(* wins over every attempt, finalizer and reaper ("A cancellation that     *)
(* races with a result commit wins", durable-jobs.md).                     *)
CancellationWins == cancelAt => Cancelled

(* However many attempts reach the commit, a succeeded run has one result: *)
(* one artifact row of an adopting kind, the one the row names, and a      *)
(* manifest about nothing else; no other run leaves any (commit_adopted_   *)
(* result, complete, finalize).                                            *)
OneResult ==
    /\ result # NoResult <=> state = "succeeded"
    /\ IF adopts /\ state = "succeeded"
       THEN \E a \in Attempts : artifacts = {<<a, result>>}
       ELSE artifacts = {}
    /\ manifest \in {NoResult, result}

(* Progress of an abandoned attempt never follows progress of its          *)
(* successor, and no message is stored twice (record_progress).            *)
ProgressMonotonic ==
    \A i, j \in Progress :
        i < j => Precedes(events[i], events[j].attempt, events[j].number)

(* How a run comes out, whatever its attempts do beside each other: its     *)
(* columns keep their types, a cancellation wins, one result, and progress *)
(* in order.                                                                *)
OutcomeSound == TypeOK /\ CancellationWins /\ OneResult /\ ProgressMonotonic

(* The row, its events and its result behave like the run promised to the  *)
(* tenant, whatever the attempts, the workflow and the reaper do.          *)
ImplementsLifecycle == Lifecycle!Spec

(* A workflow whose run() returned has left its run in a terminal state:   *)
(* activities "acknowledge `cancelled`" (durable-jobs.md).                 *)
CompletedIsTerminal == wf = "completed" => IsTerminal(state)

(* Nobody but a user cancels a run: worker shutdown is retryable           *)
(* (durable-jobs.md).                                                      *)
CancelledOnRequest ==
    state = "cancelled" =>
        \E i \in DOMAIN events : events[i].type = "run.cancellation_requested"

(* Every workflow ends, although its attempts crash, hang in a lost race   *)
(* or are cancelled while the workflow waits for their acknowledgement.    *)
WorkflowCloses == wf \in Open ~> wf \in Closed

(* A requested cancellation reaches `cancelled`, if need be by the reaper, *)
(* and its intent does not stay in the outbox forever, even when the       *)
(* workflow is gone before the signal (TemporalDispatcher.publish).        *)
CancellationEnds == cancelAt ~> state = "cancelled" /\ "run.cancel" \notin intents
=============================================================================
