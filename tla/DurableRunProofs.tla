-------------------------- MODULE DurableRunProofs --------------------------
(***************************************************************************)
(* Proofs about DurableRun, for any number of attempts, retries, progress  *)
(* messages and results.                                                   *)
(***************************************************************************)
EXTENDS DurableRun, TLAPS

MaybeResults == Results \cup {NoResult}
EventTypes == {"run.submitted", "run.progress"}
              \cup UNION {Lifecycle!EventTypes(s) : s \in RunState}
EventRecords == [type : EventTypes, attempt : Nat, number : Nat]

(* The row and what is bound to it.                                        *)
RowTypes ==
    /\ state \in RunState /\ result \in MaybeResults /\ manifest \in MaybeResults
    /\ artifacts \subseteq Attempts \X Results
    /\ cancelAt \in BOOLEAN /\ adopts \in BOOLEAN
    /\ events \in Seq(EventRecords)

(* Progress is in order, and some event is the latest of it.               *)
ProgressOK ==
    /\ ProgressMonotonic
    /\ Progress # {} => \E i \in Progress : \A j \in Progress : j <= i

RowInv == RowTypes /\ CancellationWins /\ OneResult /\ ProgressOK

(* The workflow and the outbox.                                            *)
FlowInv ==
    /\ signalled \in BOOLEAN /\ intents \subseteq {"run.dispatch", "run.cancel"}
    /\ wf \in Open \cup Closed \cup {"absent"}
    /\ current \in 0..MaxAttempts /\ tries \in 0..MaxTries

(* The steps of an activity.                                               *)
Labels == Gone \cup {"ack", "observe", "acknowledge", "fail", "failing", "prepare",
                     "provision", "load", "begin", "advance", "compute", "check",
                     "commit", "complete", "manifest"}

(* An activity.  Its child was only stopped without a summary because the  *)
(* run is being cancelled, so whoever commits has a summary; the terminal  *)
(* compare-and-swap is for kinds that adopt nothing.                       *)
TaskRecords ==
    [at : Labels, seen : RunState \cup {"none"}, then : Reports \cup {"check"},
     made : MaybeResults, said : 0..MaxProgress]

Prudent(r) ==
    /\ r.then = "check" => Cancelled
    /\ r.at = "check" /\ r.made = NoResult => Cancelled
    /\ r.at \in {"commit", "complete"} => r.made # NoResult
    /\ r.at = "complete" => ~adopts

PrudentTasks == {r \in TaskRecords : Prudent(r)}
TasksInv == task \in [Tasks -> PrudentTasks]

RunInv == RowInv /\ FlowInv /\ TasksInv

-----------------------------------------------------------------------------
(* The transition table: what starts and ends where.                       *)
LEMMA Table ==
    ASSUME NEW s, NEW t, EnsureTransition(s, t)
    PROVE  /\ s \in RunState /\ t \in RunState
           /\ s \notin {"succeeded", "cancelled", "failed"}
           /\ t = "succeeded" => s = "running"
           /\ s = "cancelling" => t \in {"cancelled", "failed"}
           /\ Lifecycle!EnsureTransition(s, t)
BY DEF EnsureTransition, Transitions, RunState, Lifecycle!EnsureTransition,
       Lifecycle!Transitions

(* An event that reports no progress leaves progress as it is.             *)
LEMMA OtherEventKeepsProgress ==
    ASSUME RowInv, NEW type \in EventTypes, type # "run.progress",
           events' = Append(events, Lifecycle!Event(type))
    PROVE  events' \in Seq(EventRecords) /\ ProgressOK'
<1>1. Lifecycle!Event(type) \in EventRecords /\ Lifecycle!Event(type).type = type
  BY DEF Lifecycle!Event, EventRecords
<1>2. /\ events \in Seq(EventRecords) /\ events' \in Seq(EventRecords)
      /\ DOMAIN events' = 1..Len(events) + 1 /\ DOMAIN events = 1..Len(events)
      /\ Len(events) \in Nat
      /\ \A i \in 1..Len(events) : events'[i] = events[i]
      /\ events'[Len(events) + 1].type = type
  BY <1>1 DEF RowInv, RowTypes
<1>3. Progress' = Progress
  BY <1>2 DEF Progress
<1>4. \A i \in Progress : events'[i] = events[i]
  BY <1>2 DEF Progress
<1>5. ProgressMonotonic'
  <2> SUFFICES ASSUME NEW i \in Progress', NEW j \in Progress', i < j
               PROVE  Precedes(events'[i], events'[j].attempt, events'[j].number)
    BY DEF ProgressMonotonic, Precedes
  <2>1. i \in Progress /\ j \in Progress /\ events'[i] = events[i] /\ events'[j] = events[j]
    BY <1>3, <1>4
  <2>2. Precedes(events[i], events[j].attempt, events[j].number)
    BY <2>1 DEF RowInv, ProgressOK, ProgressMonotonic
  <2> QED
    BY <2>1, <2>2
<1> QED
  BY <1>2, <1>3, <1>5 DEF RowInv, ProgressOK

(* The next message of an attempt, if it follows the latest, follows all.  *)
LEMMA NewProgressInOrder ==
    ASSUME RowInv, NEW a \in Attempts, NEW n \in Nat, NewerThanLatest(a, n),
           events' = Append(events, Lifecycle!ProgressEvent(a, n))
    PROVE  events' \in Seq(EventRecords) /\ ProgressOK'
<1> DEFINE e == Lifecycle!ProgressEvent(a, n)
           last == Len(events) + 1
<1>1. /\ e \in EventRecords
      /\ e.type = "run.progress" /\ e.attempt = a /\ e.number = n
  <2>1. a \in Nat
    BY AttemptsAssumption DEF Attempts
  <2>2. e = [type |-> "run.progress", attempt |-> a, number |-> n]
    BY DEF Lifecycle!ProgressEvent
  <2> QED
    BY <2>1, <2>2 DEF EventRecords, EventTypes
<1>2. /\ events \in Seq(EventRecords) /\ events' \in Seq(EventRecords)
      /\ DOMAIN events' = 1..last /\ DOMAIN events = 1..Len(events)
      /\ Len(events) \in Nat
      /\ \A i \in 1..Len(events) : events'[i] = events[i]
      /\ events'[last] = e
  BY <1>1 DEF RowInv, RowTypes
<1> HIDE DEF e
<1>3. Progress' = Progress \cup {last} /\ Progress \subseteq 1..Len(events)
  BY <1>1, <1>2 DEF Progress
<1>4. \A i \in Progress : events'[i] = events[i] /\ events[i] \in EventRecords
  BY <1>2, <1>3
<1>5. \A i \in Progress : Precedes(events[i], a, n)
  <2> SUFFICES ASSUME NEW i \in Progress PROVE Precedes(events[i], a, n)
    OBVIOUS
  <2>1. PICK k \in Progress : \A j \in Progress : j <= k
    BY DEF RowInv, ProgressOK
  <2>2. Precedes(events[k], a, n)
    BY <2>1 DEF NewerThanLatest
  <2>3. i = k \/ Precedes(events[i], events[k].attempt, events[k].number)
    <3>1. i <= k /\ i \in Nat /\ k \in Nat
      BY <2>1, <1>2, <1>3
    <3> QED
      BY <3>1 DEF RowInv, ProgressOK, ProgressMonotonic
  <2>4. /\ events[i].attempt \in Nat /\ events[i].number \in Nat
        /\ events[k].attempt \in Nat /\ events[k].number \in Nat /\ a \in Nat
    BY <1>4, AttemptsAssumption DEF EventRecords, Attempts
  <2> QED
    BY <2>2, <2>3, <2>4 DEF Precedes
<1>6. ProgressMonotonic'
  <2> SUFFICES ASSUME NEW i \in Progress', NEW j \in Progress', i < j
               PROVE  Precedes(events'[i], events'[j].attempt, events'[j].number)
    BY DEF ProgressMonotonic, Precedes
  <2>1. i \in Progress /\ (j \in Progress \/ j = last)
    BY <1>2, <1>3
  <2>2. CASE j \in Progress
    BY <1>4, <2>1, <2>2 DEF RowInv, ProgressOK, ProgressMonotonic
  <2>3. CASE j = last
    BY <1>1, <1>2, <1>4, <1>5, <2>1, <2>3
  <2> QED
    BY <2>1, <2>2, <2>3
<1>7. (Progress # {} => \E i \in Progress : \A j \in Progress : j <= i)'
  <2>1. last \in Progress' /\ \A j \in Progress' : j <= last
    BY <1>2, <1>3
  <2> QED
    BY <2>1
<1> QED
  BY <1>2, <1>6, <1>7 DEF ProgressOK

-----------------------------------------------------------------------------
(* A step of the row keeps its invariant and its cancellation, and is one  *)
(* the lifecycle allows.                                                   *)
GoodRow ==
    /\ RowInv' /\ (Cancelled => Cancelled')
    /\ [Lifecycle!Next]_(Lifecycle!vars)

(* Whoever moves the row along the table, with its event and its result,   *)
(* and a cancelling row only to cancelled, makes a good step.              *)
LEMMA AdvanceIsGood ==
    ASSUME RowInv, NEW target, EnsureTransition(state, target), state' = target,
           NEW type \in Lifecycle!EventTypes(target),
           events' = Append(events, Lifecycle!Event(type)),
           IF target = "succeeded"
           THEN /\ result' \in Results
                /\ IF adopts THEN \E a \in Attempts : artifacts' = {<<a, result'>>}
                             ELSE artifacts' = artifacts
           ELSE result' = NoResult /\ artifacts' = artifacts,
           manifest' = manifest, adopts' = adopts,
           cancelAt' \in BOOLEAN,
           cancelAt' => cancelAt \/ target \in {"cancelling", "cancelled"},
           state = "cancelling" => target = "cancelled"
    PROVE  GoodRow
<1>1. /\ state \in RunState /\ target \in RunState
      /\ state \notin {"succeeded", "cancelled", "failed"}
      /\ Lifecycle!EnsureTransition(state, target)
  BY Table
<1>2. result = NoResult /\ manifest = NoResult /\ artifacts = {}
  BY <1>1 DEF RowInv, OneResult
<1>3. type \in EventTypes /\ type # "run.progress"
  <2>1. type \in EventTypes
    BY <1>1 DEF EventTypes
  <2>2. type # "run.progress"
    BY DEF Lifecycle!EventTypes
  <2> QED
    BY <2>1, <2>2
<1>4. events' \in Seq(EventRecords) /\ ProgressOK'
  BY <1>3, OtherEventKeepsProgress
<1>5. Cancelled => Cancelled'
  BY <1>1 DEF Cancelled
<1>6. CancellationWins'
  <2>1. CASE cancelAt
    BY <1>5, <2>1 DEF RowInv, CancellationWins
  <2>2. CASE ~cancelAt
    BY <2>2 DEF CancellationWins, Cancelled
  <2> QED
    BY <2>1, <2>2
<1>7. RowTypes'
  <2>1. result' \in MaybeResults /\ artifacts' \subseteq Attempts \X Results
    BY <1>2 DEF MaybeResults
  <2> QED
    BY <1>1, <1>4, <2>1 DEF RowTypes, RowInv
<1>8. OneResult'
  BY <1>2, ResultsAssumption DEF OneResult, RowInv, RowTypes
<1>9. Lifecycle!Next
  <2>1. Lifecycle!Advance(target)
    BY <1>1 DEF Lifecycle!Advance
  <2>2. target \in Lifecycle!RunState
    BY <1>1 DEF RunState, Lifecycle!RunState
  <2> QED
    BY <2>1, <2>2 DEF Lifecycle!Next
<1> QED
  BY <1>4, <1>5, <1>6, <1>7, <1>8, <1>9 DEF GoodRow, RowInv

(* A row that nobody touches.                                              *)
LEMMA StillIsGood ==
    ASSUME RowInv, UNCHANGED <<row, outcome, adopts>>
    PROVE  GoodRow
<1>1. /\ state' = state /\ events' = events /\ result' = result /\ cancelAt' = cancelAt
      /\ artifacts' = artifacts /\ manifest' = manifest /\ adopts' = adopts
  BY DEF row, outcome
<1>2. RowTypes' /\ CancellationWins' /\ OneResult' /\ (Cancelled => Cancelled')
  BY <1>1 DEF RowInv, RowTypes, CancellationWins, OneResult, Cancelled
<1>3. Progress' = Progress
  BY <1>1 DEF Progress
<1>4. ProgressOK'
  BY <1>1, <1>3 DEF RowInv, ProgressOK, ProgressMonotonic, Precedes
<1>5. UNCHANGED Lifecycle!vars
  BY <1>1 DEF Lifecycle!vars
<1> QED
  BY <1>2, <1>4, <1>5 DEF GoodRow, RowInv

(* DurableRunStore._transition                                             *)
LEMMA TransitionIsGood ==
    ASSUME RowInv, NEW states, NEW target, NEW type \in Lifecycle!EventTypes(target), NEW summary,
           Transition(states, target, type, summary), UNCHANGED <<outcome, adopts>>,
           IF target = "succeeded" THEN summary \in Results /\ ~adopts ELSE summary = NoResult,
           state \in states /\ state = "cancelling" => target # "failed"
    PROVE  GoodRow
<1>1. CASE state \in states
  <2>1. /\ EnsureTransition(state, target) /\ state' = target /\ result' = summary
        /\ events' = Append(events, Lifecycle!Event(type)) /\ cancelAt' = cancelAt
    BY <1>1 DEF Transition, Expected
  <2>2. artifacts' = artifacts /\ manifest' = manifest /\ adopts' = adopts
    BY DEF outcome
  <2>3. cancelAt' \in BOOLEAN
    BY <2>1 DEF RowInv, RowTypes
  <2> QED
    BY <1>1, <2>1, <2>2, <2>3, Table, AdvanceIsGood
<1>2. CASE state \notin states
  BY <1>2, StillIsGood DEF Transition, Expected
<1> QED
  BY <1>1, <1>2

(* Every step of the program makes a good step of the row.                 *)
LEMMA StoreStepIsGood ==
    ASSUME RunInv, NEW t \in Tasks, StoreStep(t)
    PROVE  GoodRow
<1> USE DEF RunInv, Elsewhere
<1>1. CASE AckRead(t) \/ FailRead(t) \/ PrepareRead
  BY <1>1, StillIsGood DEF AckRead, FailRead, PrepareRead
<1>2. CASE Observe(t)
  <2>1. /\ Transition({task[t].seen}, "cancelling", "run.cancellation_observed", NoResult)
        /\ UNCHANGED <<outcome, adopts>>
    BY <1>2 DEF Observe
  <2>2. "run.cancellation_observed" \in Lifecycle!EventTypes("cancelling")
    BY DEF Lifecycle!EventTypes
  <2> QED
    BY <2>1, <2>2, TransitionIsGood
<1>3. CASE Acknowledge(t)
  <2>1. /\ Transition({"cancelling"}, "cancelled", "run.cancelled", NoResult)
        /\ UNCHANGED <<outcome, adopts>>
    BY <1>3 DEF Acknowledge
  <2>2. "run.cancelled" \in Lifecycle!EventTypes("cancelled")
    BY DEF Lifecycle!EventTypes
  <2> QED
    BY <2>1, <2>2, TransitionIsGood
<1>4. CASE FailSwap(t)
  <2>1. /\ Transition({"queued", "provisioning", "running"}, "failed", "run.failed", NoResult)
        /\ UNCHANGED <<outcome, adopts>>
    BY <1>4 DEF FailSwap
  <2>2. "run.failed" \in Lifecycle!EventTypes("failed")
    BY DEF Lifecycle!EventTypes
  <2> QED
    BY <2>1, <2>2, TransitionIsGood
<1>5. CASE Provision
  <2>1. /\ Transition({"queued"}, "provisioning", "run.provisioning", NoResult)
        /\ UNCHANGED <<outcome, adopts>>
    BY <1>5 DEF Provision
  <2>2. "run.provisioning" \in Lifecycle!EventTypes("provisioning")
    BY DEF Lifecycle!EventTypes
  <2> QED
    BY <2>1, <2>2, TransitionIsGood
<1> QED
  BY <1>1, <1>2, <1>3, <1>4, <1>5 DEF StoreStep

(* Progress is appended to a running row, in order.                        *)
LEMMA ProgressIsGood ==
    ASSUME RunInv, NEW a \in Attempts, RecordProgress(a)
    PROVE  GoodRow
<1> DEFINE n == task[a].said + 1
<1>1. /\ n <= MaxProgress /\ state' = state /\ result' = result /\ cancelAt' = cancelAt
      /\ artifacts' = artifacts /\ manifest' = manifest /\ adopts' = adopts
      /\ events' = IF TakesProgress /\ NewerThanLatest(a, n)
                   THEN Append(events, Lifecycle!ProgressEvent(a, n)) ELSE events
  BY DEF RecordProgress, Elsewhere, outcome
<1>2. n \in Nat /\ n \in 1..MaxProgress
  <2>1. a \in Tasks
    BY AttemptsAssumption DEF Attempts, Tasks, Prep, Fin
  <2>2. task[a].said \in 0..MaxProgress
    BY <2>1 DEF RunInv, TasksInv, PrudentTasks, TaskRecords
  <2> QED
    BY <1>1, <2>2, AttemptsAssumption
<1> HIDE DEF n
<1>3. CASE TakesProgress /\ NewerThanLatest(a, n)
  <2>1. events' = Append(events, Lifecycle!ProgressEvent(a, n))
    BY <1>1, <1>3
  <2>2. events' \in Seq(EventRecords) /\ ProgressOK'
    BY <1>2, <1>3, <2>1, NewProgressInOrder DEF RunInv
  <2>3. RowTypes' /\ CancellationWins' /\ OneResult' /\ (Cancelled => Cancelled')
    BY <1>1, <2>2 DEF RunInv, RowInv, RowTypes, CancellationWins, OneResult, Cancelled
  <2>4. Lifecycle!Next
    <3>1. Lifecycle!Report(a, n)
      BY <1>1, <1>3, <2>1 DEF Lifecycle!Report, TakesProgress
    <3> QED
      BY <1>2, <3>1 DEF Lifecycle!Next, Attempts
  <2> QED
    BY <2>2, <2>3, <2>4 DEF GoodRow, RowInv
<1>4. CASE ~(TakesProgress /\ NewerThanLatest(a, n))
  <2>1. UNCHANGED <<row, outcome, adopts>>
    BY <1>1, <1>4 DEF row, outcome
  <2> QED
    BY <2>1, StillIsGood DEF RunInv
<1> QED
  BY <1>3, <1>4

(* The commit of an adopted result, whatever became of the row since the   *)
(* attempt looked at it last.                                              *)
LEMMA CommitIsGood ==
    ASSUME RunInv, NEW a \in Attempts, CommitAdopted(a)
    PROVE  GoodRow
<1> DEFINE made == task[a].made
           cancelled == LockedState \in {"cancelling", "cancelled"} \/ cancelAt
<1>1. manifest' = manifest /\ adopts' = adopts /\ adopts
  BY DEF CommitAdopted
<1>2. made \in MaybeResults
  <2>1. a \in Tasks
    BY AttemptsAssumption DEF Attempts, Tasks, Prep, Fin
  <2> QED
    BY <2>1 DEF RunInv, TasksInv, PrudentTasks, TaskRecords
<1>3. CASE UNCHANGED <<row, artifacts>>
  BY <1>1, <1>3, StillIsGood DEF RunInv, outcome
<1>4. CASE CancelLocked /\ cancelled /\ UNCHANGED artifacts
  <2>1. state \in {"cancelling", "cancelled"}
    BY <1>4 DEF LockedState, RunInv, RowInv, CancellationWins, Cancelled
  <2>2. state' = "cancelled" /\ result' = NoResult /\ cancelAt' = TRUE /\ artifacts' = artifacts
    BY <1>4 DEF CancelLocked
  <2>3. CASE state = "cancelling"
    <3>1. events' = Append(events, Lifecycle!Event("run.cancelled"))
      BY <1>4, <2>3 DEF CancelLocked
    <3>2. /\ EnsureTransition(state, "cancelled")
          /\ "run.cancelled" \in Lifecycle!EventTypes("cancelled")
      BY <2>3 DEF EnsureTransition, Transitions, Lifecycle!EventTypes
    <3> QED
      BY <1>1, <2>2, <3>1, <3>2, AdvanceIsGood DEF RunInv
  <2>4. CASE state = "cancelled"
    <3>1. events' = events /\ state' = state
      BY <1>4, <2>2, <2>4 DEF CancelLocked
    <3>2. result = NoResult
      BY <2>4 DEF RunInv, RowInv, OneResult
    <3>3. RowTypes' /\ CancellationWins' /\ OneResult' /\ (Cancelled => Cancelled')
      BY <1>1, <2>2, <2>4, <3>1, <3>2
      DEF RunInv, RowInv, RowTypes, CancellationWins, OneResult, Cancelled
    <3>4. Progress' = Progress
      BY <3>1 DEF Progress
    <3>5. ProgressOK'
      BY <3>1, <3>4 DEF RunInv, RowInv, ProgressOK, ProgressMonotonic, Precedes
    <3>6. UNCHANGED Lifecycle!vars
      BY <2>2, <3>1, <3>2 DEF Lifecycle!vars
    <3> QED
      BY <3>3, <3>5, <3>6 DEF GoodRow, RowInv
  <2> QED
    BY <2>1, <2>3, <2>4
<1>5. CASE /\ made # NoResult /\ LockedState = "running" /\ UNCHANGED cancelAt
           /\ state' = "succeeded" /\ result' = made
           /\ events' = Append(events, Lifecycle!Event("run.succeeded"))
           /\ artifacts' = artifacts \cup {<<a, made>>}
  <2>1. state = "running"
    BY <1>5 DEF LockedState
  <2>2. artifacts = {}
    BY <2>1 DEF RunInv, RowInv, OneResult
  <2>3. made \in Results
    BY <1>2, <1>5 DEF MaybeResults
  <2>4. /\ EnsureTransition(state, "succeeded")
        /\ "run.succeeded" \in Lifecycle!EventTypes("succeeded")
    BY <2>1 DEF EnsureTransition, Transitions, Lifecycle!EventTypes
  <2>5. artifacts' = {<<a, result'>>}
    BY <1>5, <2>2
  <2>6. cancelAt' = cancelAt /\ cancelAt' \in BOOLEAN
    BY <1>5 DEF RunInv, RowInv, RowTypes
  <2> QED
    BY <1>1, <1>5, <2>1, <2>3, <2>4, <2>5, <2>6, AdvanceIsGood DEF RunInv
<1> QED
  BY <1>3, <1>4, <1>5 DEF CommitAdopted

(* begin_execution, complete and finalize.                                 *)
LEMMA AttemptStepIsGood ==
    ASSUME RunInv, NEW a \in Attempts, AdvanceRow(a) \/ Complete(a) \/ FinalizeManifest(a)
    PROVE  GoodRow
<1>0. task[a] \in PrudentTasks
  <2>1. a \in Tasks
    BY AttemptsAssumption DEF Attempts, Tasks, Prep, Fin
  <2> QED
    BY <2>1 DEF RunInv, TasksInv
<1>1. CASE AdvanceRow(a)
  <2> DEFINE seen == task[a].seen
  <2>1. /\ UNCHANGED <<outcome, adopts>>
        /\ \/ Transition({seen}, "provisioning", "run.provisioning", NoResult)
           \/ Transition({seen}, "running", "run.started", NoResult)
    BY <1>1 DEF AdvanceRow, Elsewhere
  <2>2. /\ "run.provisioning" \in Lifecycle!EventTypes("provisioning")
        /\ "run.started" \in Lifecycle!EventTypes("running")
    BY DEF Lifecycle!EventTypes
  <2> HIDE DEF seen
  <2>3. CASE Transition({seen}, "provisioning", "run.provisioning", NoResult)
    BY <2>1, <2>2, <2>3, TransitionIsGood DEF RunInv
  <2>4. CASE Transition({seen}, "running", "run.started", NoResult)
    BY <2>1, <2>2, <2>4, TransitionIsGood DEF RunInv
  <2> QED
    BY <2>1, <2>3, <2>4
<1>2. CASE Complete(a)
  <2>1. /\ UNCHANGED <<outcome, adopts>> /\ task[a].at = "complete"
        /\ Transition({"running"}, "succeeded", "run.succeeded", task[a].made)
    BY <1>2 DEF Complete, Elsewhere
  <2>2. task[a].made \in Results /\ ~adopts
    BY <1>0, <2>1 DEF PrudentTasks, Prudent, TaskRecords, MaybeResults
  <2>3. "run.succeeded" \in Lifecycle!EventTypes("succeeded")
    BY DEF Lifecycle!EventTypes
  <2> QED
    BY <2>1, <2>2, <2>3, TransitionIsGood DEF RunInv
<1>3. CASE FinalizeManifest(a)
  <2>1. /\ manifest' = result /\ state' = state /\ events' = events /\ result' = result
        /\ cancelAt' = cancelAt /\ artifacts' = artifacts /\ adopts' = adopts
    BY <1>3 DEF FinalizeManifest, row
  <2>2. RowTypes' /\ CancellationWins' /\ OneResult' /\ (Cancelled => Cancelled')
    BY <2>1 DEF RunInv, RowInv, RowTypes, CancellationWins, OneResult, Cancelled
  <2>3. Progress' = Progress
    BY <2>1 DEF Progress
  <2>4. ProgressOK'
    BY <2>1, <2>3 DEF RunInv, RowInv, ProgressOK, ProgressMonotonic, Precedes
  <2>5. UNCHANGED Lifecycle!vars
    BY <2>1 DEF Lifecycle!vars
  <2> QED
    BY <2>2, <2>4, <2>5 DEF GoodRow, RowInv
<1> QED
  BY <1>1, <1>2, <1>3

(* The API and the reaper.                                                 *)
LEMMA OutsideStepIsGood ==
    ASSUME RunInv, RequestCancellation \/ Expire
    PROVE  GoodRow
<1>1. CASE RequestCancellation
  <2>1. /\ EnsureTransition(state, "cancelling") /\ state' = "cancelling"
        /\ events' = Append(events, Lifecycle!Event("run.cancellation_requested"))
        /\ cancelAt' = TRUE /\ result' = result /\ adopts' = adopts
        /\ manifest' = manifest /\ artifacts' = artifacts
    BY <1>1 DEF RequestCancellation, outcome
  <2>2. "run.cancellation_requested" \in Lifecycle!EventTypes("cancelling")
    BY DEF Lifecycle!EventTypes
  <2>3. state # "succeeded" /\ state # "cancelling"
    BY <2>1, Table
  <2>4. result' = NoResult
    BY <2>1, <2>3 DEF RunInv, RowInv, OneResult
  <2> QED
    BY <2>1, <2>2, <2>3, <2>4, AdvanceIsGood DEF RunInv
<1>2. CASE Expire
  <2> DEFINE target == IF state = "cancelling" THEN "cancelled" ELSE "failed"
             type == IF state = "cancelling" THEN "run.cancelled" ELSE "run.failed"
  <2>1. /\ EnsureTransition(state, target) /\ state' = target
        /\ events' = Append(events, Lifecycle!Event(type))
        /\ cancelAt' = cancelAt /\ result' = NoResult /\ adopts' = adopts
        /\ manifest' = manifest /\ artifacts' = artifacts
    BY <1>2 DEF Expire, outcome
  <2>2. type \in Lifecycle!EventTypes(target) /\ target \in {"cancelled", "failed"}
    BY DEF Lifecycle!EventTypes
  <2>3. state = "cancelling" => target = "cancelled"
    OBVIOUS
  <2>4. cancelAt' \in BOOLEAN
    BY <2>1 DEF RunInv, RowInv, RowTypes
  <2> HIDE DEF target, type
  <2> QED
    BY <2>1, <2>2, <2>3, <2>4, AdvanceIsGood DEF RunInv
<1> QED
  BY <1>1, <1>2

(* Steps that look, decide, start and wait.                                *)
LEMMA QuietStepIsGood ==
    ASSUME RunInv, UNCHANGED row, UNCHANGED outcome, UNCHANGED adopts
    PROVE  GoodRow
BY StillIsGood DEF RunInv

(* The same of every step of the system.                                   *)
LEMMA StepIsGood ==
    ASSUME RunInv, [Next]_vars
    PROVE  GoodRow
<1>1. ASSUME NEW t \in Tasks, StoreStep(t) PROVE GoodRow
  BY <1>1, StoreStepIsGood
<1>2. ASSUME NEW a \in Attempts, ExecuteStep(a) PROVE GoodRow
  <2>1. CASE Load(a) \/ Begin(a) \/ Tick(a) \/ Compute(a) \/ Check(a) \/ CompleteRead(a)
    BY <2>1, QuietStepIsGood DEF Load, Begin, Tick, Compute, Check, CompleteRead, Elsewhere
  <2> QED
    BY <1>2, <2>1, ProgressIsGood, CommitIsGood, AttemptStepIsGood DEF ExecuteStep
<1>3. ASSUME NEW a \in Attempts, NEW retryable \in BOOLEAN, NEW handled \in BOOLEAN,
             Interrupted(a) \/ Crash(a) \/ Raise(a, retryable, handled)
      PROVE  GoodRow
  BY <1>3, QuietStepIsGood DEF Interrupted, Crash, Raise, Elsewhere
<1>4. CASE WorkflowStep \/ TimeOut \/ ControlTrouble
  BY <1>4, QuietStepIsGood
  DEF WorkflowStep, Run, Prepared, Executed, Finalized, TimeOut, ControlTrouble, Quiet
<1>5. CASE PublishDispatch \/ PublishCancel
  BY <1>5, QuietStepIsGood DEF PublishDispatch, PublishCancel, Quiet
<1>6. CASE UNCHANGED vars
  BY <1>6, QuietStepIsGood DEF vars
<1> QED
  BY <1>1, <1>2, <1>3, <1>4, <1>5, <1>6, OutsideStepIsGood DEF Next

-----------------------------------------------------------------------------
(* What a task becomes must be prudent in the row that is then.            *)
BecomesPrudent(r) ==
    /\ r \in TaskRecords
    /\ r.then = "check" => Cancelled'
    /\ r.at = "check" /\ r.made = NoResult => Cancelled'
    /\ r.at \in {"commit", "complete"} => r.made # NoResult
    /\ r.at = "complete" => ~adopts

(* What the tasks rely on does not change under them.                      *)
Settled == (Cancelled => Cancelled') /\ adopts' = adopts

(* A task set to something prudent, beside tasks that were.                *)
LEMMA TaskIsSet ==
    ASSUME TasksInv, Settled, NEW t \in Tasks, NEW r, BecomesPrudent(r),
           task' = [task EXCEPT ![t] = r]
    PROVE  TasksInv'
<1>1. PrudentTasks \subseteq PrudentTasks'
  BY DEF PrudentTasks, Prudent, Settled, TaskRecords
<1>2. r \in PrudentTasks'
  BY DEF BecomesPrudent, PrudentTasks, Prudent, Settled, TaskRecords
<1> QED
  BY <1>1, <1>2 DEF TasksInv

(* Tasks that nobody touches.                                              *)
LEMMA TasksStay ==
    ASSUME TasksInv, Settled, task' = task
    PROVE  TasksInv'
BY DEF TasksInv, PrudentTasks, Prudent, Settled, TaskRecords

(* A task that starts anew has no summary yet.                             *)
LEMMA StartIsPrudent ==
    ASSUME NEW label \in Labels \ {"check", "commit", "complete"}
    PROVE  BecomesPrudent(Running(label))
<1>1. Running(label) = [at |-> label, seen |-> "none", then |-> "ok", made |-> NoResult,
                        said |-> 0]
  BY DEF Running, Idle
<1>2. 0 \in 0..MaxProgress
  BY AttemptsAssumption
<1> QED
  BY <1>1, <1>2 DEF BecomesPrudent, TaskRecords, Labels, MaybeResults, Reports

(* A report nobody waits for any more is as prudent as one that counts.    *)
LEMMA TaskProceeds ==
    ASSUME TasksInv, Settled, NEW t \in Tasks, NEW step, BecomesPrudent(step),
           Proceed(t, step)
    PROVE  TasksInv'
<1>1. CASE step.at \notin Reports
  BY <1>1, TaskIsSet DEF Proceed
<1>2. CASE step.at \in Reports
  <2> DEFINE label == IF Awaited(t) THEN step.at ELSE "lost"
  <2>1. label \in Labels \ {"check", "commit", "complete"}
    BY <1>2 DEF Labels, Gone, Reports
  <2>2. task' = [task EXCEPT ![t] = Running(label)]
    BY <1>2 DEF Proceed
  <2> HIDE DEF label
  <2> QED
    BY <2>1, <2>2, StartIsPrudent, TaskIsSet
<1> QED
  BY <1>1, <1>2

(* The next step with fresh locals.                                        *)
LEMMA TaskGoes ==
    ASSUME TasksInv, Settled, NEW t \in Tasks,
           NEW label \in Labels \ {"commit", "complete"}, label = "check" => Cancelled',
           Goto(t, label)
    PROVE  TasksInv'
<1>1. BecomesPrudent(Running(label))
  <2>1. Running(label) = [at |-> label, seen |-> "none", then |-> "ok", made |-> NoResult,
                          said |-> 0]
    BY DEF Running, Idle
  <2>2. 0 \in 0..MaxProgress
    BY AttemptsAssumption
  <2> QED
    BY <2>1, <2>2 DEF BecomesPrudent, TaskRecords, Labels, MaybeResults, Reports
<1> QED
  BY <1>1, TaskProceeds DEF Goto

(* Another step of a task, with the state it acts on.                      *)
Relabel(r, label, s) == [r EXCEPT !.at = label, !.seen = s]

(* A task record with another step, or another thing to report.            *)
LEMMA Relabelled ==
    ASSUME NEW r \in TaskRecords, NEW label \in Labels, NEW s \in RunState \cup {"none"}
    PROVE  /\ Relabel(r, label, s) \in TaskRecords
           /\ Relabel(r, label, s).at = label
           /\ Relabel(r, label, s).then = r.then /\ Relabel(r, label, s).made = r.made
BY DEF Relabel, TaskRecords, Labels

(* A task record with something else to report.                            *)
LEMMA Redirected ==
    ASSUME NEW r \in TaskRecords, NEW then \in Reports \cup {"check"},
           NEW q, q = [r EXCEPT !.then = then]
    PROVE  q \in TaskRecords /\ q.at = r.at /\ q.then = then /\ q.made = r.made
BY DEF TaskRecords

(* A detour through ack or fail; back to check only under cancellation.    *)
LEMMA TaskGoesThen ==
    ASSUME TasksInv, Settled, NEW t \in Tasks, NEW label \in {"ack", "fail"},
           NEW then \in Reports \cup {"check"}, then = "check" => Cancelled',
           GotoThen(t, label, then)
    PROVE  TasksInv'
<1> DEFINE step == [Running(label) EXCEPT !.then = then]
<1>1. Running(label) \in TaskRecords /\ Running(label).at = label
  <2>1. label \in Labels \ {"check", "commit", "complete"}
    BY DEF Labels
  <2>2. Running(label).at = label
    BY DEF Running, Idle
  <2> QED
    BY <2>1, <2>2, StartIsPrudent DEF BecomesPrudent
<1>2. step \in TaskRecords /\ step.at = label /\ step.then = then
  BY <1>1, Redirected
<1>3. BecomesPrudent(step)
  BY <1>2 DEF BecomesPrudent
<1>4. Proceed(t, step)
  BY DEF GotoThen
<1> HIDE DEF step
<1> QED
  BY <1>3, <1>4, TaskProceeds

(* A task that goes on with its locals: what it keeps was prudent.         *)
LEMMA TaskKeeps ==
    ASSUME TasksInv, Settled, NEW t \in Tasks,
           NEW label \in {"ack", "acknowledge", "failing", "commit", "complete"},
           label \in {"commit", "complete"} => task[t].made # NoResult,
           label = "complete" => ~adopts,
           Keep(t, label)
    PROVE  TasksInv'
<1> DEFINE step == Relabel(task[t], label, "none")
<1>1. task[t] \in TaskRecords /\ (task[t].then = "check" => Cancelled')
  BY DEF TasksInv, PrudentTasks, Prudent, Settled
<1>2. /\ step \in TaskRecords
      /\ step.at = label /\ step.then = task[t].then /\ step.made = task[t].made
  <2>1. label \in Labels
    BY DEF Labels
  <2> QED
    BY <1>1, <2>1, Relabelled
<1>3. Proceed(t, step)
  BY DEF Keep, Relabel
<1> HIDE DEF step
<1>4. BecomesPrudent(step)
  BY <1>1, <1>2 DEF BecomesPrudent
<1> QED
  BY <1>3, <1>4, TaskProceeds

(* A task that acts next on the state it read just now.                    *)
LEMMA TaskDecides ==
    ASSUME TasksInv, Settled, state \in RunState, NEW t \in Tasks,
           NEW label \in {"observe", "advance"}, Decide(t, label)
    PROVE  TasksInv'
<1> DEFINE step == Relabel(task[t], label, state)
<1>1. task[t] \in TaskRecords /\ (task[t].then = "check" => Cancelled')
  BY DEF TasksInv, PrudentTasks, Prudent, Settled
<1>2. /\ step \in TaskRecords
      /\ step.at = label /\ step.then = task[t].then /\ step.made = task[t].made
  <2>1. label \in Labels
    BY DEF Labels
  <2> QED
    BY <1>1, <2>1, Relabelled
<1>3. Proceed(t, step)
  BY DEF Decide, Relabel
<1> HIDE DEF step
<1>4. BecomesPrudent(step)
  BY <1>1, <1>2 DEF BecomesPrudent
<1> QED
  BY <1>3, <1>4, TaskProceeds

(* Where a task was asked to go on after a detour.                         *)
LEMMA TaskIsDone ==
    ASSUME TasksInv, Settled, NEW t \in Tasks, Done(t)
    PROVE  TasksInv'
<1>1. task[t].then \in Reports \cup {"check"} /\ (task[t].then = "check" => Cancelled')
  BY DEF TasksInv, PrudentTasks, Prudent, Settled, TaskRecords
<1>2. task[t].then \in Labels \ {"commit", "complete"}
  BY <1>1 DEF Labels, Gone, Reports
<1> QED
  BY <1>1, <1>2, TaskGoes DEF Done

(* An activity the server starts.                                          *)
LEMMA TaskStarts ==
    ASSUME TasksInv, Settled, NEW t \in Tasks,
           NEW label \in Labels \ {"check", "commit", "complete"}, StartTask(t, label)
    PROVE  TasksInv'
BY StartIsPrudent, TaskIsSet DEF StartTask

-----------------------------------------------------------------------------
(* Which activity is which task.                                           *)
LEMMA AllAreTasks ==
    Attempts \subseteq Tasks /\ Prep \in Tasks /\ Fin \in Tasks
BY AttemptsAssumption DEF Attempts, Tasks, Prep, Fin

(* The kind of the run and a cancellation of it stay.                      *)
LEMMA StepSettles ==
    ASSUME RunInv, [Next]_vars
    PROVE  Settled
<1>1. adopts' = adopts
  BY DEF Next, vars, StoreStep, AckRead, Observe, Acknowledge, FailRead, FailSwap,
         PrepareRead, Provision, ExecuteStep, Load, Begin, AdvanceRow, RecordProgress, Tick,
         Compute, Check, CompleteRead, Complete, CommitAdopted, FinalizeManifest,
         Interrupted, Crash, Raise, WorkflowStep, Run, Prepared, Executed, Finalized,
         TimeOut, ControlTrouble, PublishDispatch, PublishCancel, RequestCancellation,
         Expire, Elsewhere, Quiet
<1> QED
  BY <1>1, StepIsGood DEF Settled, GoodRow

(* The store operations.                                                   *)
LEMMA StoreStepKeepsTasks ==
    ASSUME RunInv, Settled, NEW t \in Tasks, StoreStep(t)
    PROVE  TasksInv'
<1>1. TasksInv /\ state \in RunState
  BY DEF RunInv, RowInv, RowTypes
<1>2. {"provision", "ack", "ok"} \subseteq Labels \ {"check", "commit", "complete"}
  BY DEF Labels, Gone, Reports
<1>3. CASE AckRead(t)
  <2>1. Decide(t, "observe") \/ Keep(t, "acknowledge") \/ Done(t)
    BY <1>3 DEF AckRead
  <2> QED
    BY <1>1, <2>1, TaskDecides, TaskKeeps, TaskIsDone
<1>4. CASE Observe(t) \/ Acknowledge(t)
  <2>1. Keep(t, "acknowledge") \/ Done(t)
    BY <1>4 DEF Observe, Acknowledge
  <2> QED
    BY <1>1, <2>1, TaskKeeps, TaskIsDone
<1>5. CASE FailRead(t) \/ FailSwap(t)
  <2>1. Keep(t, "ack") \/ Keep(t, "failing") \/ Done(t)
    BY <1>5 DEF FailRead, FailSwap
  <2> QED
    BY <1>1, <2>1, TaskKeeps, TaskIsDone
<1>6. CASE PrepareRead \/ Provision
  <2>1. \E label \in {"provision", "ack", "ok"} : Goto(Prep, label)
    BY <1>6 DEF PrepareRead, Provision
  <2> QED
    BY <1>1, <1>2, <2>1, AllAreTasks, TaskGoes
<1> QED
  BY <1>3, <1>4, <1>5, <1>6 DEF StoreStep

(* What the execution goes on with.                                        *)
LEMMA ExecutionGoes ==
    ASSUME RunInv, Settled, NEW a \in Attempts, NEW label \in Labels, Goto(a, label),
           label \notin {"check", "commit", "complete"}
    PROVE  TasksInv'
BY AllAreTasks, TaskGoes DEF RunInv

(* begin_execution and the child.                                          *)
LEMMA BeginningKeepsTasks ==
    ASSUME RunInv, Settled, NEW a \in Attempts,
           Load(a) \/ Begin(a) \/ AdvanceRow(a) \/ RecordProgress(a) \/ Tick(a) \/ Compute(a)
    PROVE  TasksInv'
<1>1. /\ TasksInv /\ state \in RunState /\ a \in Tasks
      /\ task[a] \in TaskRecords /\ Prudent(task[a])
  BY AllAreTasks DEF RunInv, RowInv, RowTypes, TasksInv, PrudentTasks
<1>2. \A s : AfterBegin(s) \in Labels \ {"check", "commit", "complete"}
  BY DEF AfterBegin, Labels, Gone, Reports
<1>3. CASE Load(a)
  <2>1. Goto(a, "manifest") \/ Goto(a, "begin")
    BY <1>3 DEF Load
  <2>2. "manifest" \in Labels /\ "begin" \in Labels
    BY DEF Labels
  <2> QED
    BY <2>1, <2>2, ExecutionGoes
<1>4. CASE Begin(a)
  <2>1. Decide(a, "advance") \/ Goto(a, AfterBegin(state))
    BY <1>4 DEF Begin
  <2> QED
    BY <1>1, <1>2, <2>1, TaskDecides, ExecutionGoes
<1>5. CASE AdvanceRow(a)
  <2> DEFINE ahead == [Running("advance") EXCEPT !.seen = state']
  <2>1. \/ state' \in {"queued", "provisioning"} /\ Proceed(a, ahead)
        \/ Goto(a, AfterBegin(state'))
    BY <1>5 DEF AdvanceRow, Goto
  <2>2. CASE state' \in {"queued", "provisioning"} /\ Proceed(a, ahead)
    <3>1. Running("advance") \in TaskRecords /\ Running("advance").at = "advance"
          /\ Running("advance").then = "ok"
      <4>1. "advance" \in Labels \ {"check", "commit", "complete"}
        BY DEF Labels
      <4>2. Running("advance").at = "advance" /\ Running("advance").then = "ok"
        BY DEF Running, Idle
      <4> QED
        BY <4>1, <4>2, StartIsPrudent DEF BecomesPrudent
    <3>2. state' \in RunState
      BY <2>2 DEF RunState
    <3>3. ahead \in TaskRecords /\ ahead.at = "advance" /\ ahead.then = "ok"
      BY <3>1, <3>2 DEF TaskRecords
    <3> HIDE DEF ahead
    <3>4. BecomesPrudent(ahead)
      BY <3>3 DEF BecomesPrudent
    <3> QED
      BY <1>1, <2>2, <3>4, TaskProceeds
  <2>3. CASE Goto(a, AfterBegin(state'))
    BY <1>2, <2>3, ExecutionGoes
  <2> QED
    BY <2>1, <2>2, <2>3
<1>6. CASE RecordProgress(a)
  <2> DEFINE n == task[a].said + 1
             told == [task[a] EXCEPT !.said = n]
  <2>1. n <= MaxProgress /\ task' = [task EXCEPT ![a] = told]
    BY <1>6 DEF RecordProgress
  <2>2. task[a].said \in 0..MaxProgress
    BY <1>1 DEF TaskRecords
  <2>3. n \in 0..MaxProgress
    BY <2>1, <2>2, AttemptsAssumption
  <2> HIDE DEF n
  <2>4. told \in TaskRecords /\ told.at = "compute" /\ told.then = task[a].then
    <3>1. task[a].at = "compute"
      BY <1>6 DEF RecordProgress
    <3> QED
      BY <1>1, <2>3, <3>1 DEF TaskRecords
  <2> HIDE DEF told
  <2>5. BecomesPrudent(told)
    BY <1>1, <2>4 DEF BecomesPrudent, Prudent, Settled
  <2> QED
    BY <1>1, <2>1, <2>5, TaskIsSet
<1>7. CASE Tick(a)
  <2>1. Cancelled' /\ GotoThen(a, "ack", "check")
    BY <1>7 DEF Tick, Settled
  <2> QED
    BY <1>1, <2>1, TaskGoesThen
<1>8. CASE Compute(a)
  <2>1. PICK r \in Results : Proceed(a, [Running("check") EXCEPT !.made = r])
    BY <1>8 DEF Compute
  <2> DEFINE answered == [Running("check") EXCEPT !.made = r]
  <2>2. /\ Running("check") \in TaskRecords /\ Running("check").at = "check"
        /\ Running("check").then = "ok"
    <3>1. Running("check") = [at |-> "check", seen |-> "none", then |-> "ok",
                              made |-> NoResult, said |-> 0]
      BY DEF Running, Idle
    <3>2. 0 \in 0..MaxProgress
      BY AttemptsAssumption
    <3> QED
      BY <3>1, <3>2 DEF TaskRecords, Labels, MaybeResults, Reports
  <2>3. /\ answered \in TaskRecords /\ answered.at = "check" /\ answered.then = "ok"
        /\ answered.made = r
    BY <2>2 DEF TaskRecords, MaybeResults
  <2>4. Proceed(a, answered)
    BY <2>1
  <2> HIDE DEF answered
  <2>5. BecomesPrudent(answered)
    BY <2>3, ResultsAssumption DEF BecomesPrudent
  <2> QED
    BY <1>1, <2>4, <2>5, TaskProceeds
<1> QED
  BY <1>3, <1>4, <1>5, <1>6, <1>7, <1>8

(* The commit and what follows it.                                         *)
LEMMA CommittingKeepsTasks ==
    ASSUME RunInv, Settled, NEW a \in Attempts,
           Check(a) \/ CompleteRead(a) \/ Complete(a) \/ CommitAdopted(a) \/ FinalizeManifest(a)
    PROVE  TasksInv'
<1>1. TasksInv /\ a \in Tasks /\ Prudent(task[a])
  BY AllAreTasks DEF RunInv, TasksInv, PrudentTasks
<1>2. /\ {"ack", "ok", "error", "retry", "manifest"} \subseteq Labels
      /\ \A s : AfterCommit(s) \in Labels \ {"check", "commit", "complete"}
  BY DEF AfterCommit, Labels, Gone, Reports
<1>3. CASE Check(a)
  <2>1. \/ Goto(a, "ack")
        \/ ~Cancelled /\ task[a].at = "check" /\ Keep(a, "commit")
    BY <1>3 DEF Check
  <2>2. ~Cancelled /\ task[a].at = "check" => task[a].made # NoResult
    BY <1>1 DEF Prudent
  <2> QED
    BY <1>1, <1>2, <2>1, <2>2, ExecutionGoes, TaskKeeps
<1>4. CASE CompleteRead(a)
  <2>1. /\ task[a].at = "commit" /\ ~adopts
        /\ Goto(a, "ack") \/ Goto(a, AfterCommit(state)) \/ Keep(a, "complete")
    BY <1>4 DEF CompleteRead
  <2>2. task[a].made # NoResult
    BY <1>1, <2>1 DEF Prudent
  <2> QED
    BY <1>1, <1>2, <2>1, <2>2, ExecutionGoes, TaskKeeps
<1>5. CASE Complete(a)
  <2>1. Goto(a, AfterCommit(state'))
    BY <1>5 DEF Complete
  <2> QED
    BY <1>2, <2>1, ExecutionGoes
<1>6. CASE CommitAdopted(a)
  <2>1. \/ GotoThen(a, "fail", "error")
        \/ \E label \in {"ok", "manifest", "error", "retry"} : Goto(a, label)
    BY <1>6 DEF CommitAdopted
  <2>2. CASE GotoThen(a, "fail", "error")
    <3>1. "error" \in Reports \cup {"check"}
      BY DEF Reports
    <3> QED
      BY <1>1, <2>2, <3>1, TaskGoesThen
  <2>3. CASE \E label \in {"ok", "manifest", "error", "retry"} : Goto(a, label)
    BY <1>2, <2>3, ExecutionGoes
  <2> QED
    BY <2>1, <2>2, <2>3
<1>7. CASE FinalizeManifest(a)
  <2>1. Goto(a, "ok")
    BY <1>7 DEF FinalizeManifest
  <2> QED
    BY <1>2, <2>1, ExecutionGoes
<1> QED
  BY <1>3, <1>4, <1>5, <1>6, <1>7

(* Errors, interruptions and crashes.                                      *)
LEMMA TroubleKeepsTasks ==
    ASSUME RunInv, Settled, NEW a \in Attempts, NEW retryable \in BOOLEAN, NEW handled \in BOOLEAN,
           Interrupted(a) \/ Crash(a) \/ Raise(a, retryable, handled)
    PROVE  TasksInv'
<1>1. TasksInv /\ a \in Tasks
  BY AllAreTasks DEF RunInv
<1>2. {"retry", "error", "lost"} \subseteq Labels /\ {"error", "cancelled"} \subseteq Reports
  BY DEF Labels, Gone, Reports
<1>3. \/ GotoThen(a, "fail", "error") \/ GotoThen(a, "ack", "cancelled")
      \/ \E label \in {"retry", "error", "lost"} : Goto(a, label)
  BY DEF Interrupted, Crash, Raise
<1>4. CASE \E label \in {"retry", "error", "lost"} : Goto(a, label)
  BY <1>2, <1>4, ExecutionGoes
<1> QED
  BY <1>1, <1>2, <1>3, <1>4, TaskGoesThen

(* What the workflow starts.                                               *)
LEMMA StartKeepsTasks ==
    ASSUME RunInv, Settled, NEW t \in Tasks,
           NEW label \in {"prepare", "load", "fail", "ack"}, StartTask(t, label)
    PROVE  TasksInv'
BY TaskStarts DEF RunInv, Labels

(* _finalize_failure and _finalize_cancellation.                           *)
LEMMA FinalizeIsSound ==
    ASSUME RunInv, Settled, NEW cancel, Finalize(cancel)
    PROVE  /\ TasksInv' /\ tries' \in 0..MaxTries
           /\ wf' \in Open \cup Closed \cup {"absent"}
<1>1. StartTask(Fin, "ack") \/ StartTask(Fin, "fail")
  BY DEF Finalize
<1>2. TasksInv'
  BY <1>1, AllAreTasks, StartKeepsTasks
<1>3. tries' \in 0..MaxTries /\ wf' \in Open
  BY AttemptsAssumption DEF Finalize, Open
<1> QED
  BY <1>2, <1>3

(* The server's retry of the execution.                                    *)
LEMMA NextAttemptIsSound ==
    ASSUME RunInv, Settled, NextAttempt
    PROVE  /\ TasksInv' /\ current' \in 0..MaxAttempts
           /\ wf' = wf /\ tries' = tries
<1>1. current + 1 \in Attempts /\ current' = current + 1
  BY AttemptsAssumption DEF RunInv, FlowInv, NextAttempt, Retries, Attempts
<1>2. StartTask(current + 1, "load")
  BY DEF NextAttempt
<1>3. TasksInv'
  <2>1. current + 1 \in Tasks
    BY <1>1, AllAreTasks
  <2> QED
    BY <1>2, <2>1, StartKeepsTasks
<1>4. current' \in 0..MaxAttempts
  BY <1>1, AttemptsAssumption DEF Attempts
<1> QED
  BY <1>3, <1>4 DEF NextAttempt

(* The workflow and the server.                                            *)
LEMMA WorkflowStepIsSound ==
    ASSUME RunInv, Settled, WorkflowStep \/ TimeOut
    PROVE  FlowInv' /\ TasksInv'
<1>1. /\ FlowInv /\ TasksInv /\ signalled' = signalled /\ intents' = intents
  BY DEF RunInv, WorkflowStep, Run, Prepared, Executed, Finalized, TimeOut
<1>2. CASE Run
  <2>1. current' = current
    BY <1>2 DEF Run
  <2>2. \/ Finalize(TRUE)
        \/ wf' = "prepare" /\ tries' = 1 /\ StartTask(Prep, "prepare")
    BY <1>2 DEF Run
  <2>3. CASE Finalize(TRUE)
    BY <1>1, <2>1, <2>3, FinalizeIsSound DEF FlowInv
  <2>4. CASE wf' = "prepare" /\ tries' = 1 /\ StartTask(Prep, "prepare")
    <3>1. TasksInv'
      BY <2>4, AllAreTasks, StartKeepsTasks
    <3>2. tries' \in 0..MaxTries /\ wf' \in Open
      BY <2>4, AttemptsAssumption DEF Open
    <3> QED
      BY <1>1, <2>1, <3>1, <3>2 DEF FlowInv
  <2> QED
    BY <2>2, <2>3, <2>4
<1>3. CASE Prepared
  <2>1. \/ wf' = "execute" /\ current' = 1 /\ tries' = 0 /\ StartTask(1, "load")
        \/ Finalize(signalled) /\ current' = current
    BY <1>3 DEF Prepared
  <2>2. CASE wf' = "execute" /\ current' = 1 /\ tries' = 0 /\ StartTask(1, "load")
    <3>1. 1 \in Tasks /\ current' \in 0..MaxAttempts /\ tries' \in 0..MaxTries /\ wf' \in Open
      BY <2>2, AllAreTasks, AttemptsAssumption DEF Open, Attempts
    <3>2. TasksInv'
      BY <2>2, <3>1, StartKeepsTasks
    <3> QED
      BY <1>1, <3>1, <3>2 DEF FlowInv
  <2>3. CASE Finalize(signalled) /\ current' = current
    BY <1>1, <2>3, FinalizeIsSound DEF FlowInv
  <2> QED
    BY <2>1, <2>2, <2>3
<1>4. ASSUME NextAttempt PROVE FlowInv' /\ TasksInv'
  BY <1>1, <1>4, NextAttemptIsSound DEF FlowInv
<1>5. ASSUME ActivityFails PROVE FlowInv' /\ TasksInv'
  BY <1>1, <1>5, FinalizeIsSound DEF FlowInv, ActivityFails
<1>6. CASE Executed
  <2>1. \/ wf' = "completed" /\ UNCHANGED <<current, tries, task>>
        \/ NextAttempt \/ ActivityFails
    BY <1>6 DEF Executed
  <2>2. CASE wf' = "completed" /\ UNCHANGED <<current, tries, task>>
    BY <1>1, <2>2, TasksStay DEF FlowInv, Closed
  <2> QED
    BY <1>4, <1>5, <2>1, <2>2
<1>7. CASE TimeOut
  BY <1>4, <1>5, <1>7 DEF TimeOut
<1>8. CASE Finalized
  <2>1. wf' \in Closed /\ UNCHANGED <<current, tries, task>>
    BY <1>8 DEF Finalized, Closed
  <2> QED
    BY <1>1, <2>1, TasksStay DEF FlowInv
<1> QED
  BY <1>2, <1>3, <1>6, <1>7, <1>8 DEF WorkflowStep

(* A retry of a prepare or finalize activity, or the end of its tries.     *)
LEMMA ControlTroubleIsSound ==
    ASSUME RunInv, Settled, ControlTrouble
    PROVE  FlowInv' /\ TasksInv'
<1>1. PICK t \in AwaitedControl :
          \/ /\ tries < MaxTries /\ tries' = tries + 1
             /\ \E label \in {"prepare", "fail", "ack"} : StartTask(t, label)
          \/ Goto(t, "error") /\ UNCHANGED tries
  BY DEF ControlTrouble
<1>2. FlowInv /\ UNCHANGED <<wf, signalled, current, intents>>
  BY DEF ControlTrouble, RunInv
<1>3. t \in Tasks
  BY AllAreTasks DEF AwaitedControl
<1>4. tries' \in 0..MaxTries
  BY <1>1, <1>2, AttemptsAssumption DEF FlowInv
<1>5. TasksInv'
  <2>1. CASE \E label \in {"prepare", "fail", "ack"} : StartTask(t, label)
    BY <1>3, <2>1, StartKeepsTasks
  <2>2. CASE Goto(t, "error")
    <3>1. "error" \in Labels \ {"check", "commit", "complete"}
      BY DEF Labels, Gone, Reports
    <3> QED
      BY <1>3, <2>2, <3>1, TaskGoes DEF RunInv
  <2> QED
    BY <1>1, <2>1, <2>2
<1> QED
  BY <1>2, <1>4, <1>5 DEF FlowInv

(* The publisher, the API and the reaper.                                  *)
LEMMA OutsideStepIsSound ==
    ASSUME RunInv, Settled, PublishDispatch \/ PublishCancel \/ RequestCancellation \/ Expire
    PROVE  FlowInv' /\ TasksInv'
<1>1. FlowInv /\ TasksInv
  BY DEF RunInv
<1>2. CASE PublishDispatch
  <2>1. /\ UNCHANGED <<signalled, current, tries, task>>
        /\ wf' \in {"started", wf} /\ intents' \subseteq intents
    BY <1>2 DEF PublishDispatch, Marked
  <2> QED
    BY <1>1, <2>1, TasksStay DEF FlowInv, Open
<1>3. CASE PublishCancel
  <2>1. /\ current' = current /\ intents' \subseteq intents
        /\ signalled' \in {TRUE, signalled}
        /\ Finalize(TRUE) \/ UNCHANGED <<wf, tries, task>>
    BY <1>3 DEF PublishCancel, Marked
  <2>2. CASE Finalize(TRUE)
    BY <1>1, <2>1, <2>2, FinalizeIsSound DEF FlowInv
  <2>3. CASE UNCHANGED <<wf, tries, task>>
    BY <1>1, <2>1, <2>3, TasksStay DEF FlowInv
  <2> QED
    BY <2>1, <2>2, <2>3
<1>4. CASE RequestCancellation \/ Expire
  <2>1. UNCHANGED <<flow, task>> /\ intents' \subseteq intents \cup {"run.cancel"}
    BY <1>4 DEF RequestCancellation, Expire
  <2> QED
    BY <1>1, <2>1, TasksStay DEF FlowInv, flow
<1> QED
  BY <1>2, <1>3, <1>4

-----------------------------------------------------------------------------
(* Submission establishes the invariant and every step keeps it.           *)
LEMMA InitIsSound == Init => RunInv
<1> SUFFICES ASSUME Init PROVE RunInv
  OBVIOUS
<1>1. RowTypes /\ CancellationWins /\ OneResult
  <2>1. events \in Seq(EventRecords)
    <3>1. Lifecycle!Event("run.submitted") \in EventRecords
      BY DEF Lifecycle!Event, EventRecords, EventTypes
    <3> QED
      BY <3>1 DEF Init
  <2>2. /\ state = "queued" /\ result = NoResult /\ manifest = NoResult /\ artifacts = {}
        /\ cancelAt = FALSE /\ adopts \in BOOLEAN
    BY ResultsAssumption DEF Init
  <2>3. state \in RunState
    BY <2>2 DEF RunState
  <2> QED
    BY <2>1, <2>2, <2>3 DEF RowTypes, CancellationWins, OneResult, MaybeResults
<1>2. Progress = {}
  BY DEF Init, Progress, Lifecycle!Event
<1>3. ProgressOK
  BY <1>2 DEF ProgressOK, ProgressMonotonic
<1>4. FlowInv
  <2>1. signalled = FALSE /\ intents = {"run.dispatch"} /\ wf = "absent"
    BY DEF Init
  <2>2. current \in 0..MaxAttempts /\ tries \in 0..MaxTries
    BY AttemptsAssumption DEF Init
  <2> QED
    BY <2>1, <2>2 DEF FlowInv
<1>5. TasksInv
  <2>1. Idle \in PrudentTasks
    <3>1. 0 \in 0..MaxProgress
      BY AttemptsAssumption
    <3> QED
      BY <3>1 DEF Idle, PrudentTasks, Prudent, TaskRecords, Labels, Gone, Reports,
                  MaybeResults
  <2> QED
    BY <2>1 DEF Init, TasksInv
<1> QED
  BY <1>1, <1>3, <1>4, <1>5 DEF RunInv, RowInv

(* Every step keeps the invariant.                                         *)
LEMMA StepIsSound ==
    ASSUME RunInv, [Next]_vars
    PROVE  RunInv'
<1>1. Settled /\ RowInv' /\ FlowInv
  BY StepSettles, StepIsGood DEF GoodRow, RunInv
<1>2. ASSUME UNCHANGED flow, UNCHANGED intents PROVE FlowInv'
  BY <1>1, <1>2 DEF FlowInv, flow
<1>3. ASSUME NEW t \in Tasks, StoreStep(t) PROVE FlowInv' /\ TasksInv'
  <2>1. UNCHANGED flow /\ UNCHANGED intents
    BY <1>3 DEF StoreStep, AckRead, Observe, Acknowledge, FailRead, FailSwap, PrepareRead,
                Provision, Elsewhere
  <2> QED
    BY <1>1, <1>2, <1>3, <2>1, StoreStepKeepsTasks
<1>4. ASSUME NEW a \in Attempts, ExecuteStep(a) PROVE FlowInv' /\ TasksInv'
  <2>1. UNCHANGED flow /\ UNCHANGED intents
    BY <1>4 DEF ExecuteStep, Load, Begin, AdvanceRow, RecordProgress, Tick, Compute, Check,
                CompleteRead, Complete, CommitAdopted, FinalizeManifest, Elsewhere
  <2> QED
    BY <1>1, <1>2, <1>4, <2>1, BeginningKeepsTasks, CommittingKeepsTasks DEF ExecuteStep
<1>5. ASSUME NEW a \in Attempts, NEW retryable \in BOOLEAN, NEW handled \in BOOLEAN,
             Interrupted(a) \/ Crash(a) \/ Raise(a, retryable, handled)
      PROVE  FlowInv' /\ TasksInv'
  <2>1. UNCHANGED flow /\ UNCHANGED intents
    BY <1>5 DEF Interrupted, Crash, Raise, Elsewhere
  <2> QED
    BY <1>1, <1>2, <1>5, <2>1, TroubleKeepsTasks
<1>6. ASSUME UNCHANGED vars PROVE FlowInv' /\ TasksInv'
  BY <1>1, <1>2, <1>6, TasksStay DEF vars, RunInv
<1>7. ASSUME WorkflowStep \/ TimeOut PROVE FlowInv' /\ TasksInv'
  BY <1>1, <1>7, WorkflowStepIsSound
<1>8. ASSUME ControlTrouble PROVE FlowInv' /\ TasksInv'
  BY <1>1, <1>8, ControlTroubleIsSound
<1>9. ASSUME PublishDispatch \/ PublishCancel \/ RequestCancellation \/ Expire
      PROVE  FlowInv' /\ TasksInv'
  BY <1>1, <1>9, OutsideStepIsSound
<1>10. FlowInv' /\ TasksInv'
  BY <1>3, <1>4, <1>5, <1>6, <1>7, <1>8, <1>9 DEF Next
<1> QED
  BY <1>1, <1>10 DEF RunInv

(* The invariant holds in every reachable state.                           *)
LEMMA RunIsSound == Spec => []RunInv
BY InitIsSound, StepIsSound, PTL DEF Spec

(* How a run comes out, for any number of overlapping attempts: types, a   *)
(* persisted cancellation wins over every commit, finalizer and reaper,    *)
(* one result with its artifact and manifest, and ordered progress.        *)
THEOREM OutcomesSound == Spec => []OutcomeSound
<1>1. RunInv => OutcomeSound
  <2> SUFFICES ASSUME RunInv PROVE OutcomeSound
    OBVIOUS
  <2>1. \A t \in Tasks : task[t] \in TaskRecords
    BY DEF RunInv, TasksInv, PrudentTasks
  <2>2. TypeOK
    BY <2>1 DEF RunInv, RowInv, RowTypes, FlowInv, TypeOK, TaskRecords, MaybeResults
  <2> QED
    BY <2>2 DEF OutcomeSound, RunInv, RowInv, ProgressOK
<1> QED
  BY <1>1, RunIsSound, PTL

(* The row, its events and its result behave like the run promised to the  *)
(* tenant (RunLifecycle), whatever attempts, workflow and reaper do.       *)
THEOREM LifecycleKept == Spec => ImplementsLifecycle
<1>1. Init => Lifecycle!Init
  BY DEF Init, Lifecycle!Init
<1>2. RunInv /\ [Next]_vars => [Lifecycle!Next]_(Lifecycle!vars)
  BY StepIsGood DEF GoodRow
<1> QED
  BY <1>1, <1>2, RunIsSound, PTL DEF Spec, ImplementsLifecycle, Lifecycle!Spec
=============================================================================
