---------------------------- MODULE RunLifecycle ----------------------------
(***************************************************************************)
(* What the control plane promises a tenant about one run: the row walks   *)
(* the transition table, every step of it appends exactly one event, the   *)
(* result appears with success and with nothing else, and a run whose      *)
(* cancellation was requested never succeeds.  There is no worker, no      *)
(* workflow and no retry here.  DurableRun is shown to implement it.       *)
(***************************************************************************)
EXTENDS RunStates, Sequences

CONSTANTS
    Results,    \* normalized result summaries
    NoResult,   \* NULL
    Attempts,   \* activity attempts a progress event can come from
    MaxProgress \* bound: progress messages of one attempt

VARIABLES
    state,      \* Run.state
    events,     \* RunEvent rows in sequence order
    result      \* Run.result_summary

vars == <<state, events, result>>

(* An event without progress payload. *)
Event(type) == [type |-> type, attempt |-> 0, number |-> 0]
ProgressEvent(a, n) == [type |-> "run.progress", attempt |-> a, number |-> n]

(* The event types a transition into a state may append. *)
EventTypes(s) ==
    CASE s = "provisioning" -> {"run.provisioning"}
      [] s = "running" -> {"run.started"}
      [] s = "cancelling" -> {"run.cancellation_requested",
                              "run.cancellation_observed"}
      [] s = "cancelled" -> {"run.cancelled"}
      [] s = "succeeded" -> {"run.succeeded"}
      [] s = "failed" -> {"run.failed"}
      [] OTHER -> {}

Init ==
    /\ state = "queued"
    /\ events = <<Event("run.submitted")>>
    /\ result = NoResult

(* One legal transition and its event, in one transaction. *)
Advance(target) ==
    /\ EnsureTransition(state, target)
    /\ state' = target
    /\ \E type \in EventTypes(target) : events' = Append(events, Event(type))
    /\ IF target = "succeeded" THEN result' \in Results ELSE result' = NoResult

(* Progress is only observed while the run is running. *)
Report(a, n) ==
    /\ state = "running"
    /\ events' = Append(events, ProgressEvent(a, n))
    /\ UNCHANGED <<state, result>>

Next ==
    \/ \E target \in RunState : Advance(target)
    \/ \E a \in Attempts, n \in 1..MaxProgress : Report(a, n)

Spec == Init /\ [][Next]_vars
=============================================================================
