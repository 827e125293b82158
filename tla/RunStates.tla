----------------------------- MODULE RunStates -----------------------------
(***************************************************************************)
(* The durable run state machine of domain/jobs.py: the persisted states,  *)
(* the table of legal transitions and the guards every writer of a run row *)
(* calls before it assigns a new state.                                    *)
(***************************************************************************)
EXTENDS Naturals

(* RunState *)
RunState == {"draft", "queued", "provisioning", "running",
             "cancelling", "cancelled", "succeeded", "failed"}

(* _TRANSITIONS, as a set of ordered pairs *)
Transitions ==
    ({"draft"} \X {"queued", "cancelled"})
    \cup ({"queued"} \X {"provisioning", "cancelling", "cancelled", "failed"})
    \cup ({"provisioning"} \X {"running", "cancelling", "failed"})
    \cup ({"running"} \X {"succeeded", "failed", "cancelling"})
    \cup ({"cancelling"} \X {"cancelled", "failed"})

(* ensure_transition: raises InvalidStateTransitionError unless it holds *)
EnsureTransition(s, t) == <<s, t>> \in Transitions

(* is_terminal: no successor in the table *)
IsTerminal(s) == \A t \in RunState : <<s, t>> \notin Transitions

(* The terminal states, and the states a submitted run can be live in. *)
TerminalState == {"cancelled", "succeeded", "failed"}
LiveState == {"queued", "provisioning", "running", "cancelling"}
=============================================================================
