----------------------------- MODULE ChildProcess -----------------------------
(***************************************************************************)
(* One execution of a run's handler in a spawned process                   *)
(* (workflows/process_runner.py): the child writes progress messages and   *)
(* one answer into a pipe, the parent's loop relays them while it ticks,   *)
(* watches the deadline and may be cancelled, and the child is stopped by  *)
(* a thread before the execution ends.  Time is the flag `late`; a message *)
(* carries its sequence number, the answer how the handler ended.         *)
(***************************************************************************)
EXTENDS Naturals, SequencesExt

CONSTANTS
  ProgressLimit,   \* MAX_DURABLE_PROGRESS_MESSAGES
  Cancels          \* bound: how often one execution's task is cancelled

ASSUME ProgressAssumption == ProgressLimit \in Nat /\ Cancels \in Nat

VARIABLES
  child,     \* the spawned process: "unborn", "running", "answered" or "dead"
  emitted,   \* the sequence numbers the child has written
  answer,    \* the answer it has written, "none" before
  pipe,      \* what the parent has not read yet
  parent,    \* where the parent's coroutine is
  relayed,   \* the sequence numbers given to on_progress
  childOutcome,   \* how execute ends
  late,      \* the monotonic clock has passed the deadline
  cancelled, \* how often the coroutine was cancelled
  stopper,   \* the thread of _stop_process
  listed     \* the child's pid is in _active_pids

childVars == <<child, emitted, answer, pipe, parent, relayed, childOutcome, late,
               cancelled, stopper, listed>>

Alive == child \in {"running", "answered"}

Leaving == {"cleanup", "unwinding", "left"}

(* _child_execute and HandlerRegistry.execute: what the handler did,       *)
(* reduced to the answer's retry classification.                           *)
Answers == {"ok", "retryable", "fatal"}

ChildInit ==
  /\ child = "unborn"
  /\ emitted = <<>>
  /\ answer = "none"
  /\ pipe = <<>>
  /\ parent = "start"
  /\ relayed = <<>>
  /\ childOutcome = "none"
  /\ late = FALSE
  /\ cancelled = 0
  /\ stopper = "idle"
  /\ listed = FALSE

--------------------------------------------------------------------------------
(* The child.                                                              *)

(* A write into the pipe; once the parent has closed its end it raises and *)
(* the child ends without an answer.                                       *)
Write(message, next) ==
  IF parent \in Leaving
    THEN child' = "dead" /\ UNCHANGED pipe
    ELSE child' = next /\ pipe' = Append(pipe, message)

(* emit: the limit and the order are checked before anything is written.   *)
Admitted(n) ==
  /\ Len(emitted) < ProgressLimit
  /\ \A i \in DOMAIN emitted : emitted[i] < n

ChildEmits(n) ==
  /\ child = "running"
  /\ Admitted(n)
  /\ Write(<<"progress", n>>, "running")
  /\ emitted' = IF child' = "running" THEN Append(emitted, n) ELSE emitted
  /\ UNCHANGED <<answer, parent, relayed, childOutcome, late, cancelled, stopper,
                 listed>>

(* The final message.  A handler whose progress is not admitted fails with *)
(* invalid_progress, one more way to answer "fatal".                       *)
ChildAnswers(a) ==
  /\ child = "running"
  /\ Write(<<"answer", a>>, "answered")
  /\ answer' = IF child' = "answered" THEN a ELSE answer
  /\ UNCHANGED <<emitted, parent, relayed, childOutcome, late, cancelled, stopper,
                 listed>>

(* The process ends: after its answer, or killed by the system at any time.*)
ChildEnds ==
  /\ Alive
  /\ child' = "dead"
  /\ UNCHANGED <<emitted, answer, pipe, parent, relayed, childOutcome, late,
                 cancelled, stopper, listed>>

--------------------------------------------------------------------------------
(* The parent's loop.                                                      *)

(* The finally block: both ends closed, the stop thread started.           *)
Leave(o) ==
  /\ childOutcome' = o
  /\ pipe' = <<>>
  /\ parent' = "cleanup"
  /\ stopper' = "asked"

Spawn ==
  /\ parent = "start"
  /\ parent' = "loop"
  /\ child' = "running"
  /\ listed' = TRUE
  /\ UNCHANGED <<emitted, answer, pipe, relayed, childOutcome, late, cancelled,
                 stopper>>

SpawnFails ==
  /\ parent = "start"
  /\ parent' = "left"
  /\ childOutcome' = "process_start_failed"
  /\ UNCHANGED <<child, emitted, answer, pipe, relayed, late, cancelled,
                 stopper, listed>>

(* poll(0): a message, or the end of file a dead child leaves.             *)
Readable == pipe # <<>> \/ child = "dead"

(* The first test of the loop: the child is gone and nothing can be read.  *)
Exhausted == child = "dead" /\ ~Readable

(* Why this turn of the loop ends the execution before it reads, if it does.*)
Fault ==
  IF Exhausted THEN "worker_process_failed"
  ELSE IF late THEN "execution_timeout"
  ELSE "none"

LoopFails ==
  /\ parent = "loop"
  /\ Fault # "none"
  /\ Leave(Fault)
  /\ UNCHANGED <<child, emitted, answer, relayed, late, cancelled, listed>>

(* The tick is due: a heartbeat and a look at the run's cancellation flag  *)
(* and at the worker's shutdown, awaited outside the loop's tests.         *)
TickDue ==
  /\ parent = "loop"
  /\ Fault = "none"
  /\ parent' = "tick"
  /\ UNCHANGED <<child, emitted, answer, pipe, relayed, childOutcome, late,
                 cancelled, stopper, listed>>

TickPasses ==
  /\ parent = "tick"
  /\ parent' = "loop"
  /\ UNCHANGED <<child, emitted, answer, pipe, relayed, childOutcome, late,
                 cancelled, stopper, listed>>

(* tick or on_progress raise: the run was cancelled, the worker shuts down,*)
(* or the database refuses.                                                *)
CallbackRaises(o) ==
  /\ parent \in {"tick", "relay"}
  /\ Leave(o)
  /\ UNCHANGED <<child, emitted, answer, relayed, late, cancelled, listed>>

(* recv_bytes at the end of file.                                          *)
ReadEnd ==
  /\ parent = "loop"
  /\ Fault = "none"
  /\ Readable
  /\ pipe = <<>>
  /\ Leave("worker_process_failed")
  /\ UNCHANGED <<child, emitted, answer, relayed, late, cancelled, listed>>

(* A progress message the parent accepts is on its way to on_progress.     *)
InOrder(n) ==
  /\ Len(relayed) < ProgressLimit
  /\ relayed # <<>> => Last(relayed) < n

ReadProgress ==
  /\ parent = "loop"
  /\ Fault = "none"
  /\ pipe # <<>>
  /\ Head(pipe)[1] = "progress"
  /\ IF InOrder(Head(pipe)[2])
       THEN /\ relayed' = Append(relayed, Head(pipe)[2])
            /\ pipe' = Tail(pipe)
            /\ parent' = "relay"
            /\ UNCHANGED <<childOutcome, stopper>>
       ELSE Leave("invalid_progress") /\ UNCHANGED relayed
  /\ UNCHANGED <<child, emitted, answer, late, cancelled, listed>>

Relayed ==
  /\ parent = "relay"
  /\ parent' = "loop"
  /\ UNCHANGED <<child, emitted, answer, pipe, relayed, childOutcome, late,
                 cancelled, stopper, listed>>

ReadAnswer ==
  /\ parent = "loop"
  /\ Fault = "none"
  /\ pipe # <<>>
  /\ Head(pipe)[1] = "answer"
  /\ Leave(Head(pipe)[2])
  /\ UNCHANGED <<child, emitted, answer, relayed, late, cancelled, listed>>

DeadlinePasses ==
  /\ parent \in {"loop", "tick", "relay"}
  /\ ~late
  /\ late' = TRUE
  /\ UNCHANGED <<child, emitted, answer, pipe, parent, relayed, childOutcome,
                 cancelled, stopper, listed>>

--------------------------------------------------------------------------------
(* Cancellation of the coroutine and the end of the child.                 *)

(* At an await of the loop: the finally block runs.                        *)
CancelLoop ==
  /\ parent \in {"loop", "tick", "relay"}
  /\ cancelled < Cancels
  /\ cancelled' = cancelled + 1
  /\ Leave("cancelled")
  /\ UNCHANGED <<child, emitted, answer, relayed, late, listed>>

(* Mutant: an unshielded cleanup, whose cancellation ends the thread.      *)
CancelCleanup_NotShielded ==
  /\ parent = "cleanup"
  /\ cancelled < Cancels
  /\ cancelled' = cancelled + 1
  /\ parent' = "left"
  /\ stopper' = "done"
  /\ childOutcome' = "cancelled"
  /\ UNCHANGED <<child, emitted, answer, pipe, relayed, late, listed>>

(* During the shielded cleanup: the thread goes on, the handler of         *)
(* CancelledError waits for it a second time.                              *)
CancelCleanup ==
  /\ parent = "cleanup"
  /\ cancelled < Cancels
  /\ cancelled' = cancelled + 1
  /\ parent' = "unwinding"
  /\ childOutcome' = "cancelled"
  /\ UNCHANGED <<child, emitted, answer, pipe, relayed, late, stopper, listed>>

(* That second wait is not shielded: another cancellation ends it, while   *)
(* the thread still runs and the pid stays listed.                         *)
CancelUnwinding ==
  /\ parent = "unwinding"
  /\ cancelled < Cancels
  /\ cancelled' = cancelled + 1
  /\ parent' = "left"
  /\ UNCHANGED <<child, emitted, answer, pipe, relayed, childOutcome, late, stopper,
                 listed>>

(* _stop_process: SIGTERM and a join that may run out ...                  *)
Terminate ==
  /\ stopper = "asked"
  /\ stopper' = "joined"
  /\ child' \in IF Alive THEN {child, "dead"} ELSE {child}
  /\ UNCHANGED <<emitted, answer, pipe, parent, relayed, childOutcome, late,
                 cancelled, listed>>

(* ... then SIGKILL, which nothing survives.                               *)
Kill ==
  /\ stopper = "joined"
  /\ stopper' = "done"
  /\ child' = "dead"
  /\ UNCHANGED <<emitted, answer, pipe, parent, relayed, childOutcome, late,
                 cancelled, listed>>

(* The cleanup is over.  Only when it was not cancelled does the line      *)
(* after it run, which takes the pid off the list.                         *)
CleanupEnds ==
  /\ parent \in {"cleanup", "unwinding"}
  /\ stopper = "done"
  /\ parent' = "left"
  /\ listed' = (listed /\ parent = "unwinding")
  /\ UNCHANGED <<child, emitted, answer, pipe, relayed, childOutcome, late,
                 cancelled, stopper>>

(* The next execution of this runner, with a process of its own.           *)
NextExecution ==
  /\ parent = "left"
  /\ stopper # "asked" /\ stopper # "joined"
  /\ child' = "unborn"
  /\ emitted' = <<>>
  /\ answer' = "none"
  /\ pipe' = <<>>
  /\ parent' = "start"
  /\ relayed' = <<>>
  /\ childOutcome' = "none"
  /\ late' = FALSE
  /\ cancelled' = 0
  /\ stopper' = "idle"
  /\ listed' = FALSE

ChildNext ==
  \/ \E n \in 0..(ProgressLimit - 1) : ChildEmits(n)
  \/ \E a \in Answers : ChildAnswers(a)
  \/ ChildEnds
  \/ Spawn
  \/ SpawnFails
  \/ LoopFails
  \/ TickDue
  \/ TickPasses
  \/ \E o \in {"run_cancelled", "worker_shutdown", "persistence_unavailable"} :
       CallbackRaises(o)
  \/ ReadEnd
  \/ ReadProgress
  \/ Relayed
  \/ ReadAnswer
  \/ DeadlinePasses
  \/ CancelLoop
  \/ CancelCleanup
  \/ CancelUnwinding
  \/ Terminate
  \/ Kill
  \/ CleanupEnds
  \/ NextExecution

ChildSpec == ChildInit /\ [][ChildNext]_childVars

--------------------------------------------------------------------------------
ChildTypeOK ==
  /\ child \in {"unborn", "running", "answered", "dead"}
  /\ emitted \in Seq(0..(ProgressLimit - 1))
  /\ answer \in Answers \cup {"none"}
  /\ \A i \in DOMAIN pipe :
       \/ pipe[i][1] = "answer" /\ pipe[i][2] \in Answers
       \/ pipe[i][1] = "progress" /\ pipe[i][2] \in 0..(ProgressLimit - 1)
  /\ parent \in {"start", "loop", "tick", "relay"} \cup Leaving
  /\ relayed \in Seq(0..(ProgressLimit - 1))
  /\ late \in BOOLEAN
  /\ cancelled \in 0..Cancels
  /\ stopper \in {"idle", "asked", "joined", "done"}
  /\ listed \in BOOLEAN

(* What the run's events show is what the child reported: messages reach   *)
(* on_progress in the order written and none is skipped, a success is      *)
(* returned only after every one of them, and a child that answered is     *)
(* never taken for one that crashed, however its exit races the reads.     *)
AnswerFaithful ==
  /\ IsPrefix(relayed, emitted)
  /\ childOutcome = "ok" => relayed = emitted /\ answer = "ok"
  /\ childOutcome = "worker_process_failed" => answer = "none"

(* However often the coroutine is cancelled, in the loop or while the      *)
(* child is being stopped, no live child is forgotten: it stays listed     *)
(* for the shutdown diagnostics, and after execute has ended the thread    *)
(* that stops it is still at work.                                         *)
ChildNotAbandoned ==
  Alive => listed /\ (parent = "left" => stopper \in {"asked", "joined"})

(* What execute owes its caller: the truth about the child, and no child    *)
(* left behind.                                                             *)
ChildHandled == AnswerFaithful /\ ChildNotAbandoned
================================================================================
