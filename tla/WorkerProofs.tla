---------------------------- MODULE WorkerProofs -----------------------------
(***************************************************************************)
(* Proofs about a worker and what it executes: its child processes         *)
(* (ChildProcess), DATG indexes (DatgIndexes), model runtimes              *)
(* (ModelRuntime), trusted inputs (TrustedInputs) and the settings of a    *)
(* fleet (WorkerFleet); and, with PhonRl and RepositoryGeneration of       *)
(* RecordsProofs, about all of a worker's components (MCWorkers).          *)
(***************************************************************************)
EXTENDS MCWorkers, RecordsProofs, FiniteSetTheorems, TLAPS

-----------------------------------------------------------------------------
(***************************************************************************)
(* What an execution owes its caller, for any limit of progress messages   *)
(* and however often its coroutine is cancelled.                           *)
(***************************************************************************)

Looping == {"loop", "tick", "relay"}
Places == {"start"} \cup Looping \cup Leaving
Stages == {"unborn", "running", "answered", "dead"}
Numbers == 0..(ProgressLimit - 1)
Messages == ({"progress"} \X Numbers) \cup ({"answer"} \X Answers)

ChildTypes ==
  /\ child \in Stages /\ parent \in Places
  /\ emitted \in Seq(Numbers) /\ relayed \in Seq(Numbers) /\ pipe \in Seq(Messages)
  /\ answer \in Answers \cup {"none"}
  /\ stopper \in {"idle", "asked", "joined", "done"}
  /\ listed \in BOOLEAN

(* Where the child is, by where the parent and the stopping thread are.    *)
Custody ==
  /\ Alive => listed /\ parent # "start"
  /\ parent = "start" => child = "unborn" /\ stopper = "idle"
  /\ parent \in Looping => stopper = "idle"
  /\ parent \in {"cleanup", "unwinding"} => stopper # "idle"
  /\ parent = "left" /\ stopper = "idle" => ~Alive
  /\ stopper = "done" => ~Alive

Unread == Len(emitted) - Len(relayed)

(* What was relayed is where the child's messages begin ...                *)
RelayedFirst ==
  /\ Len(relayed) <= Len(emitted)
  /\ \A i \in 1..Len(relayed) : relayed[i] = emitted[i]

(* ... and while the parent reads, the pipe holds the others, and behind   *)
(* them the answer.                                                        *)
PipeHoldsRest ==
  /\ Len(pipe) = Unread + (IF answer = "none" THEN 0 ELSE 1)
  /\ \A i \in 1..Unread : pipe[i] = <<"progress", emitted[Len(relayed) + i]>>
  /\ answer # "none" => pipe[Unread + 1] = <<"answer", answer>>

Books ==
  /\ RelayedFirst
  /\ parent = "start" => emitted = <<>> /\ relayed = <<>> /\ pipe = <<>> /\ answer = "none"
  /\ parent \in Looping => PipeHoldsRest
  /\ child \in {"unborn", "running"} => answer = "none"
  /\ parent \notin Leaving => childOutcome = "none"
  /\ childOutcome = "ok" => Len(relayed) = Len(emitted) /\ answer = "ok"
  /\ childOutcome = "worker_process_failed" => answer = "none"

ChildInv == ChildTypes /\ Custody /\ Books

-----------------------------------------------------------------------------
(* Before the first execution nothing was written or started. *)
LEMMA ChildStart == ChildInit => ChildInv
<1> SUFFICES ASSUME ChildInit PROVE ChildInv
  OBVIOUS
<1>1. ChildTypes
  <2>1. <<>> \in Seq(Numbers) /\ <<>> \in Seq(Messages)
    OBVIOUS
  <2> QED
    BY <2>1 DEF ChildInit, ChildTypes, Places, Stages
<1>2. Custody
  BY DEF ChildInit, Custody, Alive, Looping
<1>3. Books
  BY DEF ChildInit, Books, RelayedFirst, Looping, Leaving
<1> QED
  BY <1>1, <1>2, <1>3 DEF ChildInv

(* Sequences that agree on the length of the first make it a prefix.       *)
LEMMA PrefixOfSame ==
  ASSUME emitted \in Seq(Numbers), relayed \in Seq(Numbers), RelayedFirst
  PROVE  IsPrefix(relayed, emitted) /\ (Len(relayed) = Len(emitted) => relayed = emitted)
  BY DEF RelayedFirst, IsPrefix

(* The invariant is what execute owes its caller.                          *)
LEMMA InvHandles == ChildInv => ChildHandled
  BY PrefixOfSame
  DEF ChildInv, ChildTypes, Custody, Books, ChildHandled, AnswerFaithful, ChildNotAbandoned

(* Leave closes the pipe: the books only have to explain the outcome.      *)
LEMMA LeaveKeepsInv ==
  ASSUME ChildInv, NEW o, parent \in Looping, Leave(o),
         UNCHANGED <<child, emitted, answer, relayed, listed>>,
         o = "ok" => Len(relayed) = Len(emitted) /\ answer = "ok",
         o = "worker_process_failed" => answer = "none"
  PROVE  ChildInv'
<1>1. ChildTypes'
  BY DEF ChildInv, ChildTypes, Leave, Places, Leaving
<1>2. Custody'
  BY DEF ChildInv, Custody, Leave, Looping, Alive
<1>3. Books'
  BY DEF ChildInv, Books, RelayedFirst, Leave, Looping, Leaving
<1> QED
  BY <1>1, <1>2, <1>3 DEF ChildInv

(* A step of the parent or of the thread that touches no message and keeps *)
(* custody keeps the books, too, if it does not go back to the loop.       *)
LEMMA BooksStay ==
  ASSUME Books, UNCHANGED <<emitted, answer, pipe, relayed>>,
         parent' = "start" => parent = "start",
         parent' \in Looping => parent \in Looping,
         parent' \notin Leaving => parent \notin Leaving,
         child' \in {"unborn", "running"} => child \in {"unborn", "running"},
         childOutcome' \in {childOutcome, "process_start_failed", "cancelled"},
         childOutcome' # childOutcome => parent' \in Leaving
  PROVE  Books'
<1>1. RelayedFirst' = RelayedFirst /\ PipeHoldsRest' = PipeHoldsRest
  BY DEF RelayedFirst, PipeHoldsRest, Unread
<1> QED
  BY <1>1 DEF Books

-----------------------------------------------------------------------------
(* The child. *)

(* What a child writes is behind what it wrote before, or lost with it.    *)
LEMMA ChildWritesKeepInv ==
  ASSUME ChildInv,
         \/ \E n \in 0..(ProgressLimit - 1) : ChildEmits(n)
         \/ \E a \in Answers : ChildAnswers(a)
  PROVE  ChildInv'
<1>0. /\ child = "running" /\ answer = "none" /\ parent # "start"
      /\ UNCHANGED <<parent, relayed, childOutcome, stopper, listed>>
  BY DEF ChildEmits, ChildAnswers, ChildInv, Custody, Books, Alive
<1>1. CASE parent \in Leaving
  <2>1. child' = "dead" /\ UNCHANGED <<emitted, pipe, answer>>
    BY <1>1 DEF ChildEmits, ChildAnswers, Write
  <2>2. ChildTypes' /\ Custody'
    BY <1>0, <2>1 DEF ChildInv, ChildTypes, Stages, Custody, Alive
  <2>3. Books'
    BY <1>0, <2>1, BooksStay DEF ChildInv
  <2> QED
    BY <2>2, <2>3 DEF ChildInv
<1>2. CASE parent \notin Leaving
  <2>0. parent \in Looping /\ PipeHoldsRest /\ RelayedFirst /\ childOutcome = "none"
    BY <1>0, <1>2 DEF ChildInv, ChildTypes, Places, Books
  <2>1. ASSUME NEW n \in 0..(ProgressLimit - 1), ChildEmits(n)
        PROVE  ChildInv'
    <3>1. /\ child' = "running" /\ answer' = "none" /\ emitted' = Append(emitted, n)
          /\ pipe' = Append(pipe, <<"progress", n>>)
      BY <2>1, <1>0, <1>2 DEF ChildEmits, Write
    <3>2. n \in Numbers /\ <<"progress", n>> \in Messages
      BY ProgressAssumption DEF Numbers, Messages
    <3>3. ChildTypes'
      BY <3>1, <3>2, <1>0 DEF ChildInv, ChildTypes, Stages
    <3>4. Custody'
      BY <3>1, <1>0 DEF ChildInv, Custody, Alive
    <3>5. RelayedFirst' /\ PipeHoldsRest'
      BY <3>1, <3>2, <1>0, <2>0
      DEF ChildInv, ChildTypes, RelayedFirst, PipeHoldsRest, Unread
    <3>6. Books'
      BY <3>1, <3>5, <1>0, <2>0 DEF Books, Looping
    <3> QED
      BY <3>3, <3>4, <3>6 DEF ChildInv
  <2>2. ASSUME NEW a \in Answers, ChildAnswers(a)
        PROVE  ChildInv'
    <3>1. /\ child' = "answered" /\ answer' = a /\ emitted' = emitted
          /\ pipe' = Append(pipe, <<"answer", a>>) /\ a # "none"
      BY <2>2, <1>0, <1>2 DEF ChildAnswers, Write, Answers
    <3>2. <<"answer", a>> \in Messages
      BY DEF Messages
    <3>3. ChildTypes'
      BY <3>1, <3>2, <1>0 DEF ChildInv, ChildTypes, Stages
    <3>4. Custody'
      BY <3>1, <1>0 DEF ChildInv, Custody, Alive
    <3>5. RelayedFirst' /\ PipeHoldsRest'
      BY <3>1, <3>2, <1>0, <2>0
      DEF ChildInv, ChildTypes, RelayedFirst, PipeHoldsRest, Unread
    <3>6. Books'
      BY <3>1, <3>5, <1>0, <2>0 DEF Books, Looping
    <3> QED
      BY <3>3, <3>4, <3>6 DEF ChildInv
  <2> QED
    BY <2>1, <2>2
<1> QED
  BY <1>1, <1>2

-----------------------------------------------------------------------------
(* The parent. *)

(* A progress message that is read is the next one the child wrote, and an *)
(* answer is only at the head when all progress was read.                  *)
LEMMA HeadOfPipe ==
  ASSUME ChildInv, parent \in Looping, pipe # <<>>
  PROVE  \/ /\ Unread > 0 /\ Head(pipe) = <<"progress", emitted[Len(relayed) + 1]>>
         \/ /\ Unread = 0 /\ answer # "none" /\ Head(pipe) = <<"answer", answer>>
  BY DEF ChildInv, ChildTypes, Books, PipeHoldsRest, RelayedFirst, Unread

LEMMA ReadsKeepInv ==
  ASSUME ChildInv, ReadProgress \/ ReadAnswer \/ ReadEnd
  PROVE  ChildInv'
<1>0. parent = "loop" /\ parent \in Looping
  BY DEF ReadProgress, ReadAnswer, ReadEnd, Looping
<1>1. CASE ReadEnd
  <2>1. answer = "none"
    BY <1>0, <1>1 DEF ReadEnd, ChildInv, ChildTypes, Books, PipeHoldsRest, RelayedFirst, Unread
  <2> QED
    BY <1>1, <1>0, <2>1, LeaveKeepsInv DEF ReadEnd
<1>2. CASE ReadAnswer
  <2>1. Unread = 0 /\ answer # "none" /\ Head(pipe)[2] = answer
    BY <1>2, <1>0, HeadOfPipe DEF ReadAnswer
  <2>2. Len(relayed) = Len(emitted) /\ answer # "worker_process_failed"
    BY <2>1 DEF Unread, ChildInv, ChildTypes, Answers
  <2> QED
    BY <1>2, <1>0, <2>1, <2>2, LeaveKeepsInv DEF ReadAnswer
<1>3. CASE ReadProgress
  <2>0. /\ Unread > 0 /\ Head(pipe) = <<"progress", emitted[Len(relayed) + 1]>>
        /\ UNCHANGED <<child, emitted, answer, listed>>
    BY <1>3, <1>0, HeadOfPipe DEF ReadProgress
  <2>1. CASE ~InOrder(Head(pipe)[2])
    BY <2>1, <2>0, <1>0, <1>3, LeaveKeepsInv DEF ReadProgress
  <2>2. CASE InOrder(Head(pipe)[2])
    <3>1. /\ relayed' = Append(relayed, emitted[Len(relayed) + 1])
          /\ pipe' = Tail(pipe) /\ parent' = "relay" /\ UNCHANGED <<childOutcome, stopper>>
      BY <2>2, <2>0, <1>3 DEF ReadProgress
    <3>2. emitted[Len(relayed) + 1] \in Numbers /\ pipe # <<>>
      BY <2>0, <1>3 DEF ReadProgress, ChildInv, ChildTypes, Books, RelayedFirst, Unread
    <3>3. ChildTypes'
      BY <3>1, <3>2, <2>0 DEF ChildInv, ChildTypes, Places, Looping
    <3>4. Custody'
      BY <3>1, <2>0, <1>0 DEF ChildInv, Custody, Alive, Looping
    <3>5. RelayedFirst'
      BY <3>1, <3>2, <2>0 DEF ChildInv, ChildTypes, Books, RelayedFirst, Unread
    <3>6. PipeHoldsRest'
      <4>0. /\ pipe \in Seq(Messages) /\ emitted \in Seq(Numbers) /\ relayed \in Seq(Numbers)
            /\ PipeHoldsRest
        BY <1>0 DEF ChildInv, ChildTypes, Books
      <4>1. Len(relayed') = Len(relayed) + 1 /\ Unread' = Unread - 1 /\ Unread \in Int
        BY <4>0, <3>1, <3>2, <2>0 DEF Unread
      <4>2. /\ Len(pipe') = Len(pipe) - 1
            /\ \A i \in 1..Len(pipe') : pipe'[i] = pipe[i + 1]
        BY <4>0, <3>1, <3>2
      <4>3. Len(pipe') = Unread' + (IF answer' = "none" THEN 0 ELSE 1)
        BY <4>0, <4>1, <4>2, <2>0 DEF PipeHoldsRest
      <4>4. \A i \in 1..Unread' : pipe'[i] = <<"progress", emitted'[Len(relayed') + i]>>
        <5> TAKE i \in 1..Unread'
        <5>1. i \in 1..Len(pipe') /\ i + 1 \in 1..Unread
          BY <4>1, <4>3, <4>0, <2>0
        <5>2. pipe[i + 1] = <<"progress", emitted[Len(relayed) + (i + 1)]>>
          BY <5>1, <4>0 DEF PipeHoldsRest
        <5>3. Len(relayed) + (i + 1) = Len(relayed') + i
          BY <5>1, <4>0, <4>1
        <5> QED
          BY <5>1, <5>2, <5>3, <4>2, <2>0
      <4>5. answer' # "none" => pipe'[Unread' + 1] = <<"answer", answer'>>
        BY <4>0, <4>1, <4>2, <4>3, <2>0 DEF PipeHoldsRest
      <4> QED
        BY <4>3, <4>4, <4>5 DEF PipeHoldsRest
    <3>7. childOutcome = "none"
      BY <1>0 DEF ChildInv, Books, Leaving
    <3>8. Books'
      BY <3>1, <3>5, <3>6, <3>7, <2>0 DEF ChildInv, Books, Looping, Leaving
    <3> QED
      BY <3>3, <3>4, <3>8 DEF ChildInv
  <2> QED
    BY <2>1, <2>2
<1> QED
  BY <1>1, <1>2, <1>3

(* The loop gives up, a callback raises, or the coroutine is cancelled:    *)
(* the execution ends without success.                                     *)
LEMMA ExitsKeepInv ==
  ASSUME ChildInv,
         \/ LoopFails \/ CancelLoop
         \/ \E o \in {"run_cancelled", "worker_shutdown", "persistence_unavailable"} :
              CallbackRaises(o)
  PROVE  ChildInv'
<1>1. CASE LoopFails
  <2>1. parent \in Looping /\ Leave("execution_timeout")
    BY <1>1 DEF LoopFails, Fault, Exhausted, Readable, Looping
  <2> QED
    BY <1>1, <2>1, LeaveKeepsInv DEF LoopFails
<1>2. CASE CancelLoop
  BY <1>2, LeaveKeepsInv DEF CancelLoop, Looping
<1>3. ASSUME NEW o \in {"run_cancelled", "worker_shutdown", "persistence_unavailable"},
             CallbackRaises(o)
      PROVE  ChildInv'
  BY <1>3, LeaveKeepsInv DEF CallbackRaises, Looping
<1> QED
  BY <1>1, <1>2, <1>3

(* Spawning, ticking, the deadline, the stopping thread and cancellations  *)
(* of the cleanup write no message.  Custody passes from the parent to the *)
(* thread, which ends with a dead child.                                   *)
LEMMA SilentStepsKeepInv ==
  ASSUME ChildInv,
         \/ ChildEnds \/ Spawn \/ SpawnFails \/ TickDue \/ TickPasses \/ Relayed
         \/ DeadlinePasses \/ CancelCleanup \/ CancelUnwinding \/ Terminate \/ Kill
         \/ CleanupEnds
  PROVE  ChildInv'
<1> USE DEF ChildEnds, Spawn, SpawnFails, TickDue, TickPasses, Relayed, DeadlinePasses,
            CancelCleanup, CancelUnwinding, Terminate, Kill, CleanupEnds, Looping, Leaving
<1>1. ChildTypes'
  BY DEF ChildInv, ChildTypes, Places, Stages
<1>2. Custody'
  BY DEF ChildInv, ChildTypes, Custody, Alive
<1>3. CASE Spawn
  <2>1. PipeHoldsRest' /\ RelayedFirst'
    BY <1>3 DEF ChildInv, Books, PipeHoldsRest, RelayedFirst, Unread
  <2> QED
    BY <1>1, <1>2, <1>3, <2>1 DEF ChildInv, Books
<1>4. CASE ~Spawn
  <2>1. Books'
    BY <1>4, BooksStay DEF ChildInv, Alive
  <2> QED
    BY <1>1, <1>2, <2>1 DEF ChildInv
<1> QED
  BY <1>3, <1>4

(* Every step keeps the invariant. *)
LEMMA ChildKept == ChildInv /\ [ChildNext]_childVars => ChildInv'
<1> SUFFICES ASSUME ChildInv, [ChildNext]_childVars PROVE ChildInv'
  OBVIOUS
<1>1. CASE UNCHANGED childVars
  <2>1. Books'
    BY <1>1, BooksStay DEF ChildInv, childVars
  <2> QED
    BY <1>1, <2>1 DEF ChildInv, ChildTypes, Custody, Alive, childVars
<1>2. CASE NextExecution
  <2>1. ChildInit'
    BY <1>2 DEF NextExecution, ChildInit
  <2> QED
    BY <2>1, ChildStart, PTL
<1> QED
  BY <1>1, <1>2, ChildWritesKeepInv, ReadsKeepInv, ExitsKeepInv, SilentStepsKeepInv DEF ChildNext

-----------------------------------------------------------------------------
(* The messages a run shows are the child's, in order and complete on      *)
(* success, and no live child is forgotten, for any number of messages and *)
(* of cancellations (SpawnedProcessRunner.execute, _stop_process).         *)
THEOREM ChildIsHandled == ChildSpec => []ChildHandled
  BY ChildStart, ChildKept, InvHandles, PTL DEF ChildSpec

-----------------------------------------------------------------------------
(* Types *)

(* The clock and the cancellations an execution counts. *)
Counted == late \in BOOLEAN /\ cancelled \in 0..Cancels

(* Only the clock and cancellations move them. *)
LEMMA CountedStep == Counted /\ [ChildNext]_childVars => Counted'
<1> SUFFICES ASSUME Counted, [ChildNext]_childVars PROVE Counted'
  OBVIOUS
<1>1. CASE UNCHANGED <<late, cancelled>>
  BY <1>1 DEF Counted
<1>2. CASE DeadlinePasses
  BY <1>2 DEF DeadlinePasses, Counted
<1>3. CASE CancelLoop \/ CancelCleanup \/ CancelUnwinding
  BY <1>3, ProgressAssumption DEF CancelLoop, CancelCleanup, CancelUnwinding, Counted
<1>4. CASE NextExecution
  <2>1. late' = FALSE /\ cancelled' = 0
    BY <1>4 DEF NextExecution
  <2>2. 0 \in 0..Cancels
    BY ProgressAssumption
  <2> QED
    BY <2>1, <2>2 DEF Counted
<1>5. CASE \/ \E n \in 0..(ProgressLimit - 1) : ChildEmits(n)
           \/ \E a \in Answers : ChildAnswers(a)
           \/ \E o \in {"run_cancelled", "worker_shutdown", "persistence_unavailable"} :
                CallbackRaises(o)
  BY <1>5, <1>1 DEF ChildEmits, ChildAnswers, CallbackRaises
<1>6. CASE \/ ChildEnds \/ Spawn \/ SpawnFails \/ TickDue \/ TickPasses \/ Relayed
           \/ Terminate \/ Kill \/ CleanupEnds
  BY <1>6, <1>1
  DEF ChildEnds, Spawn, SpawnFails, TickDue, TickPasses, Relayed, Terminate, Kill, CleanupEnds
<1>7. CASE LoopFails \/ ReadEnd \/ ReadProgress \/ ReadAnswer
  BY <1>7, <1>1 DEF LoopFails, ReadEnd, ReadProgress, ReadAnswer
<1> QED
  BY <1>1, <1>2, <1>3, <1>4, <1>5, <1>6, <1>7 DEF ChildNext, childVars

(* With them every part of an execution is within its type. *)
LEMMA ChildTypesHold == ChildInv /\ Counted => ChildTypeOK
<1> SUFFICES ASSUME ChildInv, Counted PROVE ChildTypeOK
  OBVIOUS
<1>1. \A i \in DOMAIN pipe : pipe[i] \in Messages
  BY DEF ChildInv, ChildTypes
<1>2. \A i \in DOMAIN pipe :
        \/ pipe[i][1] = "answer" /\ pipe[i][2] \in Answers
        \/ pipe[i][1] = "progress" /\ pipe[i][2] \in 0..(ProgressLimit - 1)
  BY <1>1 DEF Messages, Numbers
<1> QED
  BY <1>2 DEF ChildInv, ChildTypes, Counted, ChildTypeOK, Stages, Places, Looping, Numbers

(* The books of an execution stay within their types: no message number    *)
(* beyond the limit is written, queued or relayed, whatever the coroutine  *)
(* and the stopping thread do (ProcessExecutionRunner.execute).              *)
THEOREM ChildTypesKept == ChildSpec => []ChildTypeOK
<1>1. ChildInit => Counted
  <2>1. 0 \in 0..Cancels
    BY ProgressAssumption
  <2> QED
    BY <2>1 DEF ChildInit, Counted
<1> QED
  BY <1>1, ChildStart, ChildKept, CountedStep, ChildTypesHold, PTL DEF ChildSpec

-----------------------------------------------------------------------------
(***************************************************************************)
(* A catalogued index is served, and guidance and inspection agree, for    *)
(* any projects, builds, keys and whatever the engine finds.               *)
(***************************************************************************)

Found == {IndexOf(raw, KeyLevel[KeyOf[b]]) : raw \in RawMaps, b \in DatgBuilds}
Indexes == Found \cup {NoIndex}
IndexRows == [content : Indexes, runtime : {RuntimeOf[b] : b \in DatgBuilds} \cup {"none"}]
BuildPhases == {"queued", "staged", "written", "present", "verified", "synced",
                "succeeded", "failed"}

DatgTypes ==
    /\ indexFile \in [CacheKeys -> Indexes] /\ durable \in [CacheKeys -> BOOLEAN]
    /\ published \in [DatgProjects -> [CacheKeys -> IndexRows]]
    /\ build \in [DatgBuilds -> [at : BuildPhases, index : Indexes]]

(* A file on disk that a crash does not take, with this content            *)
Safe(k, index) == k \in CacheKeys /\ durable[k] /\ indexFile[k] = index

(* The inductive invariant: what a build verified or synced is what is     *)
(* there, and whoever was promised an index was promised a safe one.       *)
FilesOK == \A k \in CacheKeys : durable[k] => indexFile[k] # NoIndex
BuildsOK ==
    \A b \in DatgBuilds :
        /\ BuildLive(b) => build[b].index \in Found
        /\ build[b].at = "verified" => indexFile[KeyOf[b]] = build[b].index
        /\ build[b].at = "synced" => Safe(KeyOf[b], build[b].index)
RowsOK ==
    \A p \in DatgProjects, k \in CacheKeys :
        published[p][k] # NoRow => Safe(k, published[p][k].content)
InspectorOK ==
    /\ inspector = [at |-> inspector.at, project |-> inspector.project, key |-> inspector.key,
                    expected |-> inspector.expected]
    /\ inspector.at \in {"none", "authorized", "served"}
    /\ inspector.at = "authorized" => Safe(inspector.key, inspector.expected)
GuidedOK ==
    /\ guided = [at |-> guided.at, project |-> guided.project, key |-> guided.key,
                 targets |-> guided.targets, covered |-> guided.covered,
                 boosted |-> guided.boosted, penalized |-> guided.penalized,
                 expected |-> guided.expected]
    /\ guided.at \in {"none", "running", "succeeded"}
    /\ guided.at = "running" =>
         Safe(guided.key, guided.expected) /\ guided.covered \subseteq AllUnits
    /\ guided.at = "succeeded" => GuidanceMatchesInspection

DatgInv == DatgTypes /\ FilesOK /\ BuildsOK /\ RowsOK /\ InspectorOK /\ GuidedOK

-----------------------------------------------------------------------------
(* What the engine finds is never taken for a missing file, every token of *)
(* it has a unit, and its units are among those the engine may find        *)
(* (_artifact_from_maps drops tokens without one).                         *)
LEMMA FoundIsIndex ==
    ASSUME NEW index \in Found
    PROVE  /\ index # NoIndex
           /\ \A t \in DOMAIN index : index[t] # {} /\ index[t] \subseteq AllUnits
<1>1. PICK raw \in RawMaps, b \in DatgBuilds : index = IndexOf(raw, KeyLevel[KeyOf[b]])
  BY DEF Found
<1> DEFINE level == KeyLevel[KeyOf[b]]
<1>2. /\ DOMAIN index = {t \in DOMAIN raw : UnitsAt(raw[t], level) # {}}
      /\ \A t \in DOMAIN index : index[t] = UnitsAt(raw[t], level)
  BY <1>1 DEF IndexOf
<1>3. \A t \in DOMAIN index : index[t] # {} /\ index[t] \subseteq AllUnits
  <2> TAKE t \in DOMAIN index
  <2>1. index[t] = UnitsAt(raw[t], level) /\ index[t] # {} /\ t \in DOMAIN raw
    BY <1>2
  <2>2. index[t] \subseteq raw[t]
    BY <2>1 DEF UnitsAt
  <2>3. raw[t] \subseteq AllUnits
    BY <2>1 DEF AllUnits
  <2> QED
    BY <2>1, <2>2, <2>3
<1>4. index # NoIndex
  <2> SUFFICES ASSUME index = NoIndex PROVE FALSE
    OBVIOUS
  <2>1. "none" \in DOMAIN index /\ index["none"] = {}
    BY DEF NoIndex
  <2> QED
    BY <2>1, <1>3
<1> QED
  BY <1>3, <1>4

(* The three ways to find the tokens that add nothing agree: the worker's  *)
(* (get_anti_attribute_tokens), the inspection by coverage and the one by  *)
(* frequency.                                                              *)
LEMMA WaysAgree ==
    ASSUME NEW index \in Found, NEW covered \in SUBSET AllUnits
    PROVE  /\ AntiAttributeTokens(index, covered) = InspectCovered(index, covered)
           /\ InspectCovered(index, covered) = InspectFrequency(index, CountsOf(covered), 0)
<1>1. AntiAttributeTokens(index, covered) = InspectCovered(index, covered)
  BY FoundIsIndex DEF AntiAttributeTokens, InspectCovered
<1>2. \A u \in AllUnits : CountsOf(covered)[u] > 0 <=> u \in covered
  BY DEF CountsOf
<1>3. \A t \in DOMAIN index :
        index[t] \subseteq covered <=> \A u \in index[t] : CountsOf(covered)[u] > 0
  BY <1>2, FoundIsIndex
<1> QED
  BY <1>1, <1>3 DEF InspectCovered, InspectFrequency

(* Initially nothing is built, catalogued or asked for. *)
LEMMA DatgStart == DatgInit => DatgInv
  BY DEF DatgInit, DatgInv, DatgTypes, FilesOK, BuildsOK, RowsOK, InspectorOK, GuidedOK,
         BuildLive, NoBuild, NoGuided, NoInspector, NoRow, Indexes, IndexRows, BuildPhases

(* Steps of one build that leave the files alone and only what is synced   *)
(* to others keep the invariant.                                           *)
LEMMA BuildKeepsInv ==
    ASSUME DatgInv, NEW b \in DatgBuilds, NEW c \in [at : BuildPhases, index : Indexes],
           build' = [build EXCEPT ![b] = c],
           UNCHANGED <<indexFile, durable, published, guided, inspector>>,
           c.at \notin {"queued", "succeeded", "failed"} => c.index \in Found,
           c.at = "verified" => indexFile[KeyOf[b]] = c.index,
           c.at # "synced"
    PROVE  DatgInv'
<1>1. DatgTypes'
  BY DEF DatgInv, DatgTypes
<1>2. \A k, index : Safe(k, index)' = Safe(k, index)
  BY DEF Safe
<1>3. BuildsOK'
  BY <1>2 DEF DatgInv, DatgTypes, BuildsOK, BuildLive
<1> QED
  BY <1>1, <1>2, <1>3
  DEF DatgInv, FilesOK, RowsOK, InspectorOK, GuidedOK, GuidanceMatchesInspection

(* A step that keeps every durable file, with the builds in order and rows *)
(* and users as they were, keeps the invariant.                            *)
LEMMA FilesKeepInv ==
    ASSUME DatgInv, DatgTypes', FilesOK', BuildsOK',
           \A k \in CacheKeys : durable[k] => durable'[k] /\ indexFile'[k] = indexFile[k],
           UNCHANGED <<published, guided, inspector>>
    PROVE  DatgInv'
<1>1. \A k, index : Safe(k, index) => Safe(k, index)'
  BY DEF Safe
<1> QED
  BY <1>1 DEF DatgInv, RowsOK, InspectorOK, GuidedOK, GuidanceMatchesInspection

-----------------------------------------------------------------------------
(* Builds. *)

(* The steps of one build that touch no file: building, failing, looking   *)
(* for the file and verifying it.                                          *)
LEMMA QuietBuildsKeepInv ==
    ASSUME DatgInv, NEW b \in DatgBuilds,
           \/ \E raw \in RawMaps : BuildIndex(b, raw)
           \/ BuildFails(b) \/ StartPublish(b) \/ VerifyExisting(b)
    PROVE  DatgInv'
<1>0. build[b] \in [at : BuildPhases, index : Indexes] /\ NoBuild \in [at : BuildPhases, index : Indexes]
  BY DEF DatgInv, DatgTypes, NoBuild, BuildPhases, Indexes
<1>1. ASSUME NEW raw \in RawMaps, BuildIndex(b, raw) PROVE DatgInv'
  <2> DEFINE index == IndexOf(raw, KeyLevel[KeyOf[b]])
             c == [at |-> "staged", index |-> index]
  <2>1. index \in Found
    BY DEF Found
  <2>2. c \in [at : BuildPhases, index : Indexes] /\ c.index \in Found /\ c.at = "staged"
    <3> HIDE DEF index
    <3> QED
      BY <2>1 DEF BuildPhases, Indexes
  <2>3. build' = [build EXCEPT ![b] = c] /\ UNCHANGED <<indexFile, durable, published, guided, inspector>>
    BY <1>1 DEF BuildIndex
  <2> HIDE DEF c
  <2> QED
    BY <2>2, <2>3, BuildKeepsInv
<1>2. CASE BuildFails(b)
  <2>1. PICK at \in {"failed", "queued"} : build' = [build EXCEPT ![b] = [NoBuild EXCEPT !.at = at]]
    BY <1>2 DEF BuildFails
  <2> DEFINE c == [NoBuild EXCEPT !.at = at]
  <2>2. c \in [at : BuildPhases, index : Indexes] /\ c.at \in {"failed", "queued"}
    BY <1>0 DEF BuildPhases
  <2>3. UNCHANGED <<indexFile, durable, published, guided, inspector>>
    BY <1>2 DEF BuildFails
  <2> HIDE DEF c
  <2> QED
    BY <2>1, <2>2, <2>3, BuildKeepsInv DEF c
<1>3. CASE StartPublish(b)
  <2>1. build[b].index \in Found
    BY <1>3 DEF StartPublish, DatgInv, BuildsOK, BuildLive
  <2>2. PICK at \in {"written", "present"} : build' = [build EXCEPT ![b].at = at]
    BY <1>3 DEF StartPublish, BuildTo
  <2> DEFINE c == [build[b] EXCEPT !.at = at]
  <2>3. c \in [at : BuildPhases, index : Indexes] /\ c.at = at /\ c.index = build[b].index
    BY <1>0 DEF BuildPhases
  <2>4. build' = [build EXCEPT ![b] = c] /\ UNCHANGED <<indexFile, durable, published, guided, inspector>>
    BY <1>3, <2>2 DEF StartPublish
  <2> HIDE DEF c
  <2> QED
    BY <2>1, <2>3, <2>4, BuildKeepsInv
<1>4. CASE VerifyExisting(b)
  <2>1. build[b].index \in Found
    BY <1>4 DEF VerifyExisting, DatgInv, BuildsOK, BuildLive
  <2>2. PICK at \in {"verified", "failed"} :
          /\ build' = [build EXCEPT ![b].at = at]
          /\ at = "verified" => indexFile[KeyOf[b]] = build[b].index
    BY <1>4 DEF VerifyExisting, BuildTo
  <2> DEFINE c == [build[b] EXCEPT !.at = at]
  <2>3. c \in [at : BuildPhases, index : Indexes] /\ c.at = at /\ c.index = build[b].index
    BY <1>0 DEF BuildPhases
  <2>4. build' = [build EXCEPT ![b] = c] /\ UNCHANGED <<indexFile, durable, published, guided, inspector>>
    BY <1>4, <2>2 DEF VerifyExisting
  <2> HIDE DEF c
  <2> QED
    BY <2>1, <2>2, <2>3, <2>4, BuildKeepsInv
<1> QED
  BY <1>1, <1>2, <1>3, <1>4

(* The first link of a key decides what its file holds. *)
LEMMA LinkKeepsInv ==
    ASSUME DatgInv, NEW b \in DatgBuilds, LinkFile(b)
    PROVE  DatgInv'
<1> DEFINE k == KeyOf[b]
<1>0. build[b].index \in Found /\ k \in CacheKeys /\ build[b].index # NoIndex
  BY FoundIsIndex DEF LinkFile, DatgInv, BuildsOK, BuildLive, CacheKeys
<1>1. /\ indexFile' = [indexFile EXCEPT ![k] = Linked(b)]
      /\ build' = [build EXCEPT ![b] = [build[b] EXCEPT !.at = "present"]]
      /\ UNCHANGED <<durable, published, projectOpen, guided, inspector>>
  BY DEF LinkFile, BuildTo
<1>2. Linked(b) \in Indexes /\ (indexFile[k] # NoIndex => Linked(b) = indexFile[k])
  BY <1>0 DEF Linked, DatgInv, DatgTypes, Indexes
<1>3. \A j \in CacheKeys : indexFile[j] # NoIndex => indexFile'[j] = indexFile[j]
  BY <1>1, <1>2 DEF DatgInv, DatgTypes
<1>4. DatgTypes'
  BY <1>1, <1>2 DEF DatgInv, DatgTypes, BuildPhases
<1>5. FilesOK'
  BY <1>1, <1>3 DEF DatgInv, FilesOK
<1>6. BuildsOK'
  <2> SUFFICES ASSUME NEW c \in DatgBuilds
               PROVE  /\ BuildLive(c)' => build'[c].index \in Found
                      /\ build'[c].at = "verified" => indexFile'[KeyOf[c]] = build'[c].index
                      /\ build'[c].at = "synced" => Safe(KeyOf[c], build[c].index)'
    BY DEF BuildsOK
  <2>1. CASE c = b
    BY <2>1, <1>0, <1>1 DEF DatgInv, DatgTypes, BuildLive
  <2>2. CASE c # b
    <3>1. build'[c] = build[c] /\ KeyOf[c] \in CacheKeys
      BY <2>2, <1>1 DEF DatgInv, DatgTypes, CacheKeys
    <3>2. build[c].at \in {"verified", "synced"} => indexFile[KeyOf[c]] # NoIndex
      BY FoundIsIndex DEF DatgInv, BuildsOK, BuildLive, Safe
    <3> QED
      BY <3>1, <3>2, <1>1, <1>3 DEF DatgInv, BuildsOK, BuildLive, Safe
  <2> QED
    BY <2>1, <2>2
<1> QED
  BY <1>1, <1>3, <1>4, <1>5, <1>6, FilesKeepInv DEF DatgInv, FilesOK

(* Whoever syncs the directory syncs the files of the others, too. *)
LEMMA SyncKeepsInv ==
    ASSUME DatgInv, NEW b \in DatgBuilds, SyncDirectory(b)
    PROVE  DatgInv'
<1>0. /\ build[b].at = "verified" /\ build[b].index \in Found /\ KeyOf[b] \in CacheKeys
      /\ build[b].index # NoIndex /\ indexFile[KeyOf[b]] = build[b].index
  BY FoundIsIndex DEF SyncDirectory, DatgInv, BuildsOK, BuildLive, CacheKeys
<1>1. /\ durable' = [k \in CacheKeys |-> indexFile[k] # NoIndex]
      /\ build' = [build EXCEPT ![b] = [build[b] EXCEPT !.at = "synced"]]
      /\ UNCHANGED <<indexFile, published, projectOpen, guided, inspector>>
  BY DEF SyncDirectory, BuildTo
<1>2. DatgTypes' /\ FilesOK'
  BY <1>1 DEF DatgInv, DatgTypes, BuildPhases, FilesOK
<1>3. \A k \in CacheKeys : durable[k] => durable'[k] /\ indexFile'[k] = indexFile[k]
  BY <1>1 DEF DatgInv, FilesOK
<1>4. BuildsOK'
  BY <1>0, <1>1, <1>3 DEF DatgInv, DatgTypes, BuildsOK, BuildLive, Safe
<1> QED
  BY <1>1, <1>2, <1>3, <1>4, FilesKeepInv

(* A row is only written for a file that was verified and synced before.   *)
LEMMA CommitKeepsInv ==
    ASSUME DatgInv, NEW b \in DatgBuilds, CommitBuild(b)
    PROVE  DatgInv'
<1> DEFINE p == HomeOf[b]
           k == KeyOf[b]
<1>0. /\ p \in DatgProjects /\ k \in CacheKeys /\ Safe(k, build[b].index)
      /\ build[b] \in [at : BuildPhases, index : Indexes]
      /\ NoBuild \in [at : BuildPhases, index : Indexes]
  BY DatgAssumption
  DEF CommitBuild, DatgInv, BuildsOK, DatgTypes, CacheKeys, NoBuild, BuildPhases, Indexes
<1>1. CASE published[p][k] = NoRow
  <2>1. /\ published' = [published EXCEPT ![p][k] = RowOf(b)]
        /\ build' = [build EXCEPT ![b] = [build[b] EXCEPT !.at = "succeeded"]]
        /\ UNCHANGED <<indexFile, durable, guided, inspector>>
    BY <1>1 DEF CommitBuild, BuildTo
  <2>2. RowOf(b) \in IndexRows /\ RowOf(b).content = build[b].index
    BY <1>0 DEF RowOf, IndexRows
  <2>3. DatgTypes'
    BY <1>0, <2>1, <2>2 DEF DatgInv, DatgTypes, BuildPhases
  <2>4. \A j, index : Safe(j, index)' = Safe(j, index)
    BY <2>1 DEF Safe
  <2>5. RowsOK'
    BY <1>0, <2>1, <2>2, <2>4 DEF DatgInv, DatgTypes, RowsOK
  <2>6. BuildsOK'
    BY <2>1, <2>4 DEF DatgInv, DatgTypes, BuildsOK, BuildLive
  <2> QED
    BY <2>1, <2>3, <2>4, <2>5, <2>6
    DEF DatgInv, FilesOK, InspectorOK, GuidedOK, GuidanceMatchesInspection
<1>2. CASE published[p][k] # NoRow
  <2>1. PICK at \in {"succeeded", "failed", "queued"} :
          build' = [build EXCEPT ![b] =
                      IF at = "queued" THEN NoBuild ELSE [build[b] EXCEPT !.at = at]]
    BY <1>2 DEF CommitBuild
  <2>2. UNCHANGED <<indexFile, durable, published, guided, inspector>>
    BY <1>2 DEF CommitBuild
  <2> DEFINE c == IF at = "queued" THEN NoBuild ELSE [build[b] EXCEPT !.at = at]
  <2>3. c \in [at : BuildPhases, index : Indexes] /\ c.at = at
    BY <1>0 DEF BuildPhases, NoBuild
  <2>4. build' = [build EXCEPT ![b] = c]
    BY <2>1
  <2> HIDE DEF c
  <2> QED
    BY <2>2, <2>3, <2>4, BuildKeepsInv
<1> QED
  BY <1>1, <1>2

(* A crash takes files that no row, build or user was promised. *)
LEMMA CrashKeepsInv ==
    ASSUME DatgInv, HostCrash
    PROVE  DatgInv'
<1>1. PICK gone \in SUBSET {k \in CacheKeys : ~durable[k]} :
        indexFile' = [k \in CacheKeys |-> IF k \in gone THEN NoIndex ELSE indexFile[k]]
  BY DEF HostCrash
<1>2. /\ build' = [b \in DatgBuilds |-> IF BuildLive(b) THEN NoBuild ELSE build[b]]
      /\ UNCHANGED <<durable, published, guided, inspector>>
  BY DEF HostCrash
<1>3. \A k \in CacheKeys : durable[k] => durable'[k] /\ indexFile'[k] = indexFile[k]
  BY <1>1, <1>2
<1>4. DatgTypes' /\ FilesOK'
  BY <1>1, <1>2 DEF DatgInv, DatgTypes, FilesOK, NoBuild, BuildPhases, Indexes
<1>5. BuildsOK'
  BY <1>2 DEF BuildsOK, BuildLive, NoBuild
<1> QED
  BY <1>2, <1>3, <1>4, <1>5, FilesKeepInv

-----------------------------------------------------------------------------
(* Users. *)

(* Users are promised what a row says, and find it, though rows go.        *)
LEMMA UsersKeepInv ==
    ASSUME DatgInv,
           \/ Generate \/ GenerateFails \/ ReadIndex
           \/ \E p \in DatgProjects, k \in CacheKeys :
                \/ Inspect(p, k)
                \/ \E targets, covered \in SUBSET UnitsAt(AllUnits, KeyLevel[k]) :
                      SubmitGuided(p, k, targets, covered)
    PROVE  DatgInv'
<1>0. UNCHANGED <<indexFile, durable, published, build>>
  BY DEF Generate, GenerateFails, ReadIndex, Inspect, SubmitGuided
<1>1. /\ \A k, index : Safe(k, index)' = Safe(k, index)
      /\ DatgTypes' /\ FilesOK' /\ BuildsOK' /\ RowsOK'
  BY <1>0 DEF DatgInv, DatgTypes, FilesOK, BuildsOK, BuildLive, RowsOK, Safe
<1>2. InspectorOK'
  <2>1. CASE ReadIndex
    <3>1. indexFile[inspector.key] = inspector.expected /\ indexFile[inspector.key] # NoIndex
      BY <2>1 DEF ReadIndex, DatgInv, InspectorOK, FilesOK, Safe
    <3>2. inspector' = [inspector EXCEPT !.at = "served"]
      BY <2>1, <3>1 DEF ReadIndex
    <3> QED
      BY <3>2 DEF InspectorOK, DatgInv
  <2>2. CASE UNCHANGED inspector
    BY <2>2, <1>1 DEF DatgInv, InspectorOK
  <2>3. ASSUME NEW p \in DatgProjects, NEW k \in CacheKeys, Inspect(p, k)
        PROVE  InspectorOK'
    BY <2>3, <1>1 DEF Inspect, InspectorOK, DatgInv, RowsOK
  <2> QED
    BY <2>1, <2>2, <2>3 DEF Generate, GenerateFails, SubmitGuided
<1>3. GuidedOK'
  <2>1. CASE Generate
    <3>1. /\ guided.key \in CacheKeys /\ indexFile[guided.key] = guided.expected
          /\ guided.expected \in Found /\ guided.covered \in SUBSET AllUnits
      BY <2>1 DEF Generate, DatgInv, GuidedOK, FilesOK, DatgTypes, Safe, Indexes
    <3>2. guided' = [guided EXCEPT !.at = "succeeded",
                        !.boosted = AttributeTokens(guided.expected, guided.targets),
                        !.penalized = AntiAttributeTokens(guided.expected, guided.covered)]
      BY <2>1, <3>1, FoundIsIndex DEF Generate
    <3>3. /\ guided'.at = "succeeded" /\ guided'.expected = guided.expected
          /\ guided'.targets = guided.targets /\ guided'.covered = guided.covered
          /\ guided'.boosted = AttributeTokens(guided.expected, guided.targets)
          /\ guided'.penalized = AntiAttributeTokens(guided.expected, guided.covered)
      BY <3>2 DEF DatgInv, GuidedOK
    <3>4. AttributeTokens(guided.expected, guided.targets)
            = InspectTarget(guided.expected, guided.targets)
      BY DEF AttributeTokens, InspectTarget
    <3>5. guided' = [at |-> guided'.at, project |-> guided'.project, key |-> guided'.key,
                 targets |-> guided'.targets, covered |-> guided'.covered,
                 boosted |-> guided'.boosted, penalized |-> guided'.penalized,
                 expected |-> guided'.expected]
      BY <3>2 DEF DatgInv, GuidedOK
    <3> QED
      BY <3>1, <3>3, <3>4, <3>5, WaysAgree DEF GuidedOK, GuidanceMatchesInspection
  <2>2. CASE UNCHANGED guided
    BY <2>2, <1>1 DEF DatgInv, GuidedOK, GuidanceMatchesInspection
  <2>3. CASE GenerateFails
    BY <2>3 DEF GenerateFails, GuidedOK, NoGuided
  <2>4. ASSUME NEW p \in DatgProjects, NEW k \in CacheKeys,
               NEW targets \in SUBSET UnitsAt(AllUnits, KeyLevel[k]),
               NEW covered \in SUBSET UnitsAt(AllUnits, KeyLevel[k]),
               SubmitGuided(p, k, targets, covered)
        PROVE  GuidedOK'
    <3>1. covered \subseteq AllUnits
      BY DEF UnitsAt
    <3> QED
      BY <2>4, <3>1, <1>1 DEF SubmitGuided, GuidedOK, NoGuided, DatgInv, RowsOK
  <2> QED
    BY <2>1, <2>2, <2>3, <2>4 DEF ReadIndex, Inspect
<1> QED
  BY <1>1, <1>2, <1>3 DEF DatgInv

LEMMA PurgeKeepsInv ==
    ASSUME DatgInv, NEW p \in DatgProjects, PurgePublications(p)
    PROVE  DatgInv'
<1>1. /\ published' = [published EXCEPT ![p] = [k \in CacheKeys |-> NoRow]]
      /\ UNCHANGED <<indexFile, durable, build, guided, inspector>>
  BY DEF PurgePublications
<1>2. NoRow \in IndexRows
  BY DEF NoRow, IndexRows, Indexes
<1>3. /\ \A k, index : Safe(k, index)' = Safe(k, index)
      /\ DatgTypes' /\ FilesOK' /\ BuildsOK' /\ RowsOK'
  BY <1>1, <1>2 DEF DatgInv, DatgTypes, FilesOK, BuildsOK, BuildLive, RowsOK, Safe
<1> QED
  BY <1>1, <1>3 DEF DatgInv, InspectorOK, GuidedOK, GuidanceMatchesInspection

(* Every step keeps the invariant. *)
LEMMA DatgKept == DatgInv /\ [DatgNext]_datgVars => DatgInv'
<1> SUFFICES ASSUME DatgInv, [DatgNext]_datgVars PROVE DatgInv'
  OBVIOUS
<1>1. CASE UNCHANGED datgVars
  BY <1>1
  DEF datgVars, DatgInv, DatgTypes, FilesOK, BuildsOK, BuildLive, RowsOK, InspectorOK, GuidedOK,
      GuidanceMatchesInspection, Safe
<1> QED
  BY <1>1, QuietBuildsKeepInv, LinkKeepsInv, SyncKeepsInv, CommitKeepsInv, CrashKeepsInv,
     UsersKeepInv, PurgeKeepsInv
  DEF DatgNext

-----------------------------------------------------------------------------
(* A row that lets a project use an index is matched by a file that        *)
(* survives a crash and holds what the row says, so no authorized          *)
(* inspection is refused, and the worker steers the tokens that inspection *)
(* shows, for any number of racing builds and every index (publish,        *)
(* _commit_datg_publication, DatgCatalogService, _ArtifactWordIndex).      *)
THEOREM IndexesAreServed == DatgSpec => []IndexesServe
<1>1. DatgInv => CataloguedIndexServed
  BY DEF DatgInv, RowsOK, InspectorOK, Safe, CataloguedIndexServed
<1>2. DatgInv => GuidanceMatchesInspection
  BY DEF DatgInv, GuidedOK, GuidanceMatchesInspection
<1> QED
  BY <1>1, <1>2, DatgStart, DatgKept, PTL DEF DatgSpec, IndexesServe

-----------------------------------------------------------------------------
(* Types *)

(* No entry of the cache directory is made durable without a file behind   *)
(* it, and builds, executions and inspections are where the code leaves    *)
(* them (FilesystemDatgIndexPublisher.publish, _sync_directory).           *)
THEOREM DatgTypesKept == DatgSpec => []DatgTypeOK
<1>1. DatgInv => DatgTypeOK
  BY DEF DatgInv, DatgTypes, FilesOK, BuildPhases, GuidedOK, InspectorOK, DatgTypeOK
<1> QED
  BY <1>1, DatgStart, DatgKept, PTL DEF DatgSpec

-----------------------------------------------------------------------------
(***************************************************************************)
(* What an attempt spends on a provider (ModelRuntime), for any number     *)
(* of attempts, rounds and answers.  The induction pays every round of     *)
(* calls, retries included, out of the rounds the estimate counted.        *)
(***************************************************************************)

LoopStages == {"none", "opening", "claiming", "verifying", "weights", "merging",
               "loop", "ready", "calling", "answered", "ended"}
Loops == [at : LoopStages, prompt : Nat, try : Nat, iteration : Nat,
          seen : SUBSET Texts, accepted : SUBSET Texts, lost : BOOLEAN]
Ledgers == [requests : Nat, retries : Nat, reserved : Nat, used : Nat, left : Int]

(* Calls one iteration may make, and tokens one call may reserve *)
PerRound == wanted.retries + 1
PerCall == wanted.prompt + Output

(* Calls of the round that is under way *)
ThisRound(x) == CASE x.at = "ready" -> x.try
                  [] x.at \in {"calling", "answered"} -> x.try + 1
                  [] OTHER -> 0

InRound(x) == x.at \in {"ready", "calling", "answered"}

(* The rounds that were begun pay for the calls that were made. *)
RoundsPay(x, l) ==
    /\ x.at = "ready" => l.requests <= x.iteration * PerRound + x.try
    /\ x.at \in {"calling", "answered"} => l.requests <= x.iteration * PerRound + PerRound
    /\ x.at = "calling" => l.requests <= x.iteration * PerRound + x.try + 1
    /\ x.at \notin {"ready", "calling", "answered", "ended"} => l.requests <= x.iteration * PerRound
    /\ x.at \in {"ready", "calling"} => x.try <= wanted.retries
    /\ wanted.iterations # 0 /\ InRound(x) => x.iteration < wanted.iterations
    /\ wanted.iterations # 0 => x.iteration <= wanted.iterations
    /\ wanted.iterations # 0 => l.requests <= wanted.iterations * PerRound

(* Every call was reserved whole, and only a reserved one is recorded. *)
Reserves(x, l) ==
    /\ l.requests <= wanted.calls /\ l.reserved <= wanted.tokens
    /\ l.reserved <= PerCall * l.requests
    /\ l.used <= l.reserved
    /\ x.at = "calling" => l.used + x.prompt + Output <= l.reserved
    /\ x.at \in {"ready", "calling"} => wanted.kind = "hosted"
    /\ wanted.kind # "hosted" => l.requests = 0
    /\ x.prompt <= wanted.prompt

SpendCounted(x, l, c) ==
    /\ c.count = l.requests
    /\ x.at # "ended" => c.billed <= l.used

SpendInv ==
    /\ wanted \in Requests
    /\ loop \in [Tries -> Loops]
    /\ ledger \in [Tries -> Ledgers]
    /\ calls \in [Tries -> [count : Nat, billed : Nat]]
    /\ \A a \in Tries : RoundsPay(loop[a], ledger[a])
    /\ \A a \in Tries : Reserves(loop[a], ledger[a])
    /\ \A a \in Tries : SpendCounted(loop[a], ledger[a], calls[a])

-----------------------------------------------------------------------------
(* Products of rounds and calls *)
LEMMA Products ==
    /\ \A m, n, k \in Nat : m <= n => m * k <= n * k /\ k * m <= k * n
    /\ \A m, k \in Nat : (m + 1) * k = m * k + k /\ k * (m + 1) = k * m + k /\ m * k \in Nat
OBVIOUS

(* The limits of the run that is asked for *)
LEMMA SpendLimits ==
    ASSUME SpendInv
    PROVE  /\ wanted.kind \in {"hosted", "local", "analysis"}
           /\ wanted.prompt \in Nat \ {0} /\ wanted.calls \in Nat \ {0} /\ wanted.tokens \in Nat \ {0}
           /\ wanted.retries \in Nat /\ wanted.iterations \in Nat
           /\ PerRound \in Nat /\ PerCall \in Nat /\ Output \in Nat
BY RuntimeAssumption DEF SpendInv, PerRound, PerCall

(* What one attempt is *)
LEMMA AttemptIs ==
    ASSUME SpendInv, NEW a \in Tries
    PROVE  /\ loop[a] \in Loops /\ ledger[a] \in Ledgers /\ calls[a] \in [count : Nat, billed : Nat]
           /\ RoundsPay(loop[a], ledger[a]) /\ Reserves(loop[a], ledger[a])
           /\ SpendCounted(loop[a], ledger[a], calls[a])
BY DEF SpendInv

(* One attempt moves, the others stay where they are. *)
LEMMA AttemptMoves ==
    ASSUME SpendInv, NEW a \in Tries, NEW x \in Loops, NEW l \in Ledgers,
           NEW c \in [count : Nat, billed : Nat],
           loop' = [loop EXCEPT ![a] = x], ledger' = [ledger EXCEPT ![a] = l],
           calls' = [calls EXCEPT ![a] = c], wanted' = wanted,
           RoundsPay(x, l), Reserves(x, l), SpendCounted(x, l, c)
    PROVE  SpendInv'
<1>1. /\ loop' \in [Tries -> Loops] /\ ledger' \in [Tries -> Ledgers]
      /\ calls' \in [Tries -> [count : Nat, billed : Nat]] /\ wanted' \in Requests
  BY DEF SpendInv
<1>2. ASSUME NEW b \in Tries
      PROVE  /\ RoundsPay(loop[b], ledger[b])' /\ Reserves(loop[b], ledger[b])'
             /\ SpendCounted(loop[b], ledger[b], calls[b])'
  <2>1. CASE b = a
    <3>1. loop'[b] = x /\ ledger'[b] = l /\ calls'[b] = c
      BY <2>1 DEF SpendInv
    <3> QED
      BY <3>1 DEF RoundsPay, Reserves, SpendCounted, PerRound, PerCall, InRound
  <2>2. CASE b # a
    <3>1. loop'[b] = loop[b] /\ ledger'[b] = ledger[b] /\ calls'[b] = calls[b]
      BY <2>2 DEF SpendInv
    <3>2. RoundsPay(loop[b], ledger[b]) /\ Reserves(loop[b], ledger[b]) /\ SpendCounted(loop[b], ledger[b], calls[b])
      BY AttemptIs
    <3> QED
      BY <3>1, <3>2 DEF RoundsPay, Reserves, SpendCounted, PerRound, PerCall, InRound
  <2> QED
    BY <2>1, <2>2
<1> QED
  BY <1>1, <1>2 DEF SpendInv

(* Only the loop of an attempt moves. *)
LEMMA LoopMoves ==
    ASSUME SpendInv, NEW a \in Tries, NEW x \in Loops, loop' = [loop EXCEPT ![a] = x],
           UNCHANGED <<wanted, ledger, calls>>,
           RoundsPay(x, ledger[a]), Reserves(x, ledger[a]), SpendCounted(x, ledger[a], calls[a])
    PROVE  SpendInv'
<1>1. ledger' = [ledger EXCEPT ![a] = ledger[a]] /\ calls' = [calls EXCEPT ![a] = calls[a]]
  BY DEF SpendInv
<1> QED
  BY <1>1, AttemptIs, AttemptMoves

(* The record an attempt has when only its stage changes *)
LEMMA StageOnly ==
    ASSUME SpendInv, NEW a \in Tries, NEW at \in LoopStages, LoopTo(a, at)
    PROVE  \E x \in Loops : /\ loop' = [loop EXCEPT ![a] = x] /\ x.at = at
                            /\ x.prompt = loop[a].prompt /\ x.try = loop[a].try
                            /\ x.iteration = loop[a].iteration
<1> DEFINE x == [loop[a] EXCEPT !.at = at]
<1>1. x \in Loops
  BY AttemptIs DEF Loops
<1>2. /\ x.at = at /\ x.prompt = loop[a].prompt /\ x.try = loop[a].try
      /\ x.iteration = loop[a].iteration
  BY AttemptIs DEF Loops
<1>3. loop' = [loop EXCEPT ![a] = x]
  BY DEF LoopTo
<1> HIDE DEF x
<1> QED
  BY <1>1, <1>2, <1>3

(* An attempt that ends has spent what it spent. *)
LEMMA EndKeeps ==
    ASSUME SpendInv, NEW a \in Tries, NEW retryable, Fails(a, retryable),
           UNCHANGED <<wanted, ledger, calls>>
    PROVE  SpendInv'
<1>1. LoopTo(a, "ended")
  BY DEF Fails
<1>2. PICK x \in Loops : /\ loop' = [loop EXCEPT ![a] = x] /\ x.at = "ended"
                         /\ x.prompt = loop[a].prompt /\ x.iteration = loop[a].iteration
  BY <1>1, StageOnly DEF LoopStages
<1>3. /\ RoundsPay(x, ledger[a]) /\ Reserves(x, ledger[a]) /\ SpendCounted(x, ledger[a], calls[a])
  BY <1>2, AttemptIs DEF RoundsPay, Reserves, SpendCounted, InRound
<1> QED
  BY <1>2, <1>3, LoopMoves

Outside == {"opening", "claiming", "verifying", "weights", "merging", "loop"}

(* Between the rounds nothing is spent. *)
LEMMA SpendPrepares ==
    ASSUME SpendInv, NEW a \in Tries, loop[a].at \in Outside \cup {"none"},
           NEW at \in Outside, LoopTo(a, at),
           UNCHANGED <<wanted, ledger, calls>>
    PROVE  SpendInv'
<1>1. PICK x \in Loops : /\ loop' = [loop EXCEPT ![a] = x] /\ x.at = at
                         /\ x.prompt = loop[a].prompt /\ x.iteration = loop[a].iteration
  BY StageOnly DEF LoopStages, Outside
<1>2. /\ RoundsPay(x, ledger[a]) /\ Reserves(x, ledger[a]) /\ SpendCounted(x, ledger[a], calls[a])
  BY <1>1, AttemptIs DEF RoundsPay, Reserves, SpendCounted, InRound, Outside
<1> QED
  BY <1>1, <1>2, LoopMoves

(* A step of the preparation succeeds or fails. *)
LEMMA ProceedsKeeps ==
    ASSUME SpendInv, NEW a \in Tries, loop[a].at \in Outside,
           NEW at \in Outside, Proceeds(a, at),
           UNCHANGED <<wanted, ledger, calls>>
    PROVE  SpendInv'
<1>1. CASE LoopTo(a, at)
  BY <1>1, SpendPrepares
<1>2. CASE \E retryable \in BOOLEAN : Fails(a, retryable)
  BY <1>2, EndKeeps
<1> QED
  BY <1>1, <1>2 DEF Proceeds

(* An attempt starts with nothing spent. *)
LEMMA StartAttemptKeeps ==
    ASSUME SpendInv, NEW a \in Tries, StartAttempt(a)
    PROVE  SpendInv'
<1>1. loop[a].at = "none" /\ UNCHANGED <<wanted, ledger, calls>>
  BY DEF StartAttempt
<1>2. CASE Fails(a, FALSE)
  BY <1>1, <1>2, EndKeeps
<1>3. CASE \E at \in {"opening", "claiming", "verifying"} : LoopTo(a, at)
  BY <1>1, <1>3, SpendPrepares DEF Outside
<1> QED
  BY <1>2, <1>3 DEF StartAttempt

(* What is done before the first call *)
LEMMA PreparationKeeps ==
    ASSUME SpendInv, NEW a \in Tries,
           \/ OpenHosted(a) \/ ClaimAdapter(a) \/ VerifySnapshot(a) \/ LoadModel(a) \/ MergeAdapter(a)
    PROVE  SpendInv'
<1>1. /\ loop[a].at \in Outside /\ UNCHANGED <<wanted, ledger, calls>>
      /\ \E at \in Outside : Proceeds(a, at)
  BY DEF OpenHosted, ClaimAdapter, VerifySnapshot, LoadModel, MergeAdapter, Outside
<1> QED
  BY <1>1, ProceedsKeeps

-----------------------------------------------------------------------------
(* The provider *)

(* A round begins while there is one left. *)
LEMMA NextIterationKeeps ==
    ASSUME SpendInv, NEW a \in Tries, NEW p \in 1..wanted.prompt, NextIteration(a, p)
    PROVE  SpendInv'
<1>1. /\ loop[a].at = "loop" /\ wanted.kind = "hosted" /\ p \in Nat /\ p <= wanted.prompt
      /\ UNCHANGED <<wanted, ledger, calls>>
      /\ wanted.iterations # 0 => ~(loop[a].iteration >= wanted.iterations)
  BY SpendLimits DEF NextIteration, Stops
<1> DEFINE x == [loop[a] EXCEPT !.at = "ready", !.prompt = p, !.try = 0]
<1>2. x \in Loops
  BY <1>1, AttemptIs DEF Loops, LoopStages
<1>3. x.at = "ready" /\ x.prompt = p /\ x.try = 0 /\ x.iteration = loop[a].iteration
  BY AttemptIs DEF Loops
<1>4. loop' = [loop EXCEPT ![a] = x]
  BY DEF NextIteration
<1> HIDE DEF x
<1>5. loop[a].iteration \in Nat /\ ledger[a].requests \in Nat /\ wanted.iterations \in Nat
  BY AttemptIs, SpendLimits DEF Loops, Ledgers
<1>6. ledger[a].requests <= loop[a].iteration * PerRound /\ loop[a].iteration * PerRound \in Nat
  BY <1>1, <1>5, AttemptIs, SpendLimits, Products DEF RoundsPay
<1>7. RoundsPay(x, ledger[a])
  BY <1>1, <1>3, <1>5, <1>6, AttemptIs, SpendLimits DEF RoundsPay, InRound
<1>8. Reserves(x, ledger[a]) /\ SpendCounted(x, ledger[a], calls[a])
  BY <1>1, <1>3, AttemptIs DEF Reserves, SpendCounted
<1> QED
  BY <1>1, <1>2, <1>4, <1>7, <1>8, LoopMoves

(* A call is reserved whole before it is made. *)
LEMMA CallProviderKeeps ==
    ASSUME SpendInv, NEW a \in Tries, CallProvider(a)
    PROVE  SpendInv'
<1> DEFINE y == loop[a]
           k == [ledger[a] EXCEPT !.left = @ - Delay]
           l == Reserved(k, y)
           c == [calls[a] EXCEPT !.count = @ + 1]
<1>1. y.at = "ready" /\ wanted' = wanted
  BY DEF CallProvider
<1>2. CASE \E retryable : Fails(a, retryable) /\ UNCHANGED <<ledger, calls>>
  BY <1>1, <1>2, EndKeeps
<1>3. CASE /\ ~(l.requests > wanted.calls \/ l.reserved > wanted.tokens)
           /\ LoopTo(a, "calling") /\ ledger' = [ledger EXCEPT ![a] = l]
           /\ calls' = [calls EXCEPT ![a].count = @ + 1]
  <2>1. PICK x \in Loops : /\ loop' = [loop EXCEPT ![a] = x] /\ x.at = "calling"
                           /\ x.prompt = y.prompt /\ x.try = y.try /\ x.iteration = y.iteration
    BY <1>3, StageOnly DEF LoopStages
  <2>2. /\ y.prompt \in Nat /\ y.try \in Nat /\ y.iteration \in Nat /\ Output \in Nat /\ Delay \in Nat
        /\ ledger[a].requests \in Nat /\ ledger[a].reserved \in Nat /\ ledger[a].used \in Nat
        /\ calls[a].count \in Nat /\ calls[a].billed \in Nat
    BY AttemptIs, RuntimeAssumption DEF Loops, Ledgers
  <2>3. k \in Ledgers /\ k.requests = ledger[a].requests /\ k.reserved = ledger[a].reserved
        /\ k.used = ledger[a].used
    BY <2>2, AttemptIs DEF Ledgers
  <2> HIDE DEF k
  <2>4. /\ l.requests = ledger[a].requests + 1 /\ l.used = ledger[a].used
        /\ l.reserved = ledger[a].reserved + y.prompt + Output
    BY <2>2, <2>3 DEF Reserved, Ledgers
  <2>5. l \in Ledgers
    <3> DEFINE retries == IF y.try > 0 THEN k.retries + 1 ELSE k.retries
    <3>1. /\ k.requests + 1 \in Nat /\ k.reserved + y.prompt + Output \in Nat /\ retries \in Nat
      BY <2>2, <2>3 DEF Ledgers
    <3>2. l = [k EXCEPT !.requests = k.requests + 1, !.reserved = k.reserved + y.prompt + Output,
                        !.retries = retries]
      BY DEF Reserved
    <3> HIDE DEF l, retries
    <3> QED
      BY <2>3, <3>1, <3>2 DEF Ledgers
  <2>6. c \in [count : Nat, billed : Nat] /\ c.count = calls[a].count + 1 /\ c.billed = calls[a].billed
    BY <2>2, AttemptIs
  <2>7. ledger' = [ledger EXCEPT ![a] = l] /\ calls' = [calls EXCEPT ![a] = c]
    BY <1>3
  <2> HIDE DEF k, l, c
  <2>8. RoundsPay(y, ledger[a]) /\ Reserves(y, ledger[a]) /\ SpendCounted(y, ledger[a], calls[a])
    BY AttemptIs
  <2>9. y.iteration * PerRound \in Nat /\ wanted.iterations * PerRound \in Nat
    BY <2>2, SpendLimits, Products
  <2>10. wanted.iterations # 0 => y.iteration * PerRound + PerRound <= wanted.iterations * PerRound
    <3>1. ASSUME wanted.iterations # 0
          PROVE  y.iteration * PerRound + PerRound <= wanted.iterations * PerRound
      <4>1. y.iteration + 1 <= wanted.iterations
        BY <1>1, <2>2, <2>8, <3>1, SpendLimits DEF RoundsPay, InRound
      <4>2. (y.iteration + 1) * PerRound <= wanted.iterations * PerRound
        BY <2>2, <4>1, SpendLimits, Products
      <4> QED
        BY <2>2, <4>2, SpendLimits, Products
    <3> QED
      BY <3>1
  <2>11. y.try + 1 <= PerRound /\ y.prompt + Output <= PerCall
    BY <1>1, <2>2, <2>8, SpendLimits DEF RoundsPay, PerRound, Reserves, PerCall
  <2>12. ledger[a].requests <= y.iteration * PerRound + y.try
    BY <1>1, <2>8 DEF RoundsPay
  <2>13. RoundsPay(x, l)
    BY <1>1, <2>1, <2>2, <2>4, <2>8, <2>9, <2>10, <2>11, <2>12, SpendLimits DEF RoundsPay, InRound
  <2>14. Reserves(x, l)
    <3>1. PerCall * l.requests = PerCall * ledger[a].requests + PerCall /\ PerCall * ledger[a].requests \in Nat
      BY <2>2, <2>4, SpendLimits, Products
    <3>2. l.reserved <= PerCall * l.requests
      BY <2>2, <2>4, <2>8, <2>11, <3>1, SpendLimits DEF Reserves
    <3>3. l.requests <= wanted.calls /\ l.reserved <= wanted.tokens
      BY <1>3, <2>2, <2>4, SpendLimits
    <3>4. l.used <= l.reserved /\ l.used + x.prompt + Output <= l.reserved
      BY <2>1, <2>2, <2>4, <2>8 DEF Reserves
    <3>5. wanted.kind = "hosted" /\ x.prompt <= wanted.prompt
      BY <1>1, <2>1, <2>8 DEF Reserves
    <3> QED
      BY <2>1, <3>2, <3>3, <3>4, <3>5 DEF Reserves
  <2>15. SpendCounted(x, l, c)
    BY <1>1, <2>1, <2>4, <2>6, <2>8 DEF SpendCounted
  <2> QED
    BY <1>1, <2>1, <2>5, <2>6, <2>7, <2>13, <2>14, <2>15, AttemptMoves
<1> QED
  BY <1>2, <1>3 DEF CallProvider

(* What is billed within the reservation is recorded; beyond it the run ends. *)
LEMMA AnsweredKeeps ==
    ASSUME SpendInv, NEW a \in Tries, NEW u \in Nat, Answered(a, u)
    PROVE  SpendInv'
<1> DEFINE y == loop[a]
           l == [ledger[a] EXCEPT !.left = @ - 1, !.used = @ + u]
           c == [calls[a] EXCEPT !.billed = @ + u]
<1>1. y.at = "calling" /\ wanted' = wanted /\ calls' = [calls EXCEPT ![a] = c]
  BY DEF Answered
<1>2. c \in [count : Nat, billed : Nat] /\ c.count = calls[a].count /\ c.billed = calls[a].billed + u
  BY AttemptIs
<1>3. /\ y.prompt \in Nat /\ Output \in Nat /\ y.iteration \in Nat
      /\ ledger[a].requests \in Nat /\ ledger[a].reserved \in Nat /\ ledger[a].used \in Nat
      /\ calls[a].billed \in Nat
  BY AttemptIs, RuntimeAssumption DEF Loops, Ledgers
<1>4. /\ l \in Ledgers /\ l.requests = ledger[a].requests /\ l.reserved = ledger[a].reserved
      /\ l.used = ledger[a].used + u
  <2>1. ledger[a].left - 1 \in Int /\ ledger[a].used + u \in Nat
    BY <1>3, AttemptIs DEF Ledgers
  <2> QED
    BY <2>1, AttemptIs DEF Ledgers
<1>5. RoundsPay(y, ledger[a]) /\ Reserves(y, ledger[a]) /\ SpendCounted(y, ledger[a], calls[a])
  BY AttemptIs
<1>6. CASE ~Plausible(y, u)
  <2>1. LoopTo(a, "ended") /\ ledger' = ledger
    BY <1>6 DEF Answered, Fails
  <2>2. PICK x \in Loops : /\ loop' = [loop EXCEPT ![a] = x] /\ x.at = "ended"
                           /\ x.prompt = y.prompt /\ x.iteration = y.iteration
    BY <2>1, StageOnly DEF LoopStages
  <2>3. ledger' = [ledger EXCEPT ![a] = ledger[a]] /\ ledger[a] \in Ledgers
    BY <2>1 DEF SpendInv
  <2> HIDE DEF c, l
  <2>4. RoundsPay(x, ledger[a]) /\ Reserves(x, ledger[a]) /\ SpendCounted(x, ledger[a], c)
    BY <1>1, <1>2, <1>5, <2>2 DEF RoundsPay, Reserves, SpendCounted, InRound
  <2> QED
    BY <1>1, <1>2, <2>2, <2>3, <2>4, AttemptMoves
<1>7. CASE Plausible(y, u)
  <2>1. ledger' = [ledger EXCEPT ![a] = l] /\ \E at \in {"answered", "ended"} : LoopTo(a, at)
    BY <1>7 DEF Answered, Fails
  <2>2. PICK at \in {"answered", "ended"} : LoopTo(a, at)
    BY <2>1
  <2>3. PICK x \in Loops : /\ loop' = [loop EXCEPT ![a] = x] /\ x.at = at
                           /\ x.prompt = y.prompt /\ x.try = y.try /\ x.iteration = y.iteration
    BY <2>2, StageOnly DEF LoopStages
  <2>4. u <= y.prompt + Output
    BY <1>7 DEF Plausible
  <2> HIDE DEF c, l
  <2>5. RoundsPay(x, l)
    BY <1>1, <1>4, <1>5, <2>2, <2>3 DEF RoundsPay, InRound
  <2>6. Reserves(x, l)
    BY <1>1, <1>3, <1>4, <1>5, <2>2, <2>3, <2>4 DEF Reserves
  <2>7. SpendCounted(x, l, c)
    BY <1>1, <1>2, <1>3, <1>4, <1>5, <2>2, <2>3 DEF SpendCounted
  <2> QED
    BY <1>1, <1>2, <1>4, <2>1, <2>3, <2>5, <2>6, <2>7, AttemptMoves
<1> QED
  BY <1>6, <1>7

(* A call that failed is tried again only so often. *)
LEMMA CallFailsKeeps ==
    ASSUME SpendInv, NEW a \in Tries, NEW retryable, CallFails(a, retryable)
    PROVE  SpendInv'
<1> DEFINE y == loop[a]
           l == [ledger[a] EXCEPT !.left = @ - Delay]
           x == [loop[a] EXCEPT !.at = "ready", !.try = @ + 1]
<1>1. y.at = "calling" /\ UNCHANGED <<wanted, calls>>
  BY DEF CallFails
<1>2. CASE Fails(a, TRUE) /\ UNCHANGED ledger
  BY <1>1, <1>2, EndKeeps
<1>3. CASE y.try < wanted.retries /\ ledger' = [ledger EXCEPT ![a] = l] /\ loop' = [loop EXCEPT ![a] = x]
  <2>1. /\ y.try \in Nat /\ y.iteration \in Nat /\ Delay \in Nat /\ wanted.retries \in Nat
        /\ ledger[a].requests \in Nat
    BY AttemptIs, SpendLimits, RuntimeAssumption DEF Loops, Ledgers
  <2>2. /\ x \in Loops /\ x.at = "ready" /\ x.try = y.try + 1 /\ x.iteration = y.iteration
        /\ x.prompt = y.prompt
    <3>1. y.try + 1 \in Nat
      BY <2>1
    <3> QED
      BY <3>1, AttemptIs DEF Loops, LoopStages
  <2>3. /\ l \in Ledgers /\ l.requests = ledger[a].requests /\ l.reserved = ledger[a].reserved
        /\ l.used = ledger[a].used
    BY <2>1, AttemptIs DEF Ledgers
  <2>4. RoundsPay(y, ledger[a]) /\ Reserves(y, ledger[a]) /\ SpendCounted(y, ledger[a], calls[a])
    BY AttemptIs
  <2> HIDE DEF x, l
  <2>5. y.iteration * PerRound \in Nat
    BY <2>1, SpendLimits, Products
  <2>6. RoundsPay(x, l)
    BY <1>1, <1>3, <2>1, <2>2, <2>3, <2>4, <2>5 DEF RoundsPay, InRound
  <2>7. Reserves(x, l) /\ SpendCounted(x, l, calls[a])
    BY <1>1, <2>2, <2>3, <2>4 DEF Reserves, SpendCounted
  <2>8. calls' = [calls EXCEPT ![a] = calls[a]] /\ calls[a] \in [count : Nat, billed : Nat]
    BY <1>1 DEF SpendInv
  <2> QED
    BY <1>1, <1>3, <2>2, <2>3, <2>6, <2>7, <2>8, AttemptMoves
<1> QED
  BY <1>2, <1>3 DEF CallFails

-----------------------------------------------------------------------------
(* Candidates *)

(* An analysis asks no provider. *)
LEMMA AnalyzeKeeps ==
    ASSUME SpendInv, NEW a \in Tries, AnalyzeTexts(a)
    PROVE  SpendInv'
<1>1. /\ loop[a].at = "loop" /\ wanted.kind = "analysis" /\ UNCHANGED <<wanted, ledger, calls>>
      /\ wanted.iterations # 0 => ~(loop[a].iteration >= wanted.iterations)
  BY DEF AnalyzeTexts, Stops
<1>2. CASE \E retryable \in BOOLEAN : Fails(a, retryable)
  BY <1>1, <1>2, EndKeeps
<1>3. CASE loop' = [loop EXCEPT ![a].iteration = 1]
  <2> DEFINE x == [loop[a] EXCEPT !.iteration = 1]
  <2>1. x \in Loops /\ x.at = "loop" /\ x.iteration = 1 /\ x.prompt = loop[a].prompt
    BY <1>1, AttemptIs DEF Loops
  <2>2. loop' = [loop EXCEPT ![a] = x]
    BY <1>3
  <2> HIDE DEF x
  <2>3. ledger[a].requests = 0 /\ loop[a].iteration \in Nat /\ wanted.iterations \in Nat
    BY <1>1, AttemptIs, SpendLimits DEF Reserves, Loops
  <2>4. 1 * PerRound \in Nat /\ wanted.iterations * PerRound \in Nat
    BY <2>3, SpendLimits, Products
  <2>5. RoundsPay(x, ledger[a])
    BY <1>1, <2>1, <2>3, <2>4, SpendLimits DEF RoundsPay, InRound
  <2>6. Reserves(x, ledger[a]) /\ SpendCounted(x, ledger[a], calls[a])
    BY <1>1, <2>1, AttemptIs DEF Reserves, SpendCounted
  <2> QED
    BY <1>1, <2>1, <2>2, <2>5, <2>6, LoopMoves
<1> QED
  BY <1>2, <1>3 DEF AnalyzeTexts

(* Neither does a local model. *)
LEMMA GenerateLocalKeeps ==
    ASSUME SpendInv, NEW a \in Tries, GenerateLocal(a)
    PROVE  SpendInv'
<1>1. /\ loop[a].at = "loop" /\ wanted.kind = "local" /\ UNCHANGED <<wanted, ledger, calls>>
      /\ wanted.iterations # 0 => ~(loop[a].iteration >= wanted.iterations)
  BY DEF GenerateLocal, Stops
<1>2. CASE Fails(a, TRUE)
  BY <1>1, <1>2, EndKeeps
<1>3. CASE LoopTo(a, "answered")
  <2>1. PICK x \in Loops : /\ loop' = [loop EXCEPT ![a] = x] /\ x.at = "answered"
                           /\ x.prompt = loop[a].prompt /\ x.iteration = loop[a].iteration
    BY <1>3, StageOnly DEF LoopStages
  <2>2. ledger[a].requests = 0 /\ loop[a].iteration \in Nat /\ wanted.iterations \in Nat
    BY <1>1, AttemptIs, SpendLimits DEF Reserves, Loops
  <2>3. loop[a].iteration * PerRound \in Nat /\ wanted.iterations * PerRound \in Nat
    BY <2>2, SpendLimits, Products
  <2>4. RoundsPay(x, ledger[a])
    BY <1>1, <2>1, <2>2, <2>3, SpendLimits DEF RoundsPay, InRound
  <2>5. Reserves(x, ledger[a]) /\ SpendCounted(x, ledger[a], calls[a])
    BY <1>1, <2>1, AttemptIs DEF Reserves, SpendCounted
  <2> QED
    BY <1>1, <2>1, <2>4, <2>5, LoopMoves
<1> QED
  BY <1>2, <1>3 DEF GenerateLocal

(* A round that was answered is over. *)
LEMMA RankKeeps ==
    ASSUME SpendInv, NEW a \in Tries, NEW C \in SUBSET Texts, RankAndCommit(a, C)
    PROVE  SpendInv'
<1>1. loop[a].at = "answered" /\ UNCHANGED <<wanted, ledger, calls>>
  BY DEF RankAndCommit
<1>2. PICK A \in {{t} : t \in Useful(a, C)} \cup {{}} :
          loop' = [loop EXCEPT ![a].at = "loop", ![a].iteration = @ + 1,
                               ![a].seen = @ \cup C, ![a].accepted = @ \cup A]
  BY DEF RankAndCommit
<1> DEFINE x == [loop[a] EXCEPT !.at = "loop", !.iteration = @ + 1,
                                !.seen = @ \cup C, !.accepted = @ \cup A]
<1>3. A \subseteq Texts
  BY DEF Useful, Unseen
<1>4. loop[a].iteration \in Nat /\ loop[a].seen \subseteq Texts /\ loop[a].accepted \subseteq Texts
  BY AttemptIs DEF Loops
<1>5. x \in Loops
  <2>1. loop[a].iteration + 1 \in Nat /\ loop[a].seen \cup C \in SUBSET Texts
        /\ loop[a].accepted \cup A \in SUBSET Texts
    BY <1>3, <1>4
  <2> QED
    BY <2>1, AttemptIs DEF Loops, LoopStages
<1>6. x.at = "loop" /\ x.prompt = loop[a].prompt /\ x.iteration = loop[a].iteration + 1
  BY AttemptIs DEF Loops
<1>7. loop' = [loop EXCEPT ![a] = x]
  BY <1>2
<1> HIDE DEF x
<1>8. x.iteration * PerRound = loop[a].iteration * PerRound + PerRound
  BY <1>4, <1>6, SpendLimits, Products
<1>9. RoundsPay(x, ledger[a])
  BY <1>1, <1>4, <1>6, <1>8, AttemptIs, SpendLimits DEF RoundsPay, InRound
<1>10. Reserves(x, ledger[a]) /\ SpendCounted(x, ledger[a], calls[a])
  BY <1>1, <1>6, AttemptIs DEF Reserves, SpendCounted
<1> QED
  BY <1>1, <1>5, <1>7, <1>9, <1>10, LoopMoves

(* A result is staged, an attempt killed or given up. *)
LEMMA EndingsKeep ==
    ASSUME SpendInv, NEW a \in Tries, StageResult(a) \/ KillAttempt(a) \/ LoseAttempt(a)
    PROVE  SpendInv'
<1>1. UNCHANGED <<wanted, ledger, calls>>
  BY DEF StageResult, KillAttempt, LoseAttempt
<1>2. CASE \E retryable \in BOOLEAN : Fails(a, retryable)
  BY <1>1, <1>2, EndKeeps
<1>3. CASE LoopTo(a, "ended")
  <2>1. PICK x \in Loops : /\ loop' = [loop EXCEPT ![a] = x] /\ x.at = "ended"
                           /\ x.prompt = loop[a].prompt /\ x.iteration = loop[a].iteration
    BY <1>3, StageOnly DEF LoopStages
  <2>2. /\ RoundsPay(x, ledger[a]) /\ Reserves(x, ledger[a]) /\ SpendCounted(x, ledger[a], calls[a])
    BY <2>1, AttemptIs DEF RoundsPay, Reserves, SpendCounted, InRound
  <2> QED
    BY <1>1, <2>1, <2>2, LoopMoves
<1>4. CASE loop' = [loop EXCEPT ![a].lost = TRUE]
  <2> DEFINE x == [loop[a] EXCEPT !.lost = TRUE]
  <2>1. /\ x \in Loops /\ x.at = loop[a].at /\ x.prompt = loop[a].prompt /\ x.try = loop[a].try
        /\ x.iteration = loop[a].iteration
    BY AttemptIs DEF Loops
  <2>2. loop' = [loop EXCEPT ![a] = x]
    BY <1>4
  <2> HIDE DEF x
  <2>3. /\ RoundsPay(x, ledger[a]) /\ Reserves(x, ledger[a]) /\ SpendCounted(x, ledger[a], calls[a])
    BY <2>1, AttemptIs DEF RoundsPay, Reserves, SpendCounted, InRound
  <2> QED
    BY <1>1, <2>1, <2>2, <2>3, LoopMoves
<1> QED
  BY <1>2, <1>3, <1>4 DEF StageResult, KillAttempt, LoseAttempt

-----------------------------------------------------------------------------
(* Nothing is spent at first. *)
LEMMA SpendStarts ==
    ASSUME RuntimeInit
    PROVE  SpendInv
<1>1. NewLoop \in Loops /\ NewLoop.at = "none" /\ NewLoop.iteration = 0 /\ NewLoop.prompt = 0
  BY DEF NewLoop, Loops, LoopStages
<1>2. /\ NewLedger \in Ledgers /\ NewLedger.requests = 0 /\ NewLedger.reserved = 0 /\ NewLedger.used = 0
  BY RuntimeAssumption DEF NewLedger, Ledgers
<1>3. /\ wanted \in Requests /\ wanted.prompt \in Nat /\ wanted.calls \in Nat /\ wanted.tokens \in Nat
      /\ wanted.iterations \in Nat /\ PerRound \in Nat /\ PerCall \in Nat
  BY RuntimeAssumption DEF RuntimeInit, PerRound, PerCall
<1>4. 0 * PerRound = 0 /\ PerCall * 0 = 0 /\ wanted.iterations * PerRound \in Nat
  BY <1>3, Products
<1>5. RoundsPay(NewLoop, NewLedger) /\ Reserves(NewLoop, NewLedger)
  BY <1>1, <1>2, <1>3, <1>4 DEF RoundsPay, Reserves, InRound
<1> QED
  BY <1>1, <1>2, <1>3, <1>5 DEF RuntimeInit, SpendInv, SpendCounted

(* Every step keeps the books. *)
LEMMA SpendStep ==
    ASSUME SpendInv, [RuntimeNext]_runtimeVars
    PROVE  SpendInv'
<1>1. CASE UNCHANGED runtimeVars
  BY <1>1 DEF runtimeVars, SpendInv, RoundsPay, Reserves, SpendCounted, PerRound, PerCall
<1>2. ASSUME NEW a \in Tries, NEW u \in {1, wanted.prompt + Output, wanted.prompt + Output + 1}, Answered(a, u)
      PROVE  SpendInv'
  BY <1>2, SpendLimits, AnsweredKeeps
<1>3. CASE RuntimeNext
  BY <1>2, <1>3, StartAttemptKeeps, PreparationKeeps, NextIterationKeeps, CallProviderKeeps,
     CallFailsKeeps, AnalyzeKeeps, GenerateLocalKeeps, RankKeeps, EndingsKeep DEF RuntimeNext
<1> QED
  BY <1>1, <1>3

(* The smaller of two numbers *)
LEMMA SmallerTries ==
    ASSUME NEW m \in Nat, NEW n \in Nat
    PROVE  Min({m, n}) \in {m, n} /\ Min({m, n}) <= m /\ Min({m, n}) <= n
<1>1. \E k \in {m, n} : \A j \in {m, n} : k <= j
  OBVIOUS
<1>2. Min({m, n}) \in {m, n} /\ \A j \in {m, n} : Min({m, n}) <= j
  BY <1>1 DEF Min
<1> QED
  BY <1>2

(* The books stay within the estimate. *)
LEMMA BooksWithinEstimate ==
    ASSUME SpendInv
    PROVE  SpendWithinEstimate
<1> SUFFICES ASSUME NEW a \in Tries
             PROVE  /\ calls[a].count = ledger[a].requests
                    /\ ledger[a].requests <= Estimate(wanted).calls
                    /\ ledger[a].used <= ledger[a].reserved
                    /\ ledger[a].reserved <= Estimate(wanted).tokens
                    /\ calls[a].billed > ledger[a].used => loop[a].at = "ended"
  BY DEF SpendWithinEstimate
<1> DEFINE iterations == IF wanted.iterations = 0 THEN wanted.calls ELSE wanted.iterations
           most == Min({wanted.calls, iterations * PerRound})
           r == ledger[a].requests
<1>1. /\ r \in Nat /\ ledger[a].reserved \in Nat /\ ledger[a].used \in Nat /\ calls[a].billed \in Nat
  BY AttemptIs DEF Ledgers
<1>2. iterations \in Nat /\ iterations * PerRound \in Nat
  BY SpendLimits, Products
<1>3. r <= iterations * PerRound
  <2>1. CASE wanted.iterations = 0
    <3>1. wanted.calls * 1 <= wanted.calls * PerRound
      BY SpendLimits, Products DEF PerRound
    <3> QED
      BY <1>1, <1>2, <2>1, <3>1, AttemptIs, SpendLimits DEF Reserves
  <2>2. CASE wanted.iterations # 0
    BY <2>2, AttemptIs DEF RoundsPay
  <2> QED
    BY <2>1, <2>2
<1>4. r <= most /\ most \in Nat
  BY <1>1, <1>2, <1>3, AttemptIs, SpendLimits, SmallerTries DEF Reserves
<1>5. PerCall * r <= PerCall * most /\ PerCall * most \in Nat /\ PerCall * r \in Nat
  BY <1>1, <1>4, SpendLimits, Products
<1>6. ledger[a].reserved <= PerCall * most /\ ledger[a].reserved <= wanted.tokens
  BY <1>1, <1>5, AttemptIs DEF Reserves
<1>7. ledger[a].reserved <= Min({wanted.tokens, PerCall * most})
  BY <1>1, <1>5, <1>6, SpendLimits, SmallerTries
<1>8. Estimate(wanted) = [calls |-> most, tokens |-> Min({wanted.tokens, PerCall * most})]
  BY DEF Estimate, PerRound, PerCall
<1> HIDE DEF most, iterations
<1>9. Estimate(wanted).calls = most /\ Estimate(wanted).tokens = Min({wanted.tokens, PerCall * most})
  BY <1>8
<1> QED
  BY <1>1, <1>4, <1>7, <1>9, AttemptIs DEF Reserves, SpendCounted

(* Whatever the provider answers, bills or fails to do, and however often  *)
(* an attempt retries, what it asks and reserves stays within the estimate *)
(* shown before the run, and no bill beyond the reservation is accepted.   *)
THEOREM SpendStaysWithinEstimate ==
    RuntimeInit /\ [][RuntimeNext]_runtimeVars => []SpendWithinEstimate
<1>1. RuntimeInit => SpendInv
  BY SpendStarts
<1>2. SpendInv /\ [RuntimeNext]_runtimeVars => SpendInv'
  BY SpendStep
<1>3. SpendInv => SpendWithinEstimate
  BY BooksWithinEstimate
<1> QED
  BY <1>1, <1>2, <1>3, PTL

-----------------------------------------------------------------------------
(* Types *)

(* What is accepted was seen, and the clock of an attempt never runs below *)
(* zero: a call is only made while the deadline leaves time for it.        *)
Timed(x, l) ==
    /\ x.accepted \subseteq x.seen
    /\ l.left \in 0..Timeout
    /\ x.at = "calling" => l.left > 0

Outcomes == {"pending", "staged", "failed"}

ClockInv == outcome \in Outcomes /\ \A a \in Tries : Timed(loop[a], ledger[a])

(* One attempt moves, the others stay where they are. *)
LEMMA ClockMoves ==
    ASSUME SpendInv, ClockInv, NEW a \in Tries, outcome' \in Outcomes,
           NEW x, NEW l, loop' = [loop EXCEPT ![a] = x], ledger' = [ledger EXCEPT ![a] = l],
           Timed(x, l)
    PROVE  ClockInv'
<1> SUFFICES ASSUME NEW b \in Tries PROVE Timed(loop[b], ledger[b])'
  BY DEF ClockInv
<1>1. CASE b = a
  <2>1. loop'[b] = x /\ ledger'[b] = l
    BY <1>1 DEF SpendInv
  <2> QED
    BY <2>1 DEF Timed
<1>2. CASE b # a
  <2>1. loop'[b] = loop[b] /\ ledger'[b] = ledger[b]
    BY <1>2 DEF SpendInv
  <2> QED
    BY <2>1 DEF ClockInv, Timed
<1> QED
  BY <1>1, <1>2

(* Only the loop of an attempt moves, and does not call. *)
LEMMA StageKeepsClock ==
    ASSUME SpendInv, ClockInv, NEW a \in Tries, NEW at \in LoopStages \ {"calling"},
           LoopTo(a, at), outcome' \in Outcomes, UNCHANGED ledger
    PROVE  ClockInv'
<1> DEFINE x == [loop[a] EXCEPT !.at = at]
<1>1. loop' = [loop EXCEPT ![a] = x] /\ ledger' = [ledger EXCEPT ![a] = ledger[a]]
  BY DEF LoopTo, SpendInv
<1>2. x.at = at /\ x.accepted = loop[a].accepted /\ x.seen = loop[a].seen
  BY AttemptIs DEF Loops
<1>3. Timed(x, ledger[a])
  BY <1>2 DEF ClockInv, Timed
<1> HIDE DEF x
<1> QED
  BY <1>1, <1>3, ClockMoves

(* An attempt that fails calls nobody any more. *)
LEMMA FailKeepsClock ==
    ASSUME SpendInv, ClockInv, NEW a \in Tries, NEW retryable, Fails(a, retryable), UNCHANGED ledger
    PROVE  ClockInv'
<1>1. LoopTo(a, "ended") /\ outcome' \in Outcomes
  BY DEF Fails, ClockInv, Outcomes
<1> QED
  BY <1>1, StageKeepsClock DEF LoopStages

(* An attempt that moves on without a call keeps its time. *)
LEMMA ProceedKeepsClock ==
    ASSUME SpendInv, ClockInv, NEW a \in Tries, NEW at \in LoopStages \ {"calling"},
           Proceeds(a, at), UNCHANGED ledger
    PROVE  ClockInv'
  BY FailKeepsClock, StageKeepsClock DEF Proceeds, ClockInv

(* An attempt that prepares, that works without a provider, or that ends *)
LEMMA StagesKeepClock ==
    ASSUME SpendInv, ClockInv, NEW a \in Tries,
           \/ StartAttempt(a) \/ OpenHosted(a) \/ ClaimAdapter(a) \/ VerifySnapshot(a)
           \/ LoadModel(a) \/ MergeAdapter(a) \/ GenerateLocal(a) \/ StageResult(a) \/ KillAttempt(a)
    PROVE  ClockInv'
<1> USE DEF LoopStages
<1>1. CASE StartAttempt(a)
  <2>1. UNCHANGED ledger
    BY <1>1 DEF StartAttempt
  <2>2. CASE Authorized(wanted)
    <3>1. UNCHANGED outcome /\ \E at \in {"opening", "claiming", "verifying"} : LoopTo(a, at)
      BY <1>1, <2>2 DEF StartAttempt
    <3> QED
      BY <2>1, <3>1, StageKeepsClock DEF ClockInv
  <2>3. CASE ~Authorized(wanted)
    BY <1>1, <2>1, <2>3, FailKeepsClock DEF StartAttempt
  <2> QED
    BY <2>2, <2>3
<1>2. CASE OpenHosted(a) \/ ClaimAdapter(a) \/ VerifySnapshot(a) \/ MergeAdapter(a)
  BY <1>2, ProceedKeepsClock DEF OpenHosted, ClaimAdapter, VerifySnapshot, MergeAdapter
<1>3. CASE LoadModel(a)
  BY <1>3, ProceedKeepsClock DEF LoadModel
<1>4. CASE GenerateLocal(a)
  BY <1>4, FailKeepsClock, StageKeepsClock DEF GenerateLocal, ClockInv
<1>5. CASE StageResult(a)
  <2>1. CASE LoopTo(a, "ended") /\ outcome' = IF outcome = "pending" THEN "staged" ELSE outcome
    <3>1. outcome' \in Outcomes /\ UNCHANGED ledger
      BY <1>5, <2>1 DEF StageResult, ClockInv, Outcomes
    <3> QED
      BY <2>1, <3>1, StageKeepsClock
  <2> QED
    BY <1>5, <2>1, FailKeepsClock DEF StageResult
<1>6. CASE KillAttempt(a)
  BY <1>6, FailKeepsClock DEF KillAttempt
<1> QED
  BY <1>1, <1>2, <1>3, <1>4, <1>5, <1>6

(* The rounds of the loop: what is accepted comes from what was offered. *)
LEMMA RoundsKeepClock ==
    ASSUME SpendInv, ClockInv, NEW a \in Tries,
           \/ AnalyzeTexts(a) \/ LoseAttempt(a)
           \/ \E p \in 1..wanted.prompt : NextIteration(a, p)
           \/ \E C \in SUBSET Texts \ {{}} : RankAndCommit(a, C)
    PROVE  ClockInv'
<1>0. ledger' = ledger
  BY DEF AnalyzeTexts, LoseAttempt, NextIteration, RankAndCommit
<1>1. ledger' = [ledger EXCEPT ![a] = ledger[a]] /\ Timed(loop[a], ledger[a]) /\ loop[a] \in Loops
  BY <1>0, AttemptIs DEF SpendInv, ClockInv
<1>2. CASE AnalyzeTexts(a)
  <2> DEFINE x == [loop[a] EXCEPT !.iteration = 1]
  <2>1. CASE loop' = [loop EXCEPT ![a].iteration = 1] /\ UNCHANGED outcome
    <3>1. Timed(x, ledger[a]) /\ loop' = [loop EXCEPT ![a] = x] /\ outcome' \in Outcomes
      BY <1>1, <2>1 DEF Timed, Loops, ClockInv
    <3> HIDE DEF x
    <3> QED
      BY <1>1, <3>1, ClockMoves
  <2> QED
    BY <1>0, <1>2, <2>1, FailKeepsClock DEF AnalyzeTexts
<1>3. CASE LoseAttempt(a)
  <2> DEFINE x == [loop[a] EXCEPT !.lost = TRUE]
  <2>1. Timed(x, ledger[a]) /\ loop' = [loop EXCEPT ![a] = x] /\ outcome' \in Outcomes
    BY <1>1, <1>3 DEF LoseAttempt, Timed, Loops, ClockInv
  <2> HIDE DEF x
  <2> QED
    BY <1>1, <2>1, ClockMoves
<1>4. ASSUME NEW p \in 1..wanted.prompt, NextIteration(a, p) PROVE ClockInv'
  <2> DEFINE x == [loop[a] EXCEPT !.at = "ready", !.prompt = p, !.try = 0]
  <2>1. Timed(x, ledger[a]) /\ loop' = [loop EXCEPT ![a] = x] /\ outcome' \in Outcomes
    BY <1>1, <1>4 DEF NextIteration, Timed, Loops, ClockInv
  <2> HIDE DEF x
  <2> QED
    BY <1>1, <2>1, ClockMoves
<1>5. ASSUME NEW C \in SUBSET Texts \ {{}}, RankAndCommit(a, C) PROVE ClockInv'
  <2>1. PICK A \in {{t} : t \in Useful(a, C)} \cup {{}} :
          loop' = [loop EXCEPT ![a].at = "loop", ![a].iteration = @ + 1,
                               ![a].seen = @ \cup C, ![a].accepted = @ \cup A]
    BY <1>5 DEF RankAndCommit
  <2>2. A \subseteq C
    BY <2>1 DEF Useful, Unseen
  <2> DEFINE x == [loop[a] EXCEPT !.at = "loop", !.iteration = @ + 1,
                                  !.seen = @ \cup C, !.accepted = @ \cup A]
  <2>3. /\ x.at = "loop" /\ x.seen = loop[a].seen \cup C /\ x.accepted = loop[a].accepted \cup A
        /\ loop' = [loop EXCEPT ![a] = x]
    BY <1>1, <2>1 DEF Loops
  <2> HIDE DEF x
  <2>4. Timed(x, ledger[a]) /\ outcome' \in Outcomes
    BY <1>1, <1>5, <2>2, <2>3 DEF RankAndCommit, Timed, ClockInv
  <2> QED
    BY <1>1, <2>3, <2>4, ClockMoves
<1> QED
  BY <1>2, <1>3, <1>4, <1>5

(* A call starts before the deadline, takes a second, and is tried again   *)
(* only when the delay still fits.                                         *)
LEMMA CallsKeepClock ==
    ASSUME SpendInv, ClockInv, NEW a \in Tries,
           \/ CallProvider(a)
           \/ \E u \in {1, wanted.prompt + Output, wanted.prompt + Output + 1} : Answered(a, u)
           \/ \E retryable \in BOOLEAN : CallFails(a, retryable)
    PROVE  ClockInv'
<1>0. /\ loop[a] \in Loops /\ ledger[a] \in Ledgers /\ Timed(loop[a], ledger[a])
      /\ loop \in [Tries -> Loops] /\ ledger \in [Tries -> Ledgers]
  BY AttemptIs DEF SpendInv, ClockInv
<1>1. CASE CallProvider(a)
  <2> DEFINE l == [ledger[a] EXCEPT !.left = @ - Delay]
             r == Reserved(l, loop[a])
             x == [loop[a] EXCEPT !.at = "calling"]
  <2>1. CASE ledger' = ledger
    <3>1. Fails(a, TRUE) \/ Fails(a, FALSE)
      <4>1. ASSUME LoopTo(a, "calling"), ~(l.left <= 0), ledger' = [ledger EXCEPT ![a] = r] PROVE FALSE
        <5>1. r.requests = ledger[a].requests + 1 /\ ledger'[a] = r
          BY <1>0, <4>1 DEF Reserved, Ledgers
        <5> QED
          BY <1>0, <2>1, <5>1 DEF Ledgers
      <4> QED
        BY <1>1, <4>1 DEF CallProvider
    <3> QED
      BY <2>1, <3>1, FailKeepsClock
  <2>2. CASE ledger' # ledger
    <3>1. /\ ~(l.left <= 0) /\ loop' = [loop EXCEPT ![a] = x] /\ ledger' = [ledger EXCEPT ![a] = r]
          /\ outcome' = outcome
      BY <1>1, <2>2 DEF CallProvider, LoopTo
    <3>2. r.left = l.left /\ l.left = ledger[a].left - Delay
      BY <1>0 DEF Reserved, Ledgers
    <3>3. x.at = "calling" /\ x.accepted = loop[a].accepted /\ x.seen = loop[a].seen
      BY <1>0 DEF Loops
    <3> HIDE DEF x, r, l
    <3>4. Timed(x, r)
      BY <1>0, <3>1, <3>2, <3>3, RuntimeAssumption DEF Timed, Ledgers
    <3> QED
      BY <3>1, <3>4, ClockMoves DEF ClockInv
  <2> QED
    BY <2>1, <2>2
<1>2. ASSUME NEW u \in {1, wanted.prompt + Output, wanted.prompt + Output + 1}, Answered(a, u)
      PROVE  ClockInv'
  <2>1. CASE ~Plausible(loop[a], u)
    BY <1>2, <2>1, FailKeepsClock DEF Answered
  <2>2. CASE Plausible(loop[a], u)
    <3> DEFINE l == [[ledger[a] EXCEPT !.left = @ - 1] EXCEPT !.used = @ + u]
    <3>1. /\ loop[a].at = "calling" /\ ledger' = [ledger EXCEPT ![a] = l]
          /\ \/ LoopTo(a, "answered") /\ UNCHANGED outcome
             \/ Fails(a, TRUE)
      BY <1>2, <2>2 DEF Answered
    <3>2. l.left = ledger[a].left - 1
      BY <1>0 DEF Ledgers
    <3> HIDE DEF l
    <3>3. outcome' \in Outcomes /\ \E at \in {"answered", "ended"} : LoopTo(a, at)
      BY <3>1 DEF Fails, ClockInv, Outcomes
    <3>4. PICK at \in {"answered", "ended"} : LoopTo(a, at)
      BY <3>3
    <3> DEFINE x == [loop[a] EXCEPT !.at = at]
    <3>5. x.at = at /\ x.accepted = loop[a].accepted /\ x.seen = loop[a].seen
          /\ loop' = [loop EXCEPT ![a] = x]
      BY <1>0, <3>4 DEF Loops, LoopTo
    <3> HIDE DEF x
    <3>6. Timed(x, l)
      BY <1>0, <3>1, <3>2, <3>5, RuntimeAssumption DEF Timed, Ledgers
    <3> QED
      BY <3>1, <3>3, <3>5, <3>6, ClockMoves
  <2> QED
    BY <2>1, <2>2
<1>3. ASSUME NEW retryable \in BOOLEAN, CallFails(a, retryable) PROVE ClockInv'
  <2>1. CASE ~(retryable /\ loop[a].try < wanted.retries /\ ledger[a].left - Delay > 0)
    BY <1>3, <2>1, FailKeepsClock DEF CallFails
  <2>2. CASE retryable /\ loop[a].try < wanted.retries /\ ledger[a].left - Delay > 0
    <3> DEFINE l == [ledger[a] EXCEPT !.left = ledger[a].left - Delay]
               x == [loop[a] EXCEPT !.at = "ready", !.try = @ + 1]
    <3>1. /\ ledger' = [ledger EXCEPT ![a] = l] /\ loop' = [loop EXCEPT ![a] = x]
          /\ outcome' = outcome
      BY <1>3, <2>2 DEF CallFails
    <3>2. /\ l.left = ledger[a].left - Delay
          /\ x.at = "ready" /\ x.accepted = loop[a].accepted /\ x.seen = loop[a].seen
      BY <1>0 DEF Ledgers, Loops
    <3> HIDE DEF x, l
    <3>3. Timed(x, l)
      BY <1>0, <2>2, <3>2, RuntimeAssumption DEF Timed, Ledgers
    <3> QED
      BY <3>1, <3>3, ClockMoves DEF ClockInv
  <2> QED
    BY <2>1, <2>2
<1> QED
  BY <1>1, <1>2, <1>3

(* ClockInv is inductive beside the other parts. *)
LEMMA ClockStep ==
    ASSUME SpendInv, ClockInv, [RuntimeNext]_runtimeVars
    PROVE  ClockInv'
<1>1. CASE UNCHANGED runtimeVars
  BY <1>1 DEF runtimeVars, ClockInv, Timed
<1>2. CASE RuntimeNext
  BY <1>2, StagesKeepClock, RoundsKeepClock, CallsKeepClock DEF RuntimeNext
<1> QED
  BY <1>1, <1>2

(* An attempt only calls the provider while its deadline leaves time, its  *)
(* clock never runs below zero, and what its loop accepted was offered and *)
(* seen before, whatever the provider does (_HostedBudgetRunner.complete,  *)
(* _DeduplicatingBackend).                                                 *)
THEOREM RuntimeTypesKept == RuntimeInit /\ [][RuntimeNext]_runtimeVars => []RuntimeTypeOK
<1>1. RuntimeInit => SpendInv /\ ClockInv
  <2> SUFFICES ASSUME RuntimeInit PROVE ClockInv
    BY SpendStarts
  <2>1. NewLedger.left \in 0..Timeout
    BY RuntimeAssumption DEF NewLedger
  <2> QED
    BY <2>1 DEF RuntimeInit, ClockInv, Timed, Outcomes, NewLoop
<1>2. SpendInv /\ ClockInv /\ [RuntimeNext]_runtimeVars => SpendInv' /\ ClockInv'
  BY SpendStep, ClockStep
<1>3. SpendInv /\ ClockInv => RuntimeTypeOK
  BY AttemptIs DEF ClockInv, SpendInv, RuntimeTypeOK, Timed, Outcomes, Loops, LoopStages
<1> QED
  BY <1>1, <1>2, <1>3, PTL

-----------------------------------------------------------------------------
(***************************************************************************)
(* The inputs and checkpoints a worker reads (TrustedInputs), for any      *)
(* number of runs, trainings, releases and attempts.                       *)
(***************************************************************************)

Parents == {"idle", "asked", "authorized", "read", "waits", "adopts", "gone"}
Children == {"none", "spawned", "claimed", "loaded", "failed"}

(* What a run may name, and the bytes it may mean *)
Picks == Artifacts \cup {"none"} \cup {PromptsOf[r] : r \in Trainings}
Shas == Bytes \cup {NoBytes} \cup {PromptText(PromptsOf[r]) : r \in Trainings}

RunRows == [state : {"queued"} \cup Ended, picked : Picks, sha : Shas]
InputTries == [run : InputRuns \cup {"none"}, host : Hosts \cup {"none"}, parent : Parents,
          child : Children, read : Shas, age : Nat]
Folders == [state : {"none", "ready", "claimed"}, bytes : Shas, age : 0..OrphanAge + 1]

TypesHold ==
    /\ inputRun \in [InputRuns -> RunRows]
    /\ artifact \in [Artifacts -> {"absent", "active", "deleting", "purged"}]
    /\ object \in [Artifacts -> Shas]
    /\ release \in [Hosts -> Releases]
    /\ try \in [Attempts -> InputTries]
    /\ folder \in [Attempts -> Folders]

(* A generation that picked an adapter means what a succeeded training of  *)
(* its project made; every run means the bytes of the artifact it names.   *)
InputRunTrue(r) ==
    /\ inputRun[r].picked # "none" => inputRun[r].sha.by = inputRun[r].picked
    /\ r \in Generations /\ inputRun[r].picked # "none" =>
         /\ inputRun[r].picked \in Trainings
         /\ \E k \in Releases : inputRun[r].sha = Checkpoint(inputRun[r].picked, k)
         /\ inputRun[inputRun[r].picked].state = "succeeded"

(* The checkpoint of a training is what the training wrote. *)
CheckpointTrue(x) ==
    artifact[x] = "active" => \E k \in Releases : object[x] = Checkpoint(x, k)

Busy(t) == t.parent \notin {"idle", "gone"} \/ t.child # "none"

(* An attempt beyond the authorization of its parent *)
Entitled(t) == t.parent \in {"authorized", "read", "waits", "adopts"} \/ t.child # "none"

(* An attempt whose parent is t, with its child, and whose directory is f *)
TryTrue(t, f) ==
    /\ Busy(t) => /\ t.run \in InputRuns /\ t.host \in Hosts
                  /\ inputRun[t.run].picked # "none"
    /\ t.child # "none" => t.parent \in {"waits", "gone"}
    /\ Entitled(t) => /\ inputRun[t.run].picked \in Artifacts
                      /\ ProjectOf[inputRun[t.run].picked] = ProjectOf[t.run]
    /\ t.child = "loaded" =>
         /\ t.read = inputRun[t.run].sha
         /\ Kind(t.run) = "generate" => /\ t.read.adapter /\ t.read.pin = PinOf[t.run]
                                        /\ t.read.release = release[t.host]
    /\ t.parent = "waits" => f.state # "none" /\ f.age <= t.age
    /\ t.age <= Deadline

TrustedInv ==
    /\ TypesHold
    /\ \A r \in InputRuns : InputRunTrue(r)
    /\ \A x \in Trainings : CheckpointTrue(x)
    /\ \A a \in Attempts : TryTrue(try[a], folder[a])

-----------------------------------------------------------------------------
(* Rows of runs that stand where they stood, or went on *)
RunsKept ==
    /\ inputRun' \in [InputRuns -> RunRows]
    /\ \A r \in InputRuns :
          /\ inputRun'[r].picked = inputRun[r].picked /\ inputRun'[r].sha = inputRun[r].sha
          /\ inputRun[r].state = "succeeded" => inputRun'[r].state = "succeeded"

(* What a run means stays what it means. *)
LEMMA KeptRuns ==
    ASSUME TrustedInv, RunsKept
    PROVE  \A r \in InputRuns : InputRunTrue(r)'
<1> SUFFICES ASSUME NEW r \in InputRuns PROVE InputRunTrue(r)'
  OBVIOUS
<1>1. InputRunTrue(r)
  BY DEF TrustedInv
<1>2. Trainings \subseteq InputRuns
  BY DEF InputRuns
<1> QED
  BY <1>1, <1>2 DEF InputRunTrue, RunsKept

(* An attempt that nobody touches stays true. *)
LEMMA KeptTry ==
    ASSUME TrustedInv, RunsKept, NEW b \in Attempts, try'[b] = try[b], folder'[b] = folder[b],
           Busy(try[b]) => release'[try[b].host] = release[try[b].host]
    PROVE  TryTrue(try[b], folder[b])'
<1>1. TryTrue(try[b], folder[b])
  BY DEF TrustedInv
<1> QED
  BY <1>1 DEF TryTrue, Busy, Entitled, RunsKept

(* One attempt moves on. *)
LEMMA AttemptSteps ==
    ASSUME TrustedInv, RunsKept, NEW a \in Attempts, NEW t \in InputTries, NEW f \in Folders,
           try' = [try EXCEPT ![a] = t], folder' = [folder EXCEPT ![a] = f],
           TryTrue(t, f), release' = release,
           artifact' \in [Artifacts -> {"absent", "active", "deleting", "purged"}],
           object' \in [Artifacts -> Shas],
           \A x \in Trainings : CheckpointTrue(x)'
    PROVE  TrustedInv'
<1>1. TypesHold'
  BY DEF TrustedInv, TypesHold, RunsKept
<1>2. ASSUME NEW b \in Attempts PROVE TryTrue(try[b], folder[b])'
  <2>1. CASE b = a
    <3>1. try'[b] = t /\ folder'[b] = f
      BY <2>1 DEF TrustedInv, TypesHold
    <3> QED
      BY <3>1 DEF TryTrue, Busy, Entitled, RunsKept
  <2>2. CASE b # a
    <3>1. try'[b] = try[b] /\ folder'[b] = folder[b]
      BY <2>2 DEF TrustedInv, TypesHold
    <3> QED
      BY <3>1, KeptTry
  <2> QED
    BY <2>1, <2>2
<1> QED
  BY <1>1, <1>2, KeptRuns DEF TrustedInv

(* Artifacts that nobody touches *)
LEMMA SameArtifacts ==
    ASSUME TrustedInv, UNCHANGED <<artifact, object>>
    PROVE  /\ artifact' \in [Artifacts -> {"absent", "active", "deleting", "purged"}]
           /\ object' \in [Artifacts -> Shas]
           /\ \A x \in Trainings : CheckpointTrue(x)'
BY DEF TrustedInv, TypesHold, CheckpointTrue

(* The rows of runs are untouched. *)
LEMMA SameRuns ==
    ASSUME TrustedInv, inputRun' = inputRun
    PROVE  RunsKept
BY DEF TrustedInv, TypesHold, RunsKept

(* The ages a directory may have *)
LEMMA FolderAges ==
    /\ 0 \in 0..OrphanAge + 1 /\ OrphanAge \in Nat
    /\ \A n \in 0..OrphanAge + 1 : n \in Nat /\ (n <= OrphanAge => n + 1 \in 0..OrphanAge + 1)
BY TrustedAssumption

(* What an attempt is *)
LEMMA TryIs ==
    ASSUME TrustedInv, NEW a \in Attempts
    PROVE  /\ try[a] \in InputTries /\ folder[a] \in Folders /\ TryTrue(try[a], folder[a])
           /\ Busy(try[a]) => inputRun[try[a].run] \in RunRows /\ InputRunTrue(try[a].run)
BY DEF TrustedInv, TypesHold, TryTrue

(* The record an attempt is left with *)
LEMMA GoneTry ==
    /\ [IdleTry EXCEPT !.parent = "gone"] \in InputTries
    /\ \A f : TryTrue([IdleTry EXCEPT !.parent = "gone"], f)
<1> DEFINE t == [IdleTry EXCEPT !.parent = "gone"]
<1>1. t \in InputTries
  BY DEF IdleTry, InputTries, Parents, Children, Shas
<1>2. t.parent = "gone" /\ t.child = "none" /\ t.age = 0
  BY DEF IdleTry
<1> HIDE DEF t
<1>3. \A f : TryTrue(t, f)
  BY <1>2, TrustedAssumption DEF TryTrue, Busy, Entitled
<1> QED
  BY <1>1, <1>3 DEF t

(* An attempt is given up, and its run perhaps with it. *)
LEMMA GiveUpKeeps ==
    ASSUME TrustedInv, NEW a \in Attempts, NEW retryable, GiveUp(a, retryable), Busy(try[a]),
           NEW f \in Folders, folder' = [folder EXCEPT ![a] = f],
           UNCHANGED <<artifact, object, release>>
    PROVE  TrustedInv'
<1>1. try[a].run \in InputRuns
  BY TryIs DEF TryTrue
<1>2. RunsKept
  BY <1>1 DEF GiveUp, RunsKept, TrustedInv, TypesHold, RunRows, Ended
<1>3. try' = [try EXCEPT ![a] = [IdleTry EXCEPT !.parent = "gone"]]
  BY DEF GiveUp
<1> QED
  BY <1>2, <1>3, GoneTry, SameArtifacts, AttemptSteps

-----------------------------------------------------------------------------
(* A generation means the bytes its artifact has when it is picked. *)
LEMMA PickKeeps ==
    ASSUME TrustedInv, NEW r \in InputRuns, Pick(r)
    PROVE  TrustedInv'
<1>1. /\ r \in Generations /\ inputRun[r].picked = "none"
      /\ UNCHANGED <<artifact, object, release, try, folder>>
  BY DEF Pick
<1>2. PICK x \in Artifacts :
         /\ artifact[x] = "active" /\ x \in Trainings /\ inputRun[x].state = "succeeded"
         /\ inputRun' = [inputRun EXCEPT ![r].picked = x, ![r].sha = object[x]]
  BY DEF Pick, Submittable
<1> DEFINE row == [inputRun[r] EXCEPT !.picked = x, !.sha = object[x]]
<1>3. inputRun[r] \in RunRows /\ object[x] \in Shas /\ x \in Picks
  BY DEF TrustedInv, TypesHold, Picks
<1>4. row \in RunRows /\ row.picked = x /\ row.sha = object[x] /\ row.state = inputRun[r].state
  BY <1>3 DEF RunRows
<1>5. inputRun' = [inputRun EXCEPT ![r] = row]
  BY <1>2
<1> HIDE DEF row
<1>6. /\ inputRun' \in [InputRuns -> RunRows] /\ inputRun'[r] = row
      /\ \A q \in InputRuns : q # r => inputRun'[q] = inputRun[q]
      /\ \A q \in InputRuns : inputRun'[q].state = inputRun[q].state
  BY <1>4, <1>5 DEF TrustedInv, TypesHold
<1>7. TypesHold'
  BY <1>1, <1>6 DEF TrustedInv, TypesHold
<1>8. Trainings \subseteq InputRuns /\ r \notin Trainings
  BY <1>1, TrustedAssumption DEF InputRuns
<1>9. PICK k \in Releases : object[x] = Checkpoint(x, k)
  BY <1>2 DEF TrustedInv, CheckpointTrue
<1>10. Checkpoint(x, k).by = x
  BY DEF Checkpoint
<1>11. ASSUME NEW q \in InputRuns PROVE InputRunTrue(q)'
  <2>1. CASE q = r
    BY <1>2, <1>4, <1>6, <1>8, <1>9, <1>10, <2>1 DEF InputRunTrue
  <2>2. CASE q # r
    <3>1. InputRunTrue(q)
      BY DEF TrustedInv
    <3>2. inputRun'[q] = inputRun[q] /\ \A y \in Trainings : inputRun'[y].state = inputRun[y].state
      BY <1>6, <1>8, <2>2
    <3> QED
      BY <3>1, <3>2 DEF InputRunTrue
  <2> QED
    BY <2>1, <2>2
<1>12. ASSUME NEW b \in Attempts PROVE TryTrue(try[b], folder[b])'
  <2>1. TryTrue(try[b], folder[b])
    BY DEF TrustedInv
  <2>2. Busy(try[b]) => try[b].run \in InputRuns /\ try[b].run # r
    BY <1>1, <2>1 DEF TryTrue
  <2>3. Busy(try[b]) => inputRun'[try[b].run] = inputRun[try[b].run]
    BY <1>6, <2>2
  <2> QED
    BY <1>1, <2>1, <2>3 DEF TryTrue, Busy, Entitled
<1>13. \A y \in Trainings : CheckpointTrue(y)'
  BY <1>1, SameArtifacts
<1> QED
  BY <1>7, <1>11, <1>12, <1>13 DEF TrustedInv

(* A deleted artifact is no longer offered. *)
LEMMA DeletionKeeps ==
    ASSUME TrustedInv, NEW x \in Artifacts, DeleteArtifact(x) \/ PurgeArtifact(x)
    PROVE  TrustedInv'
<1>1. UNCHANGED <<inputRun, release, try, folder>>
  BY DEF DeleteArtifact, PurgeArtifact
<1>2. artifact' \in [Artifacts -> {"absent", "active", "deleting", "purged"}]
  BY DEF DeleteArtifact, PurgeArtifact, TrustedInv, TypesHold
<1>3. object' \in [Artifacts -> Shas]
  BY DEF DeleteArtifact, PurgeArtifact, TrustedInv, TypesHold, Shas
<1>4. ASSUME NEW y \in Trainings PROVE CheckpointTrue(y)'
  <2>1. y \in Artifacts /\ CheckpointTrue(y)
    BY DEF Artifacts, TrustedInv
  <2>2. artifact'[y] = "active" => artifact[y] = "active" /\ y # x
    BY <2>1 DEF DeleteArtifact, PurgeArtifact, TrustedInv, TypesHold
  <2>3. y # x => object'[y] = object[y]
    BY <2>1 DEF DeleteArtifact, PurgeArtifact, TrustedInv, TypesHold
  <2> QED
    BY <2>1, <2>2, <2>3 DEF CheckpointTrue
<1>5. \A r \in InputRuns : InputRunTrue(r)'
  BY <1>1, SameRuns, KeptRuns
<1>6. \A b \in Attempts : TryTrue(try[b], folder[b])'
  BY <1>1, SameRuns, KeptTry
<1> QED
  BY <1>1, <1>2, <1>3, <1>4, <1>5, <1>6 DEF TrustedInv, TypesHold

-----------------------------------------------------------------------------
(* The parent *)

(* An attempt begins for a run that has named its artifact. *)
LEMMA BeginTryKeeps ==
    ASSUME TrustedInv, NEW a \in Attempts, NEW r \in InputRuns, NEW h \in Hosts, BeginTry(a, r, h)
    PROVE  TrustedInv'
<1> DEFINE t == [IdleTry EXCEPT !.run = r, !.host = h, !.parent = "asked"]
<1>1. /\ inputRun[r].picked # "none" /\ try' = [try EXCEPT ![a] = t]
      /\ UNCHANGED <<inputRun, artifact, object, release>> /\ folder' = [folder EXCEPT ![a] = folder[a]]
  BY DEF BeginTry, TrustedInv, TypesHold
<1>2. t \in InputTries
  BY DEF IdleTry, InputTries, Parents, Children, Shas
<1>3. t.run = r /\ t.host = h /\ t.parent = "asked" /\ t.child = "none" /\ t.age = 0
  BY DEF IdleTry
<1> HIDE DEF t
<1>4. TryTrue(t, folder[a])
  BY <1>1, <1>3, TrustedAssumption DEF TryTrue, Busy, Entitled
<1>5. RunsKept
  BY <1>1, SameRuns
<1>6. folder[a] \in Folders
  BY TryIs
<1> QED
  BY <1>1, <1>2, <1>4, <1>5, <1>6, SameArtifacts, AttemptSteps

(* An authorized artifact is one of the run's own project. *)
LEMMA AuthorizeKeeps ==
    ASSUME TrustedInv, NEW a \in Attempts, Authorize(a)
    PROVE  TrustedInv'
<1>1. /\ try[a].parent = "asked" /\ UNCHANGED <<artifact, object, release>>
      /\ folder' = [folder EXCEPT ![a] = folder[a]]
  BY DEF Authorize, TrustedInv, TypesHold
<1>2. Busy(try[a]) /\ folder[a] \in Folders
  BY <1>1, TryIs DEF Busy
<1>3. CASE GiveUp(a, FALSE)
  BY <1>1, <1>2, <1>3, GiveUpKeeps
<1>4. CASE /\ ArtifactAuthorized(try[a].run, inputRun[try[a].run].picked)
           /\ try' = [try EXCEPT ![a].parent = "authorized"] /\ UNCHANGED inputRun
  <2> DEFINE t == [try[a] EXCEPT !.parent = "authorized"]
  <2>1. try' = [try EXCEPT ![a] = t]
    BY <1>4
  <2>2. t \in InputTries
    BY TryIs DEF InputTries, Parents
  <2>3. /\ t.run = try[a].run /\ t.host = try[a].host /\ t.parent = "authorized"
        /\ t.child = try[a].child /\ t.age = try[a].age /\ t.read = try[a].read
    BY TryIs DEF InputTries
  <2> HIDE DEF t
  <2>4. /\ inputRun[t.run].picked \in Artifacts
        /\ ProjectOf[inputRun[t.run].picked] = ProjectOf[t.run]
    BY <1>4, <2>3 DEF ArtifactAuthorized, Artifacts
  <2>5. TryTrue(t, folder[a])
    BY <1>1, <1>2, <2>3, <2>4, TryIs DEF TryTrue, Busy, Entitled
  <2> QED
    BY <1>1, <1>2, <1>4, <2>1, <2>2, <2>5, SameRuns, SameArtifacts, AttemptSteps
<1> QED
  BY <1>3, <1>4 DEF Authorize

(* What is read is what the store holds. *)
LEMMA ReadObjectKeeps ==
    ASSUME TrustedInv, NEW a \in Attempts, ReadObject(a)
    PROVE  TrustedInv'
<1> DEFINE bytes == object[inputRun[try[a].run].picked]
<1>1. /\ try[a].parent = "authorized" /\ UNCHANGED <<artifact, object, release>>
      /\ folder' = [folder EXCEPT ![a] = folder[a]]
  BY DEF ReadObject, TrustedInv, TypesHold
<1>2. Busy(try[a]) /\ Entitled(try[a]) /\ folder[a] \in Folders
  BY <1>1, TryIs DEF Busy, Entitled
<1>3. CASE GiveUp(a, TRUE)
  BY <1>1, <1>2, <1>3, GiveUpKeeps
<1>4. CASE try' = [try EXCEPT ![a].parent = "read", ![a].read = bytes] /\ UNCHANGED inputRun
  <2> DEFINE t == [try[a] EXCEPT !.parent = "read", !.read = bytes]
  <2>1. try' = [try EXCEPT ![a] = t]
    BY <1>4
  <2>2. bytes \in Shas
    BY <1>2, TryIs DEF TryTrue, TrustedInv, TypesHold
  <2> HIDE DEF bytes
  <2>3. t \in InputTries
    BY <2>2, TryIs DEF InputTries, Parents
  <2>4. /\ t.run = try[a].run /\ t.host = try[a].host /\ t.parent = "read"
        /\ t.child = try[a].child /\ t.age = try[a].age
    BY TryIs DEF InputTries
  <2> HIDE DEF t
  <2>5. try[a].child = "none"
    BY <1>1, TryIs DEF TryTrue
  <2>6. TryTrue(t, folder[a])
    BY <1>1, <1>2, <2>4, <2>5, TryIs DEF TryTrue, Busy, Entitled
  <2> QED
    BY <1>1, <1>2, <1>4, <2>1, <2>3, <2>6, SameRuns, SameArtifacts, AttemptSteps
<1> QED
  BY <1>3, <1>4 DEF ReadObject

(* The directory is there before the child. *)
LEMMA MaterializeKeeps ==
    ASSUME TrustedInv, NEW a \in Attempts, Materialize(a)
    PROVE  TrustedInv'
<1>1. try[a].parent = "read" /\ UNCHANGED <<artifact, object, release>>
  BY DEF Materialize
<1>2. Busy(try[a]) /\ Entitled(try[a]) /\ folder[a] \in Folders
  BY <1>1, TryIs DEF Busy, Entitled
<1>3. CASE GiveUp(a, FALSE) /\ UNCHANGED folder
  <2>1. folder' = [folder EXCEPT ![a] = folder[a]]
    BY <1>3 DEF TrustedInv, TypesHold
  <2> QED
    BY <1>1, <1>2, <1>3, <2>1, GiveUpKeeps
<1>4. CASE /\ folder' = [folder EXCEPT ![a] = [state |-> "ready", bytes |-> try[a].read, age |-> 0]]
           /\ try' = [try EXCEPT ![a].parent = "waits", ![a].child = "spawned",
                                 ![a].read = NoBytes]
           /\ UNCHANGED inputRun
  <2> DEFINE t == [try[a] EXCEPT !.parent = "waits", !.child = "spawned", !.read = NoBytes]
             f == [state |-> "ready", bytes |-> try[a].read, age |-> 0]
  <2>1. try' = [try EXCEPT ![a] = t] /\ folder' = [folder EXCEPT ![a] = f]
    BY <1>4
  <2>2. t \in InputTries /\ f \in Folders
    BY TryIs, FolderAges DEF InputTries, Folders, Parents, Children, Shas
  <2>3. /\ t.run = try[a].run /\ t.host = try[a].host /\ t.parent = "waits"
        /\ t.child = "spawned" /\ t.age = try[a].age /\ f.state = "ready" /\ f.age = 0
        /\ t.age >= 0
    BY TryIs DEF InputTries
  <2> HIDE DEF t, f
  <2>4. TryTrue(t, f)
    BY <1>1, <1>2, <2>3, TryIs DEF TryTrue, Busy, Entitled
  <2> QED
    BY <1>1, <1>4, <2>1, <2>2, <2>4, SameRuns, SameArtifacts, AttemptSteps
<1> QED
  BY <1>3, <1>4 DEF Materialize

(* The directory goes when the parent no longer waits. *)
LEMMA LeaveInputsKeeps ==
    ASSUME TrustedInv, NEW a \in Attempts, LeaveInputs(a)
    PROVE  TrustedInv'
<1>1. /\ try[a].parent = "waits" /\ UNCHANGED <<artifact, object, release>>
      /\ folder' = [folder EXCEPT ![a] = NoFolder]
  BY DEF LeaveInputs, Removed
<1>2. Busy(try[a]) /\ Entitled(try[a]) /\ NoFolder \in Folders
  BY <1>1, TryIs, FolderAges DEF Busy, Entitled, NoFolder, Folders, Shas
<1>3. CASE GiveUp(a, FALSE)
  BY <1>1, <1>2, <1>3, GiveUpKeeps
<1>4. CASE /\ try' = [try EXCEPT ![a].parent = "adopts", ![a].child = "none", ![a].read = NoBytes]
           /\ UNCHANGED inputRun
  <2> DEFINE t == [try[a] EXCEPT !.parent = "adopts", !.child = "none", !.read = NoBytes]
  <2>1. try' = [try EXCEPT ![a] = t]
    BY <1>4
  <2>2. t \in InputTries
    BY TryIs DEF InputTries, Parents, Children, Shas
  <2>3. /\ t.run = try[a].run /\ t.host = try[a].host /\ t.parent = "adopts"
        /\ t.child = "none" /\ t.age = try[a].age
    BY TryIs DEF InputTries
  <2> HIDE DEF t
  <2>4. TryTrue(t, NoFolder)
    BY <1>1, <1>2, <2>3, TryIs DEF TryTrue, Busy, Entitled
  <2> QED
    BY <1>1, <1>2, <1>4, <2>1, <2>2, <2>4, SameRuns, SameArtifacts, AttemptSteps
<1>5. CASE try' = [try EXCEPT ![a].parent = "gone"] /\ UNCHANGED inputRun
  <2> DEFINE t == [try[a] EXCEPT !.parent = "gone"]
  <2>1. try' = [try EXCEPT ![a] = t]
    BY <1>5
  <2>2. t \in InputTries
    BY TryIs DEF InputTries, Parents
  <2>3. /\ t.run = try[a].run /\ t.host = try[a].host /\ t.parent = "gone"
        /\ t.child = try[a].child /\ t.age = try[a].age /\ t.read = try[a].read
    BY TryIs DEF InputTries
  <2> HIDE DEF t
  <2>4. TryTrue(t, NoFolder)
    BY <1>1, <1>2, <2>3, TryIs DEF TryTrue, Busy, Entitled
  <2> QED
    BY <1>1, <1>2, <1>5, <2>1, <2>2, <2>4, SameRuns, SameArtifacts, AttemptSteps
<1> QED
  BY <1>3, <1>4, <1>5 DEF LeaveInputs

(* A training's artifact is the checkpoint of its host's release. *)
LEMMA AdoptKeeps ==
    ASSUME TrustedInv, NEW a \in Attempts, Adopt(a)
    PROVE  TrustedInv'
<1> DEFINE r == try[a].run
           t == [IdleTry EXCEPT !.parent = "gone"]
<1>1. /\ try[a].parent = "adopts" /\ try' = [try EXCEPT ![a] = t]
      /\ folder' = [folder EXCEPT ![a] = folder[a]] /\ release' = release
  BY DEF Adopt, TrustedInv, TypesHold
<1>2. r \in InputRuns /\ try[a].host \in Hosts /\ folder[a] \in Folders
  BY <1>1, TryIs DEF Busy, TryTrue
<1>3. RunsKept
  BY <1>2 DEF Adopt, RunsKept, TrustedInv, TypesHold, RunRows, Ended
<1>4. /\ artifact' \in [Artifacts -> {"absent", "active", "deleting", "purged"}]
      /\ object' \in [Artifacts -> Shas]
      /\ \A x \in Trainings : CheckpointTrue(x)'
  <2>1. CASE UNCHANGED <<artifact, object>>
    BY <2>1, SameArtifacts
  <2>2. CASE /\ Kind(r) = "train" /\ artifact' = [artifact EXCEPT ![r] = "active"]
             /\ object' = [object EXCEPT ![r] = Checkpoint(r, release[try[a].host])]
    <3>1. r \in Trainings /\ r \in Artifacts /\ release[try[a].host] \in Releases
      BY <1>2, <2>2 DEF Kind, Artifacts, TrustedInv, TypesHold
    <3>2. Checkpoint(r, release[try[a].host]) \in Shas
      BY <3>1 DEF Shas, Bytes
    <3>3. ASSUME NEW x \in Trainings PROVE CheckpointTrue(x)'
      <4>1. x \in Artifacts /\ CheckpointTrue(x)
        BY DEF Artifacts, TrustedInv
      <4>2. CASE x = r
        <5>1. object'[x] = Checkpoint(x, release[try[a].host])
          BY <2>2, <4>1, <4>2 DEF TrustedInv, TypesHold
        <5> QED
          BY <3>1, <5>1 DEF CheckpointTrue
      <4>3. CASE x # r
        <5>1. object'[x] = object[x] /\ artifact'[x] = artifact[x]
          BY <2>2, <4>1, <4>3 DEF TrustedInv, TypesHold
        <5> QED
          BY <4>1, <5>1 DEF CheckpointTrue
      <4> QED
        BY <4>2, <4>3
    <3> QED
      BY <2>2, <3>1, <3>2, <3>3 DEF TrustedInv, TypesHold
  <2> QED
    BY <2>1, <2>2 DEF Adopt
<1>5. t \in InputTries /\ TryTrue(t, folder[a])
  BY GoneTry
<1> HIDE DEF t
<1> QED
  BY <1>1, <1>2, <1>3, <1>4, <1>5, AttemptSteps

-----------------------------------------------------------------------------
(* The child *)

(* A claimed directory is as good as new. *)
LEMMA ClaimKeeps ==
    ASSUME TrustedInv, NEW a \in Attempts, Claim(a)
    PROVE  TrustedInv'
<1>1. try[a].child = "spawned" /\ UNCHANGED <<inputRun, artifact, object, release>>
  BY DEF Claim
<1>2. ASSUME NEW at \in {"claimed", "failed"}, NEW f \in Folders,
             try' = [try EXCEPT ![a].child = at], folder' = [folder EXCEPT ![a] = f],
             try[a].parent = "waits" => f.state # "none" /\ f.age <= try[a].age
      PROVE  TrustedInv'
  <2> DEFINE t == [try[a] EXCEPT !.child = at]
  <2>1. try' = [try EXCEPT ![a] = t]
    BY <1>2
  <2>2. t \in InputTries
    BY TryIs DEF InputTries, Children
  <2>3. /\ t.run = try[a].run /\ t.host = try[a].host /\ t.parent = try[a].parent
        /\ t.child = at /\ t.age = try[a].age
    BY TryIs DEF InputTries
  <2> HIDE DEF t
  <2>4. TryTrue(t, f)
    BY <1>1, <1>2, <2>3, TryIs DEF TryTrue, Busy, Entitled
  <2> QED
    BY <1>1, <1>2, <2>1, <2>2, <2>4, SameRuns, SameArtifacts, AttemptSteps
<1>3. CASE folder' = [folder EXCEPT ![a].state = "claimed", ![a].age = 0] /\ ChildTo(a, "claimed")
  <2> DEFINE f == [folder[a] EXCEPT !.state = "claimed", !.age = 0]
  <2>0. folder[a] \in Folders /\ try[a].age \in Nat
    BY TryIs DEF InputTries
  <2>1. f \in Folders /\ f.state = "claimed" /\ f.age = 0 /\ try[a].age >= 0
    <3>1. ASSUME NEW x \in Folders
          PROVE  LET g == [x EXCEPT !.state = "claimed", !.age = 0]
                 IN  g \in Folders /\ g.state = "claimed" /\ g.age = 0
      BY FolderAges DEF Folders
    <3>2. try[a].age >= 0
      BY <2>0
    <3> QED
      BY <2>0, <3>1, <3>2
  <2>2. folder' = [folder EXCEPT ![a] = f]
    BY <1>3
  <2> HIDE DEF f
  <2> QED
    BY <1>2, <1>3, <2>1, <2>2 DEF ChildTo
<1>4. CASE ChildTo(a, "failed") /\ UNCHANGED folder
  <2>1. folder' = [folder EXCEPT ![a] = folder[a]]
    BY <1>4 DEF TrustedInv, TypesHold
  <2>2. folder[a] \in Folders /\ (try[a].parent = "waits" => folder[a].state # "none" /\ folder[a].age <= try[a].age)
    BY TryIs DEF TryTrue
  <2> QED
    BY <1>2, <1>4, <2>1, <2>2 DEF ChildTo
<1> QED
  BY <1>3, <1>4 DEF Claim

(* What is loaded was compared with what the request named. *)
LEMMA LoadKeeps ==
    ASSUME TrustedInv, NEW a \in Attempts, Load(a)
    PROVE  TrustedInv'
<1>1. /\ try[a].child = "claimed" /\ UNCHANGED <<inputRun, artifact, object, release>>
      /\ folder' = [folder EXCEPT ![a] = folder[a]]
  BY DEF Load, TrustedInv, TypesHold
<1> DEFINE r == try[a].run
           good == /\ folder[a].state = "claimed" /\ folder[a].bytes = inputRun[r].sha
                   /\ Kind(r) = "generate" =>
                        PinOf[r] \in Policy(try[a].host)
                        /\ Fits(folder[a].bytes, PinOf[r], try[a].host)
           at == IF good THEN "loaded" ELSE "failed"
           bytes == IF good THEN folder[a].bytes ELSE NoBytes
           t == [try[a] EXCEPT !.child = at, !.read = bytes]
<1>2. try' = [try EXCEPT ![a] = t]
  BY DEF Load
<1>3. /\ at \in {"loaded", "failed"} /\ bytes \in Shas
      /\ at = "loaded" =>
           /\ bytes = inputRun[r].sha
           /\ Kind(r) = "generate" => /\ bytes.adapter /\ bytes.pin = PinOf[r]
                                      /\ bytes.release = release[try[a].host]
  BY TryIs DEF Folders, Fits, Shas
<1> HIDE DEF good, at, bytes
<1>4. t \in InputTries
  BY <1>3, TryIs DEF InputTries, Children
<1>5. /\ t.run = try[a].run /\ t.host = try[a].host /\ t.parent = try[a].parent
      /\ t.child = at /\ t.age = try[a].age /\ t.read = bytes
  BY TryIs DEF InputTries
<1> HIDE DEF t
<1>6. TryTrue(t, folder[a])
  BY <1>1, <1>3, <1>5, TryIs DEF TryTrue, Busy, Entitled
<1>7. folder[a] \in Folders
  BY TryIs
<1> QED
  BY <1>1, <1>2, <1>4, <1>6, <1>7, SameRuns, SameArtifacts, AttemptSteps

(* A child without a parent ends. *)
LEMMA ChildKilledKeeps ==
    ASSUME TrustedInv, NEW a \in Attempts, ChildKilled(a)
    PROVE  TrustedInv'
<1>1. /\ UNCHANGED <<inputRun, artifact, object, release>>
      /\ folder' = [folder EXCEPT ![a] = folder[a]] /\ folder[a] \in Folders
      /\ try' = [try EXCEPT ![a] = [IdleTry EXCEPT !.parent = "gone"]]
  BY TryIs DEF ChildKilled, TrustedInv, TypesHold
<1> QED
  BY <1>1, GoneTry, SameRuns, SameArtifacts, AttemptSteps

-----------------------------------------------------------------------------
(* Hosts and time *)

(* A worker that starts again takes its attempts with it, and no directory *)
(* of another.                                                             *)
LEMMA RestartKeeps ==
    ASSUME TrustedInv, NEW h \in Hosts, NEW r \in Releases, Restart(h, r)
    PROVE  TrustedInv'
<1> DEFINE gone == [IdleTry EXCEPT !.parent = "gone"]
<1>1. /\ release' = [release EXCEPT ![h] = r] /\ UNCHANGED <<inputRun, artifact, object>>
      /\ try' = [a \in Attempts |-> IF Dies(h, a) THEN gone ELSE try[a]]
      /\ folder' = [a \in Attempts |-> IF Orphaned(a) THEN NoFolder ELSE folder[a]]
  BY DEF Restart
<1>2. gone \in InputTries /\ NoFolder \in Folders /\ \A f : TryTrue(gone, f)
  BY GoneTry, FolderAges DEF NoFolder, Folders, Shas
<1> HIDE DEF gone
<1>3. TypesHold'
  BY <1>1, <1>2 DEF TrustedInv, TypesHold
<1>4. RunsKept
  BY <1>1, SameRuns
<1>5. ASSUME NEW b \in Attempts PROVE TryTrue(try[b], folder[b])'
  <2>1. CASE Dies(h, b)
    <3>1. try'[b] = gone /\ TryTrue(gone, folder[b]) /\ gone.parent = "gone" /\ gone.child = "none"
      BY <1>1, <1>2, <2>1 DEF gone, IdleTry
    <3> QED
      BY <3>1 DEF TryTrue, Busy, Entitled
  <2>2. CASE ~Dies(h, b)
    <3>1. try'[b] = try[b] /\ TryTrue(try[b], folder[b])
      BY <1>1, <2>2 DEF TrustedInv
    <3>2. Busy(try[b]) => try[b].parent # "idle"
      BY <3>1 DEF TryTrue, Busy
    <3>3. Busy(try[b]) => try[b].host \in Hosts /\ try[b].host # h
      BY <2>2, <3>1, <3>2 DEF TryTrue, Dies
    <3>4. Busy(try[b]) => release'[try[b].host] = release[try[b].host]
      BY <1>1, <3>3 DEF TrustedInv, TypesHold
    <3>5. try[b].parent = "waits" => folder'[b] = folder[b]
      BY <1>1, <3>1, TryIs, TrustedAssumption DEF TryTrue, Orphaned, InputTries, Folders
    <3> QED
      BY <1>4, <3>1, <3>4, <3>5 DEF TryTrue, Busy, Entitled, RunsKept
  <2> QED
    BY <2>1, <2>2
<1> QED
  BY <1>1, <1>3, <1>4, <1>5, KeptRuns, SameArtifacts DEF TrustedInv

(* A directory is never older than the attempt that waits beside it. *)
LEMMA TickKeeps ==
    ASSUME TrustedInv, Tick
    PROVE  TrustedInv'
<1>1. /\ UNCHANGED <<inputRun, artifact, object, release>>
      /\ \A a \in Attempts : TryLive(a) => try[a].age < Deadline
      /\ try' = [a \in Attempts |-> IF TryLive(a) THEN [try[a] EXCEPT !.age = @ + 1] ELSE try[a]]
      /\ folder' = [a \in Attempts |->
           IF Ageing(a) THEN [folder[a] EXCEPT !.age = @ + 1] ELSE folder[a]]
  BY DEF Tick
<1>2. ASSUME NEW b \in Attempts
      PROVE  /\ try'[b] \in InputTries /\ folder'[b] \in Folders
             /\ try'[b].run = try[b].run /\ try'[b].host = try[b].host
             /\ try'[b].parent = try[b].parent /\ try'[b].child = try[b].child
             /\ try'[b].read = try[b].read /\ folder'[b].state = folder[b].state
             /\ try'[b].age = IF TryLive(b) THEN try[b].age + 1 ELSE try[b].age
             /\ folder'[b].age \in {folder[b].age, folder[b].age + 1}
  <2>1. /\ try'[b] = IF TryLive(b) THEN [try[b] EXCEPT !.age = @ + 1] ELSE try[b]
        /\ folder'[b] = IF Ageing(b) THEN [folder[b] EXCEPT !.age = @ + 1] ELSE folder[b]
    BY <1>1
  <2>2. /\ try[b] \in InputTries /\ folder[b] \in Folders /\ try[b].age + 1 \in Nat
        /\ Ageing(b) => folder[b].age + 1 \in 0..OrphanAge + 1
    BY TryIs, FolderAges DEF InputTries, Folders, Ageing
  <2> QED
    BY <2>1, <2>2 DEF InputTries, Folders
<1>3. TypesHold'
  BY <1>1, <1>2 DEF TrustedInv, TypesHold
<1>4. RunsKept
  BY <1>1, SameRuns
<1>5. ASSUME NEW b \in Attempts PROVE TryTrue(try[b], folder[b])'
  <2>1. /\ TryTrue(try[b], folder[b]) /\ try[b].age \in Nat /\ folder[b].age \in Nat
        /\ TryLive(b) => try[b].age < Deadline
    BY <1>1, TryIs DEF InputTries, Folders
  <2>2. try'[b].age <= Deadline
    BY <1>2, <2>1, TrustedAssumption DEF TryTrue
  <2>3. try[b].parent = "waits" => TryLive(b)
    BY DEF TryLive
  <2>4. try[b].parent = "waits" => folder'[b].state # "none" /\ folder'[b].age <= try'[b].age
    BY <1>2, <2>1, <2>3 DEF TryTrue
  <2> QED
    BY <1>1, <1>2, <1>4, <2>1, <2>2, <2>4 DEF TryTrue, Busy, Entitled
<1> QED
  BY <1>1, <1>3, <1>4, <1>5, KeptRuns, SameArtifacts DEF TrustedInv

-----------------------------------------------------------------------------
(* The trainings of earlier releases *)
LEMMA TrustedStarts ==
    ASSUME TrustedInit
    PROVE  TrustedInv
<1>1. /\ 1 \in Releases /\ Earlier \subseteq Trainings /\ Trainings \subseteq InputRuns
      /\ \A r \in Generations : r \notin Trainings
      /\ \A p \in Prompts : p \notin Trainings
      /\ Deadline \in Nat
  BY TrustedAssumption DEF InputRuns
<1>2. IdleTry \in InputTries /\ NoFolder \in Folders /\ NoBytes \in Shas
  BY FolderAges DEF IdleTry, NoFolder, InputTries, Folders, Parents, Children, Shas
<1>3. /\ \A x \in Prompts : PromptText(x) \in Shas
      /\ \A x \in Earlier : Checkpoint(x, 1) \in Shas
      /\ \A r \in Trainings : PromptText(PromptsOf[r]) \in Shas /\ PromptsOf[r] \in Picks
      /\ "none" \in Picks
  BY <1>1 DEF Shas, Bytes, Picks
<1>4. inputRun \in [InputRuns -> RunRows]
  BY <1>2, <1>3 DEF TrustedInit, RunRows, Ended
<1>5. TypesHold
  <2>1. object \in [Artifacts -> Shas]
    BY <1>2, <1>3 DEF TrustedInit
  <2> QED
    BY <1>1, <1>2, <1>4, <2>1 DEF TrustedInit, TypesHold
<1>6. ASSUME NEW r \in InputRuns PROVE InputRunTrue(r)
  <2>1. \A p : PromptText(p).by = p
    BY DEF PromptText
  <2>2. CASE r \in Trainings
    BY <1>1, <2>1, <2>2 DEF TrustedInit, InputRunTrue
  <2>3. CASE r \notin Trainings
    BY <2>3 DEF TrustedInit, InputRunTrue
  <2> QED
    BY <2>2, <2>3
<1>7. ASSUME NEW x \in Trainings PROVE CheckpointTrue(x)
  <2>1. x \in Artifacts /\ x \notin Prompts
    BY <1>1 DEF Artifacts
  <2>2. artifact[x] = "active" => x \in Earlier
    BY <2>1 DEF TrustedInit
  <2>3. x \in Earlier => object[x] = Checkpoint(x, 1)
    BY <2>1 DEF TrustedInit
  <2> QED
    BY <1>1, <2>2, <2>3 DEF CheckpointTrue
<1>8. ASSUME NEW a \in Attempts PROVE TryTrue(try[a], folder[a])
  <2>1. try[a] = IdleTry
    BY DEF TrustedInit
  <2> QED
    BY <1>1, <2>1 DEF TryTrue, Busy, Entitled, IdleTry
<1> QED
  BY <1>5, <1>6, <1>7, <1>8 DEF TrustedInv

(* Every step keeps the invariant. *)
LEMMA TrustedStep ==
    ASSUME TrustedInv, [TrustedNext]_trustedVars
    PROVE  TrustedInv'
<1>1. CASE TrustedNext
  BY <1>1, PickKeeps, DeletionKeeps, BeginTryKeeps, AuthorizeKeeps, ReadObjectKeeps,
     MaterializeKeeps, LeaveInputsKeeps, AdoptKeeps, ClaimKeeps, LoadKeeps, ChildKilledKeeps,
     RestartKeeps, TickKeeps DEF TrustedNext
<1>2. CASE UNCHANGED trustedVars
  BY <1>2 DEF trustedVars, TrustedInv, TypesHold, InputRunTrue, CheckpointTrue, TryTrue, Busy, Entitled
<1> QED
  BY <1>1, <1>2

(* The invariant says what the inputs promise. *)
LEMMA InvInputsHold ==
    ASSUME TrustedInv
    PROVE  InputsHold
<1>1. ASSUME NEW a \in Attempts, try[a].child = "loaded"
      PROVE  /\ try[a].read = inputRun[try[a].run].sha
             /\ ProjectOf[try[a].read.by] = ProjectOf[try[a].run]
             /\ Kind(try[a].run) = "generate" =>
                  /\ try[a].read.by \in Peft /\ inputRun[try[a].read.by].state = "succeeded"
                  /\ try[a].read.pin = PinOf[try[a].run]
                  /\ try[a].read.release = release[try[a].host]
  <2> DEFINE r == try[a].run
  <2>1. TryTrue(try[a], folder[a]) /\ Busy(try[a]) /\ Entitled(try[a]) /\ InputRunTrue(r) /\ r \in InputRuns
    BY <1>1, TryIs DEF Busy, Entitled, TryTrue
  <2>2. /\ inputRun[r].picked # "none" /\ try[a].read = inputRun[r].sha
        /\ ProjectOf[inputRun[r].picked] = ProjectOf[r]
        /\ Kind(r) = "generate" => /\ try[a].read.adapter /\ try[a].read.pin = PinOf[r]
                                   /\ try[a].read.release = release[try[a].host]
    BY <1>1, <2>1 DEF TryTrue
  <2>3. try[a].read.by = inputRun[r].picked
    BY <2>1, <2>2 DEF InputRunTrue
  <2>4. Kind(r) = "generate" => inputRun[r].picked \in Peft /\ inputRun[inputRun[r].picked].state = "succeeded"
    <3>1. ASSUME Kind(r) = "generate"
          PROVE  inputRun[r].picked \in Peft /\ inputRun[inputRun[r].picked].state = "succeeded"
      <4>1. r \in Generations
        BY <2>1, <3>1 DEF Kind, InputRuns
      <4>2. PICK k \in Releases : inputRun[r].sha = Checkpoint(inputRun[r].picked, k)
        BY <2>1, <2>2, <4>1 DEF InputRunTrue
      <4>3. inputRun[inputRun[r].picked].state = "succeeded"
        BY <2>1, <2>2, <4>1 DEF InputRunTrue
      <4>4. Checkpoint(inputRun[r].picked, k).adapter = (inputRun[r].picked \in Peft)
        BY DEF Checkpoint
      <4> QED
        BY <2>2, <3>1, <4>2, <4>3, <4>4
    <3> QED
      BY <3>1
  <2> QED
    BY <2>2, <2>3, <2>4
<1>2. LiveInputsStay
  BY DEF TrustedInv, TryTrue, LiveInputsStay
<1> QED
  BY <1>1, <1>2 DEF InputsHold, AdapterFits

(* Whatever is deleted, killed, retried or upgraded meanwhile, what a run  *)
(* reads is what it was admitted for, from a succeeded training of its own *)
(* project, and no starting worker cleans away what an attempt still reads.*)
THEOREM InputsAlwaysHold ==
    TrustedInit /\ [][TrustedNext]_trustedVars => []InputsHold
<1>1. TrustedInit => TrustedInv
  BY TrustedStarts
<1>2. TrustedInv /\ [TrustedNext]_trustedVars => TrustedInv'
  BY TrustedStep
<1>3. TrustedInv => InputsHold
  BY InvInputsHold
<1> QED
  BY <1>1, <1>2, <1>3, PTL

-----------------------------------------------------------------------------
(* Types *)

(* A submission names an existing prompt set: what a run or an attempt     *)
(* means is always bytes somebody wrote.                                   *)
LEMMA ShasAreBytes == Shas = Bytes \cup {NoBytes} /\ Picks = Artifacts \cup {"none"}
<1>1. \A r \in Trainings : PromptsOf[r] \in Prompts
  BY TrustedAssumption
<1>2. \A r \in Trainings : PromptText(PromptsOf[r]) \in Bytes
  BY <1>1 DEF Bytes
<1> QED
  BY <1>1, <1>2 DEF Shas, Picks, Artifacts

(* An attempt is never older than its deadline and its directory never     *)
(* older than the age at which a starting worker removes it, and both hold *)
(* bytes that were written (_initialize_root, _read, _materialize_adapter).*)
THEOREM TrustedTypesKept == TrustedInit /\ [][TrustedNext]_trustedVars => []TrustedTypeOK
<1>1. TrustedInv => TrustedTypeOK
  <2> SUFFICES ASSUME TrustedInv PROVE TrustedTypeOK
    OBVIOUS
  <2>1. ASSUME NEW r \in InputRuns
        PROVE  /\ inputRun[r].state \in {"queued"} \cup Ended
               /\ inputRun[r].picked \in Artifacts \cup {"none"}
               /\ inputRun[r].sha \in Bytes \cup {NoBytes}
    BY ShasAreBytes DEF TrustedInv, TypesHold, RunRows
  <2>2. object \in [Artifacts -> Bytes \cup {NoBytes}]
    BY ShasAreBytes DEF TrustedInv, TypesHold
  <2>3. ASSUME NEW a \in Attempts
        PROVE  /\ try[a] \in InputTries /\ folder[a] \in Folders
               /\ try[a].read \in Bytes \cup {NoBytes} /\ folder[a].bytes \in Bytes \cup {NoBytes}
               /\ try[a].age \in 0..Deadline
    <3>1. try[a] \in InputTries /\ folder[a] \in Folders /\ try[a].age <= Deadline
      BY TryIs DEF TryTrue
    <3>2. try[a].age \in 0..Deadline
      BY <3>1, TrustedAssumption DEF InputTries
    <3> QED
      BY <3>1, <3>2, ShasAreBytes DEF InputTries, Folders
  <2> QED
    BY <2>1, <2>2, <2>3 DEF TrustedTypeOK, TrustedInv, TypesHold, InputTries, Folders, Parents, Children
<1> QED
  BY <1>1, TrustedStarts, TrustedStep, PTL

-----------------------------------------------------------------------------
(***************************************************************************)
(* What an API admits, the workers of its queue execute (WorkerFleet), for *)
(* any number of replicas, workers and runs and whatever settings are      *)
(* rolled out.  The induction follows, for each run, the settings its      *)
(* queue has met: every worker that could take the run is among them, and  *)
(* the recorded facts are those of one of them.                            *)
(***************************************************************************)

-----------------------------------------------------------------------------
(* The inductive invariant *)

Uppers == {[up |-> TRUE, s |-> s] : s \in Offered}
FactSets == {NoFacts} \cup {Facts(s) : s \in Offered}
FleetStates == {"new", "submitted", "queued", "running", "succeeded", "failed"}
FleetRuns == [state : FleetStates, queue : Profiles \cup {"none"}, at : FleetWorkers \cup {"none"},
              facts : FactSets, under : FactSets]

Takes(w, r) == fleet[w].up /\ ProfileOf[w] = TaskQueueForKind(KindOf[r])

(* Workers of two settings, or of settings without the entry *)
Excused(M, r) == (\E m, n \in M : m # n) \/ \E m \in M : ~Permits(m.s.policies, r)

(* A run x that has met the settings M *)
Served(x, M, r) ==
    /\ x.state = "new" => x.facts = NoFacts
    /\ x.state # "new" => KindOf[r] # "export"
    /\ x.state \in {"queued", "running"} => x.queue = TaskQueueForKind(KindOf[r])
    /\ x.state \in {"submitted", "queued", "running"} =>
          \A w \in FleetWorkers : Takes(w, r) => fleet[w] \in M
    /\ x.facts = NoFacts \/ \E m \in M : x.facts = Facts(m.s)
    /\ x.state = "running" =>
          /\ x.at \in FleetWorkers /\ Takes(x.at, r)
          /\ fleet[x.at].s.image => x.facts = Facts(fleet[x.at].s)
    /\ x.state = "failed" => Excused(M, r)
    /\ x.state = "succeeded" /\ (\A m \in M : m.s.deployed) => x.facts = x.under

WorkerTrue(w) == fleet[w] = Down \/ (fleet[w] \in Uppers /\ ImageIdentified(fleet[w].s))

FleetInv ==
    /\ run \in [Runs -> FleetRuns]
    /\ met \in [Runs -> SUBSET Uppers] /\ \A r \in Runs : IsFiniteSet(met[r])
    /\ fleet = [w \in FleetWorkers |-> fleet[w]] /\ \A w \in FleetWorkers : WorkerTrue(w)
    /\ \A r \in Runs : Served(run[r], met[r], r)

-----------------------------------------------------------------------------
(* Routing and handlers *)

(* Every kind that is admitted has a queue. *)
LEMMA QueueHolds ==
    ASSUME NEW kind \in RunKinds, kind # "export"
    PROVE  /\ TaskQueueForKind(kind) \in Profiles
           /\ kind \in PROFILE_RUN_KINDS[TaskQueueForKind(kind)]
<1>1. \E p \in Profiles : kind \in PROFILE_RUN_KINDS[p]
  <2>1. kind \in PROFILE_RUN_KINDS["batch-cpu"] \/ kind \in PROFILE_RUN_KINDS["external-provider"]
        \/ kind \in PROFILE_RUN_KINDS["gpu-inference"] \/ kind \in PROFILE_RUN_KINDS["gpu-training"]
    BY DEF RunKinds, Core, PROFILE_RUN_KINDS, Profiles
  <2> QED
    BY <2>1 DEF Profiles
<1> QED
  BY <1>1 DEF TaskQueueForKind

(* A worker of a queue that holds the entry a kind selects has its handler. *)
LEMMA HandlersCover ==
    ASSUME NEW kind, NEW need, Selects(kind, need), NEW s,
           need = NoPolicy \/ need \in s.policies,
           NEW q \in Profiles, kind \in PROFILE_RUN_KINDS[q]
    PROVE  kind \in Handlers(q, s)
<1>1. need # NoPolicy => Capability(kind) \in Capable(s)
  BY DEF Selects, Capable
<1>2. kind \notin Core \cup {"generate-repository", "export"} => need # NoPolicy
  BY DEF Selects
<1>3. CASE q = "batch-cpu"
  <2>1. kind \in Core \cup {"build-datg-index"}
    BY <1>3 DEF PROFILE_RUN_KINDS
  <2>2. CASE kind \in Core
    BY <1>3, <2>2 DEF Handlers, CoreHandlers
  <2>3. CASE kind = "build-datg-index"
    <3>1. Capability(kind) = "datg" /\ kind \notin Core \cup {"generate-repository", "export"}
      BY <2>3 DEF Capability, Core
    <3> QED
      BY <1>1, <1>2, <1>3, <2>3, <3>1 DEF Handlers, DatgHandlers
  <2> QED
    BY <2>1, <2>2, <2>3
<1>4. CASE q = "external-provider"
  <2>1. kind = "generate-repository" \/ kind = "generate-llm"
    BY <1>4 DEF PROFILE_RUN_KINDS
  <2>2. CASE kind = "generate-repository"
    BY <1>4, <2>2 DEF Handlers
  <2>3. CASE kind = "generate-llm"
    <3>1. Capability(kind) = "hosted" /\ kind \notin Core \cup {"generate-repository", "export"}
      BY <2>3 DEF Capability, Core
    <3> QED
      BY <1>1, <1>2, <1>4, <2>3, <3>1 DEF Handlers, ModelHandlers
  <2> QED
    BY <2>1, <2>2, <2>3
<1>5. CASE q = "gpu-inference"
  <2>1. kind \in {"generate-local", "perplexity"} \/ kind = "generate-datg"
    BY <1>5 DEF PROFILE_RUN_KINDS
  <2>2. kind \notin Core \cup {"generate-repository", "export"}
    BY <2>1 DEF Core
  <2>3. CASE kind \in {"generate-local", "perplexity"}
    <3>1. Capability(kind) = "local"
      BY <2>3 DEF Capability
    <3> QED
      BY <1>1, <1>2, <1>5, <2>2, <2>3, <3>1 DEF Handlers, ModelHandlers
  <2>4. CASE kind = "generate-datg"
    <3>1. Capability(kind) = "datg"
      BY <2>4 DEF Capability
    <3> QED
      BY <1>1, <1>2, <1>5, <2>2, <2>4, <3>1 DEF Handlers, DatgHandlers
  <2> QED
    BY <2>1, <2>3, <2>4
<1>6. CASE q = "gpu-training"
  BY <1>6 DEF PROFILE_RUN_KINDS, Handlers, PhonRlHandlers
<1> QED
  BY <1>3, <1>4, <1>5, <1>6 DEF Profiles

(* So a worker of a run's queue refuses it only without the entry. *)
LEMMA HandlersServe ==
    ASSUME NEW r \in Runs, KindOf[r] # "export", NEW s, Permits(s.policies, r)
    PROVE  KindOf[r] \in Handlers(TaskQueueForKind(KindOf[r]), s)
<1>1. KindOf[r] \in RunKinds /\ Selects(KindOf[r], NeedOf[r])
  BY FleetAssumption
<1>2. NeedOf[r] = NoPolicy \/ NeedOf[r] \in s.policies
  BY DEF Permits
<1> QED
  BY <1>1, <1>2, QueueHolds, HandlersCover

-----------------------------------------------------------------------------
(* Steps of one run *)

(* A step of one run keeps the invariant if the run is served after it. *)
LEMMA OneRunSteps ==
    ASSUME FleetInv, NEW r \in Runs, NEW x \in FleetRuns, NEW M \in SUBSET Uppers,
           IsFiniteSet(M), Served(x, M, r), run' = [run EXCEPT ![r] = x],
           met' = [met EXCEPT ![r] = M], fleet' = fleet
    PROVE  FleetInv'
<1>1. run' \in [Runs -> FleetRuns] /\ met' \in [Runs -> SUBSET Uppers]
  BY DEF FleetInv
<1>2. \A q \in Runs : /\ run'[q] = IF q = r THEN x ELSE run[q]
                      /\ met'[q] = IF q = r THEN M ELSE met[q]
  BY DEF FleetInv
<1>3. \A q \in Runs : IsFiniteSet(met'[q])
  BY <1>2 DEF FleetInv
<1>4. \A w \in FleetWorkers : WorkerTrue(w)'
  BY DEF FleetInv, WorkerTrue
<1>5. ASSUME NEW q \in Runs PROVE Served(run[q], met[q], q)'
  <2>1. Served(run'[q], met'[q], q)
    BY <1>2 DEF FleetInv
  <2> QED
    BY <2>1 DEF Served, Takes
<1> QED
  BY <1>1, <1>3, <1>4, <1>5 DEF FleetInv

(* What the invariant says of a run. *)
LEMMA FleetRunIs ==
    ASSUME FleetInv, NEW r \in Runs
    PROVE  /\ run[r] \in FleetRuns /\ met[r] \in SUBSET Uppers /\ IsFiniteSet(met[r])
           /\ Served(run[r], met[r], r)
           /\ met = [met EXCEPT ![r] = met[r]]
  BY DEF FleetInv

(* What the invariant says of a worker that runs. *)
LEMMA WorkerIs ==
    ASSUME FleetInv, NEW w \in FleetWorkers, fleet[w].up
    PROVE  /\ fleet[w] \in Uppers /\ ImageIdentified(fleet[w].s)
           /\ fleet[w].s \in Offered /\ Facts(fleet[w].s) \in FactSets
<1>1. WorkerTrue(w)
  BY DEF FleetInv
<1>2. fleet[w] # Down
  BY DEF Down
<1> QED
  BY <1>1, <1>2 DEF WorkerTrue, Uppers, FactSets

(* The workers that run are finitely many settings. *)
LEMMA MetAtSubmission ==
    ASSUME FleetInv, NEW W, W \subseteq {w \in FleetWorkers : fleet[w].up}
    PROVE  {fleet[w] : w \in W} \in SUBSET Uppers /\ IsFiniteSet({fleet[w] : w \in W})
<1>1. IsFiniteSet(W)
  BY FleetAssumption, FS_Subset
<1>2. {fleet[w] : w \in W} \in SUBSET Uppers
  BY WorkerIs
<1>3. IsFiniteSet({fleet[w] : w \in W})
  <2> DEFINE f == [w \in W |-> fleet[w]]
             T == {fleet[w] : w \in W}
  <2>1. f \in Surjection(W, T)
    BY DEF Surjection
  <2> HIDE DEF f, T
  <2>2. IsFiniteSet(T)
    BY <1>1, <2>1, FS_Surjection
  <2> QED
    BY <2>2 DEF T
<1> QED
  BY <1>2, <1>3

(* A run meets the workers of its queue. *)
LEMMA SubmitKeeps ==
    ASSUME FleetInv, NEW r \in Runs, NEW a \in Apis, Submit(r, a)
    PROVE  FleetInv'
<1> DEFINE W == {v \in FleetWorkers : fleet[v].up /\ ProfileOf[v] = TaskQueueForKind(KindOf[r])}
           M == {fleet[w] : w \in W}
           x == [run[r] EXCEPT !.state = "submitted"]
<1>1. run' = [run EXCEPT ![r] = x] /\ met' = [met EXCEPT ![r] = M] /\ fleet' = fleet
  BY DEF Submit
<1>2. M \in SUBSET Uppers /\ IsFiniteSet(M)
  BY MetAtSubmission
<1>3. \A w \in FleetWorkers : Takes(w, r) => fleet[w] \in M
  BY DEF Takes
<1>4. x \in FleetRuns /\ x.state = "submitted" /\ x.facts = run[r].facts
  BY FleetRunIs DEF FleetRuns, FleetStates
<1>5. run[r].facts = NoFacts /\ KindOf[r] # "export"
  BY FleetRunIs DEF Submit, Served, Admits
<1> HIDE DEF W, M, x
<1>6. Served(x, M, r)
  BY <1>3, <1>4, <1>5 DEF Served
<1> QED
  BY <1>1, <1>2, <1>4, <1>6, OneRunSteps

(* The dispatcher names the queue. *)
LEMMA DispatchKeeps ==
    ASSUME FleetInv, NEW r \in Runs, Dispatch(r)
    PROVE  FleetInv'
<1> DEFINE x == [run[r] EXCEPT !.state = "queued", !.queue = TaskQueueForKind(KindOf[r])]
<1>1. run' = [run EXCEPT ![r] = x] /\ met' = met /\ fleet' = fleet /\ run[r].state = "submitted"
  BY DEF Dispatch
<1>2. Served(run[r], met[r], r) /\ run[r] \in FleetRuns
  BY FleetRunIs
<1>3. TaskQueueForKind(KindOf[r]) \in Profiles
  BY <1>1, <1>2, QueueHolds, FleetAssumption DEF Served
<1>4. /\ x \in FleetRuns /\ x.state = "queued" /\ x.facts = run[r].facts
      /\ x.queue = TaskQueueForKind(KindOf[r])
  BY <1>2, <1>3 DEF FleetRuns, FleetStates
<1> HIDE DEF x
<1>5. Served(x, met[r], r)
  BY <1>1, <1>2, <1>4 DEF Served
<1> QED
  BY <1>1, <1>4, <1>5, FleetRunIs, OneRunSteps

(* A run that has ended, and why. *)
LEMMA FinishedServed ==
    ASSUME FleetInv, NEW r \in Runs, NEW w \in FleetWorkers, fleet[w].up,
           NEW at \in {"succeeded", "failed"}, run[r].state # "new",
           run' = Finished(r, at, fleet[w].s), UNCHANGED <<fleet, met>>,
           at = "failed" => Excused(met[r], r),
           at = "succeeded" /\ (\A m \in met[r] : m.s.deployed) => run[r].facts = Facts(fleet[w].s)
    PROVE  FleetInv'
<1> DEFINE u == IF at = "succeeded" THEN Facts(fleet[w].s) ELSE NoFacts
           x == [run[r] EXCEPT !.state = at, !.at = "none", !.under = u]
<1>1. run' = [run EXCEPT ![r] = x] /\ met' = met /\ fleet' = fleet
  BY DEF Finished
<1>2. Served(run[r], met[r], r) /\ run[r] \in FleetRuns
  BY FleetRunIs
<1>3. u \in FactSets
  BY WorkerIs DEF FactSets
<1> HIDE DEF u
<1>4. x \in FleetRuns /\ x.state = at /\ x.facts = run[r].facts /\ x.under = u
  BY <1>2, <1>3 DEF FleetRuns, FleetStates
<1> HIDE DEF x
<1>5. Served(x, met[r], r)
  BY <1>2, <1>4 DEF Served, u
<1> QED
  BY <1>1, <1>4, <1>5, FleetRunIs, OneRunSteps

(* A worker refuses a run over facts only after one of other settings. *)
LEMMA BeginRunKeeps ==
    ASSUME FleetInv, NEW r \in Runs, NEW w \in FleetWorkers, BeginRun(r, w)
    PROVE  FleetInv'
<1> DEFINE s == fleet[w].s
<1>1. /\ run[r].state = "queued" /\ fleet[w].up /\ ProfileOf[w] = run[r].queue
      /\ fleet' = fleet /\ met' = met
  BY DEF BeginRun
<1>2. Served(run[r], met[r], r) /\ run[r] \in FleetRuns
  BY FleetRunIs
<1>3. Takes(w, r) /\ fleet[w] \in met[r]
  BY <1>1, <1>2 DEF Served, Takes
<1>4. CASE s.image /\ ~Recordable(r, s)
  <2>1. run' = Finished(r, "failed", s)
    BY <1>4 DEF BeginRun
  <2>2. CASE ~Permits(s.policies, r)
    BY <1>1, <1>3, <2>1, <2>2, FinishedServed DEF Excused
  <2>3. CASE run[r].facts \notin {NoFacts, Facts(s)}
    <3>1. PICK m \in met[r] : run[r].facts = Facts(m.s)
      BY <1>2, <2>3 DEF Served
    <3>2. m # fleet[w]
      BY <2>3, <3>1
    <3>3. Excused(met[r], r)
      BY <1>3, <3>2 DEF Excused
    <3> QED
      BY <1>1, <2>1, <3>3, FinishedServed
  <2> QED
    BY <1>4, <2>2, <2>3 DEF Recordable
<1>5. CASE ~(s.image /\ ~Recordable(r, s))
  <2> DEFINE f == IF s.image THEN Facts(s) ELSE run[r].facts
             x == [run[r] EXCEPT !.state = "running", !.at = w, !.facts = f]
  <2>1. run' = [run EXCEPT ![r] = x]
    BY <1>5 DEF BeginRun
  <2>2. f \in FactSets
    BY <1>1, <1>2, WorkerIs DEF FleetRuns
  <2>3. s.image => f = Facts(s)
    OBVIOUS
  <2>4. f = NoFacts \/ \E m \in met[r] : f = Facts(m.s)
    BY <1>2, <1>3 DEF Served
  <2> HIDE DEF f, s
  <2>5. /\ x \in FleetRuns /\ x.state = "running" /\ x.at = w /\ x.facts = f
        /\ x.queue = run[r].queue
    BY <1>2, <2>2 DEF FleetRuns, FleetStates
  <2> HIDE DEF x
  <2>6. Served(x, met[r], r)
    BY <1>1, <1>2, <1>3, <2>3, <2>4, <2>5 DEF Served, s
  <2> QED
    BY <1>1, <2>1, <2>5, <2>6, FleetRunIs, OneRunSteps
<1> QED
  BY <1>4, <1>5

(* A worker that holds the entry computes, under the facts on record. *)
LEMMA ComputeKeeps ==
    ASSUME FleetInv, NEW r \in Runs, Compute(r)
    PROVE  FleetInv'
<1> DEFINE w == run[r].at
           s == fleet[w].s
           handled == KindOf[r] \in Handlers(ProfileOf[w], s) /\ Permits(s.policies, r)
<1>1. /\ run[r].state = "running" /\ fleet' = fleet /\ met' = met
      /\ run' = Finished(r, IF handled THEN "succeeded" ELSE "failed", s)
  BY DEF Compute
<1>2. Served(run[r], met[r], r)
  BY FleetRunIs
<1>3. /\ w \in FleetWorkers /\ Takes(w, r) /\ fleet[w] \in met[r] /\ KindOf[r] # "export"
      /\ s.image => run[r].facts = Facts(s)
  BY <1>1, <1>2 DEF Served
<1>4. ImageIdentified(s) /\ fleet[w].up
  BY <1>3, WorkerIs DEF Takes
<1>5. CASE handled
  <2>1. (\A m \in met[r] : m.s.deployed) => run[r].facts = Facts(s)
    BY <1>3, <1>4 DEF ImageIdentified
  <2> QED
    BY <1>1, <1>3, <1>4, <1>5, <2>1, FinishedServed
<1>6. CASE ~handled
  <2>1. ~Permits(s.policies, r)
    <3>1. ProfileOf[w] = TaskQueueForKind(KindOf[r])
      BY <1>3 DEF Takes
    <3>2. Permits(s.policies, r) => KindOf[r] \in Handlers(TaskQueueForKind(KindOf[r]), s)
      BY <1>3, HandlersServe
    <3> QED
      BY <1>6, <3>1, <3>2
  <2>2. Excused(met[r], r)
    BY <1>3, <2>1 DEF Excused
  <2> QED
    BY <1>1, <1>3, <1>4, <1>6, <2>2, FinishedServed
<1> QED
  BY <1>5, <1>6

-----------------------------------------------------------------------------
(* Steps of the deployment *)

(* Every run that could come to the new worker has met its settings. *)
LEMMA StartKeeps ==
    ASSUME FleetInv, NEW w \in FleetWorkers, NEW s \in Offered, Start(w, s)
    PROVE  FleetInv'
<1> DEFINE m == [up |-> TRUE, s |-> s]
           Comes(r) == /\ run[r].state \notin {"new", "succeeded", "failed"}
                       /\ TaskQueueForKind(KindOf[r]) = ProfileOf[w]
<1>1. /\ ~fleet[w].up /\ ImageIdentified(s) /\ run' = run
      /\ fleet' = [fleet EXCEPT ![w] = m]
      /\ met' = [r \in Runs |-> IF Comes(r) THEN met[r] \cup {m} ELSE met[r]]
  BY DEF Start
<1>2. m \in Uppers /\ m.up /\ m.s = s
  BY DEF Uppers
<1> HIDE DEF m
<1>3. /\ fleet' = [v \in FleetWorkers |-> fleet'[v]]
      /\ \A v \in FleetWorkers : fleet'[v] = IF v = w THEN m ELSE fleet[v]
  BY <1>1 DEF FleetInv
<1>4. ASSUME NEW v \in FleetWorkers PROVE WorkerTrue(v)'
  BY <1>1, <1>2, <1>3 DEF FleetInv, WorkerTrue
<1>5. ASSUME NEW r \in Runs
      PROVE  /\ met'[r] = IF Comes(r) THEN met[r] \cup {m} ELSE met[r]
             /\ met'[r] \in SUBSET Uppers /\ IsFiniteSet(met'[r])
  <2>1. met'[r] = IF Comes(r) THEN met[r] \cup {m} ELSE met[r]
    BY <1>1
  <2>2. met[r] \in SUBSET Uppers /\ IsFiniteSet(met[r])
    BY FleetRunIs
  <2> QED
    BY <1>2, <2>1, <2>2, FS_AddElement
<1>6. ASSUME NEW r \in Runs PROVE Served(run[r], met[r], r)'
  <2>1. Served(run[r], met[r], r) /\ run'[r] = run[r] /\ met[r] \subseteq met'[r]
    BY <1>1, <1>5, FleetRunIs
  <2>2. run[r].state \in {"submitted", "queued", "running"} =>
           \A v \in FleetWorkers : Takes(v, r)' => fleet'[v] \in met'[r]
    <3> SUFFICES ASSUME run[r].state \in {"submitted", "queued", "running"},
                        NEW v \in FleetWorkers, Takes(v, r)'
                 PROVE  fleet'[v] \in met'[r]
      OBVIOUS
    <3>1. CASE v = w
      BY <1>3, <1>5, <3>1 DEF Takes
    <3>2. CASE v # w
      BY <1>3, <2>1, <3>2 DEF Takes, Served
    <3> QED
      BY <3>1, <3>2
  <2>3. run[r].state = "running" =>
          /\ run[r].at \in FleetWorkers /\ Takes(run[r].at, r)' /\ fleet'[run[r].at] = fleet[run[r].at]
          /\ fleet[run[r].at].s.image => run[r].facts = Facts(fleet[run[r].at].s)
    BY <1>1, <1>3, <2>1 DEF Served, Takes
  <2>4. run[r].state \in {"failed", "succeeded"} => met'[r] = met[r]
    BY <1>5
  <2> QED
    BY <2>1, <2>2, <2>3, <2>4 DEF Served, Excused, Permits
<1>7. run' \in [Runs -> FleetRuns] /\ met' \in [Runs -> SUBSET Uppers]
  BY <1>1, <1>5 DEF FleetInv
<1> QED
  BY <1>3, <1>4, <1>5, <1>6, <1>7 DEF FleetInv

(* The runs of a stopped worker wait for the queue again. *)
LEMMA StopKeeps ==
    ASSUME FleetInv, NEW w \in FleetWorkers, Stop(w)
    PROVE  FleetInv'
<1> DEFINE Lost(r) == run[r].at = w /\ run[r].state = "running"
           x(r) == [run[r] EXCEPT !.state = "queued", !.at = "none"]
<1>1. /\ fleet' = [fleet EXCEPT ![w] = Down] /\ met' = met
      /\ run' = [r \in Runs |-> IF Lost(r) THEN x(r) ELSE run[r]]
  BY DEF Stop
<1>2. /\ fleet' = [v \in FleetWorkers |-> fleet'[v]]
      /\ \A v \in FleetWorkers : fleet'[v] = IF v = w THEN Down ELSE fleet[v]
  BY <1>1 DEF FleetInv
<1>3. ASSUME NEW v \in FleetWorkers PROVE WorkerTrue(v)'
  <2>1. WorkerTrue(v) /\ (fleet'[v] = Down \/ fleet'[v] = fleet[v])
    BY <1>2 DEF FleetInv
  <2> QED
    BY <2>1 DEF WorkerTrue
<1>4. ASSUME NEW r \in Runs
      PROVE  /\ x(r) \in FleetRuns /\ x(r).state = "queued" /\ x(r).queue = run[r].queue
             /\ x(r).facts = run[r].facts
  BY FleetRunIs DEF FleetRuns, FleetStates
<1>5. \A v \in FleetWorkers, r \in Runs : Takes(v, r)' => Takes(v, r) /\ v # w /\ fleet'[v] = fleet[v]
  BY <1>2 DEF Takes, Down
<1>6. ASSUME NEW r \in Runs PROVE run'[r] \in FleetRuns /\ Served(run[r], met[r], r)'
  <2>1. Served(run[r], met[r], r) /\ run[r] \in FleetRuns
    BY FleetRunIs
  <2>2. run'[r] = IF Lost(r) THEN x(r) ELSE run[r]
    BY <1>1
  <2>3. CASE Lost(r)
    <3>1. /\ run'[r] \in FleetRuns /\ run'[r].state = "queued" /\ run'[r].queue = run[r].queue
          /\ run'[r].facts = run[r].facts
      BY <1>4, <2>2, <2>3
    <3> QED
      BY <1>1, <1>5, <2>1, <2>3, <3>1 DEF Served
  <2>4. CASE ~Lost(r)
    <3>0. run[r].state = "running" => run[r].at \in FleetWorkers /\ run[r].at # w /\ Takes(run[r].at, r)
      BY <2>1, <2>4 DEF Served
    <3>1. run[r].state = "running" => fleet'[run[r].at] = fleet[run[r].at]
      BY <1>2, <3>0
    <3>2. run'[r] = run[r]
      BY <2>2, <2>4
    <3>3. run[r].state = "running" => Takes(run[r].at, r)'
      BY <3>0, <3>1, <3>2 DEF Takes
    <3> QED
      BY <1>1, <1>5, <2>1, <3>0, <3>1, <3>2, <3>3 DEF Served, Excused, Permits
  <2> QED
    BY <2>3, <2>4
<1>7. run' \in [Runs -> FleetRuns]
  BY <1>1, <1>6
<1> QED
  BY <1>1, <1>2, <1>3, <1>6, <1>7 DEF FleetInv

-----------------------------------------------------------------------------
(* FleetInv holds at first. *)
LEMMA FleetStarts ==
    ASSUME FleetInit
    PROVE  FleetInv
<1>1. NewRun \in FleetRuns /\ NewRun.state = "new" /\ NewRun.facts = NoFacts
  BY DEF NewRun, FleetRuns, FleetStates, FactSets
<1>2. IsFiniteSet({})
  BY FS_EmptySet
<1>3. ASSUME NEW r \in Runs PROVE Served(run[r], met[r], r)
  BY <1>1 DEF FleetInit, Served
<1>4. run \in [Runs -> FleetRuns] /\ met \in [Runs -> SUBSET Uppers]
  BY <1>1 DEF FleetInit
<1>5. \A r \in Runs : IsFiniteSet(met[r])
  BY <1>2 DEF FleetInit
<1>6. fleet = [w \in FleetWorkers |-> fleet[w]] /\ \A w \in FleetWorkers : WorkerTrue(w)
  BY DEF FleetInit, WorkerTrue
<1> QED
  BY <1>3, <1>4, <1>5, <1>6 DEF FleetInv

(* FleetInv is inductive. *)
LEMMA FleetSteps ==
    ASSUME FleetInv, [FleetNext]_fleetVars
    PROVE  FleetInv'
<1>1. CASE UNCHANGED fleetVars
  BY <1>1 DEF fleetVars, FleetInv, WorkerTrue, Served, Takes, Excused, Permits
<1>2. ASSUME NEW a \in Apis, NEW s \in Offered, Replace(a, s) PROVE FleetInv'
  BY <1>2 DEF Replace, FleetInv, WorkerTrue, Served, Takes, Excused, Permits
<1> QED
  BY <1>1, <1>2, SubmitKeeps, DispatchKeeps, BeginRunKeeps, ComputeKeeps, StartKeeps, StopKeeps
     DEF FleetNext

(* Two settings are more than one. *)
LEMMA FleetServesThen ==
    ASSUME FleetInv
    PROVE  FleetServes
<1>1. ASSUME NEW r \in Runs, run[r].state = "failed"
      PROVE  Cardinality(met[r]) > 1 \/ \E m \in met[r] : ~Permits(m.s.policies, r)
  <2>1. Excused(met[r], r) /\ IsFiniteSet(met[r])
    BY <1>1, FleetRunIs DEF Served
  <2>2. ASSUME NEW m \in met[r], NEW n \in met[r], m # n PROVE Cardinality(met[r]) > 1
    <3>1. /\ IsFiniteSet(met[r] \ {m}) /\ Cardinality(met[r] \ {m}) = Cardinality(met[r]) - 1
      BY <2>1, FS_RemoveElement
    <3>2. n \in met[r] \ {m}
      BY <2>2
    <3>3. Cardinality(met[r] \ {m}) # 0
      BY <3>1, <3>2, FS_EmptySet
    <3>4. Cardinality(met[r] \ {m}) \in Nat /\ Cardinality(met[r]) \in Nat
      BY <2>1, <3>1, FS_CardinalityType
    <3> QED
      BY <3>1, <3>3, <3>4
  <2> QED
    BY <2>1, <2>2 DEF Excused
<1>2. ASSUME NEW r \in Runs, run[r].state = "succeeded", \A m \in met[r] : m.s.deployed
      PROVE  run[r].facts = run[r].under
  BY <1>2, FleetRunIs DEF Served
<1> QED
  BY <1>1, <1>2 DEF FleetServes, AdmittedRunsExecute, ResultsHaveFacts

(* For every deployment: a run that an API admitted and whose queue has     *)
(* since then met only workers of one settings that hold the entry it       *)
(* selects never fails at them; and a result computed under deployed        *)
(* workers has on record the policy it was computed under                   *)
(* (ConfiguredRunAdmission, build_profile_handler_registry,                 *)
(* _record_execution).                                                      *)
THEOREM FleetAlwaysServes == FleetInit /\ [][FleetNext]_fleetVars => []FleetServes
<1>1. FleetInit => FleetInv
  BY FleetStarts
<1>2. FleetInv /\ [FleetNext]_fleetVars => FleetInv'
  BY FleetSteps
<1>3. FleetInv => FleetServes
  BY FleetServesThen
<1> QED
  BY <1>1, <1>2, <1>3, PTL

-----------------------------------------------------------------------------
(* Types *)

(* What the replicas of the API were started with *)
Listed == allowlists \in [Apis -> SUBSET Policies]

(* A replica is only replaced by one with an allowlist of the policies. *)
LEMMA ListedSteps == ASSUME Listed, [FleetNext]_fleetVars PROVE Listed'
<1>1. ASSUME NEW a \in Apis, NEW s \in Offered, Replace(a, s) PROVE Listed'
  <2>1. s.policies \in SUBSET Policies
    BY FleetAssumption
  <2> QED
    BY <1>1, <2>1 DEF Replace, Listed
<1>2. ASSUME NEW r \in Runs, NEW a \in Apis, Submit(r, a) PROVE Listed'
  BY <1>2 DEF Submit, Listed
<1>3. ASSUME NEW r \in Runs, Dispatch(r) \/ Compute(r) PROVE Listed'
  BY <1>3 DEF Dispatch, Compute, Listed
<1>4. ASSUME NEW r \in Runs, NEW w \in FleetWorkers, BeginRun(r, w) PROVE Listed'
  BY <1>4 DEF BeginRun, Listed
<1>5. ASSUME NEW w \in FleetWorkers, NEW s \in Offered, Start(w, s) PROVE Listed'
  BY <1>5 DEF Start, Listed
<1>6. ASSUME NEW w \in FleetWorkers, Stop(w) PROVE Listed'
  BY <1>6 DEF Stop, Listed
<1>7. CASE UNCHANGED fleetVars
  BY <1>7 DEF fleetVars, Listed
<1> QED
  BY <1>1, <1>2, <1>3, <1>4, <1>5, <1>6, <1>7 DEF FleetNext

(* With it every part of the fleet's state is within its type. *)
LEMMA FleetTypesHold == ASSUME FleetInv, Listed PROVE FleetTypeOK
<1>1. \A x \in FactSets : x.policies \subseteq Policies
  BY FleetAssumption DEF FactSets, NoFacts, Facts
<1>2. ASSUME NEW r \in Runs
      PROVE  /\ run[r].state \in FleetStates /\ run[r].queue \in Profiles \cup {"none"}
             /\ run[r].at \in FleetWorkers \cup {"none"}
             /\ run[r].facts.policies \subseteq Policies /\ run[r].under.policies \subseteq Policies
             /\ \A m \in met[r] : m.s \in Offered
  <2>1. run[r] \in FleetRuns /\ met[r] \subseteq Uppers
    BY DEF FleetInv
  <2> QED
    BY <1>1, <2>1 DEF FleetRuns, Uppers
<1>3. ASSUME NEW w \in FleetWorkers
      PROVE  fleet[w] = Down \/ (fleet[w].up /\ fleet[w].s \in Offered)
  BY DEF FleetInv, WorkerTrue, Uppers
<1> QED
  BY <1>2, <1>3 DEF FleetTypeOK, Listed, FleetStates

(* A running worker and what a run has met or recorded are settings that   *)
(* were rolled out, an allowlist and recorded facts only name entries of   *)
(* the policies (ConfiguredRunAdmission, worker_policy_sha256).            *)
THEOREM FleetTypesKept == FleetInit /\ [][FleetNext]_fleetVars => []FleetTypeOK
<1>1. FleetInit => FleetInv /\ Listed
  <2>1. FleetInit => Listed
    BY FleetAssumption DEF FleetInit, Listed
  <2> QED
    BY <2>1, FleetStarts
<1>2. FleetInv /\ Listed /\ [FleetNext]_fleetVars => FleetInv' /\ Listed'
  BY FleetSteps, ListedSteps
<1>3. FleetInv /\ Listed => FleetTypeOK
  BY FleetTypesHold
<1> QED
  BY <1>1, <1>2, <1>3, PTL

-----------------------------------------------------------------------------
(* A step of a worker is a step of one component and of no other.          *)
LEMMA WorkerSteps ==
    ASSUME [Next]_suiteVars
    PROVE  /\ service' = service
           /\ [RuntimeNext]_runtimeVars
           /\ [DatgNext]_datgVars
           /\ [ChildNext]_childVars
           /\ [GenerationNext]_generationVars
           /\ [TrustedNext]_trustedVars
           /\ [PhonRlNext]_phonRlVars
           /\ [FleetNext]_fleetVars
<1>1. CASE ModelsStep
  BY <1>1 DEF ModelsStep
<1>2. CASE DatgStep
  BY <1>2 DEF DatgStep
<1>3. CASE ChildStep
  BY <1>3 DEF ChildStep
<1>4. CASE GenerationStep
  BY <1>4 DEF GenerationStep
<1>5. CASE InputsStep
  BY <1>5 DEF InputsStep
<1>6. CASE TrainingStep
  BY <1>6 DEF TrainingStep
<1>7. CASE FleetStep
  BY <1>7 DEF FleetStep
<1>8. CASE UNCHANGED suiteVars
  BY <1>8 DEF suiteVars
<1> QED
  BY <1>1, <1>2, <1>3, <1>4, <1>5, <1>6, <1>7, <1>8 DEF Next

(* Whichever part of a worker runs, its state is well typed, for every     *)
(* value of the constants of all seven components (MCWorkers).             *)
THEOREM WorkerTypesKept == Spec => []WorkerTypeOK
<1>1. Init => /\ service \in Services
              /\ RuntimeInit
              /\ DatgInit
              /\ ChildInit
              /\ GenerationInit
              /\ TrustedInit
              /\ PhonRlInit
              /\ FleetInit
  BY DEF Init
<1>2. ASSUME /\ service \in Services
             /\ RuntimeTypeOK
             /\ DatgTypeOK
             /\ ChildTypeOK
             /\ GenerationTypeOK
             /\ TrustedTypeOK
             /\ PhonRlTypeOK
             /\ FleetTypeOK
      PROVE  WorkerTypeOK
  BY <1>2 DEF WorkerTypeOK, Services
<1>3. service \in Services /\ [Next]_suiteVars => (service \in Services)'
  BY WorkerSteps DEF Services
<1> QED
  BY <1>1, <1>2, <1>3, WorkerSteps, RuntimeTypesKept, DatgTypesKept,
     ChildTypesKept, GenerationTypesKept, TrustedTypesKept, LabTypesKept,
     FleetTypesKept, PTL
  DEF Spec, DatgSpec, ChildSpec, GenerationSpec, PhonRlSpec
=============================================================================
