-------------------------- MODULE Reproducibility --------------------------
(***************************************************************************)
(* Execution facts, run manifests and replays                              *)
(* (services/reproducibility.py, compare_replay of domain/artifacts.py,    *)
(* execute_run of workflows/activities.py).                                *)
(*                                                                         *)
(* A run and its replay, executed by attempts that may overlap, fail and   *)
(* be repeated by workers of different images (a rolling deployment), while *)
(* users delete artifacts and upload further outputs of the runs.  Every   *)
(* transaction is a step; objects are read and put between them.           *)
(***************************************************************************)
EXTENDS Integers, FiniteSets

CONSTANTS
    Source, Replayed,   \* the two runs
    Workers,            \* worker processes, each with an attempt at a time
    ImageOf,            \* their images
    Submitters,         \* requests for the replay, with one idempotency key
    VersionOf,          \* corpuskit and corpusgen versions of an image
    ClassOf,            \* the determinism the facts of an image claim
    Contents            \* results of a run, and what users upload

Images == {ImageOf[w] : w \in Workers}
Classes == {"exact", "best_effort", "nonreproducible"}

NoImage == "none"

ASSUME ReproAssumption ==
    /\ Source # Replayed
    /\ \A w \in Workers : ImageOf[w] # NoImage
    /\ \A i \in Images : ClassOf[i] \in Classes

VARIABLES
    state,      \* runs.state
    facts,      \* RunExecutionFact: the image that recorded it
    computed,   \* history: the image that computed the published result
    outputs,    \* active artifacts of the output kinds, by run
    input,      \* is the input artifact of both runs active?
    manifest,   \* manifest_artifact_id: the manifest, and is it active?
    replay,     \* RunReplay row: source manifest and verdict
    worker,     \* attempts
    submitter   \* submit_replay between its two transactions

reproVars ==
    <<state, facts, computed, outputs, input, manifest, replay, worker, submitter>>

RunPair == {Source, Replayed}
NoManifest == [run |-> "none", image |-> NoImage, outputs |-> {}, active |-> FALSE]
NoReplay == [expected |-> NoManifest, verdict |-> "none"]
Resting == [at |-> "idle", run |-> "none", built |-> NoManifest]

ReproInit ==
    /\ state = [r \in RunPair |-> IF r = Source THEN "running" ELSE "absent"]
    /\ facts = [r \in RunPair |-> NoImage]
    /\ computed = [r \in RunPair |-> NoImage]
    /\ outputs = [r \in RunPair |-> {}]
    /\ input = TRUE
    /\ manifest = [r \in RunPair |-> NoManifest]
    /\ replay = NoReplay
    /\ worker = [w \in Workers |-> Resting]
    /\ submitter = [c \in Submitters |-> NoManifest]

(* _validate_input_artifacts: found, active and with the recorded digest *)
InputsCheckOut == input

-----------------------------------------------------------------------------
(* Attempts. *)

WorkerTo(w, at) == worker' = [worker EXCEPT ![w].at = at]
WorkerEnds(w) == worker' = [worker EXCEPT ![w] = Resting]

(* The run fails for good, unless it has ended. *)
RunFails(r) == state' = [state EXCEPT ![r] = IF @ = "running" THEN "failed" ELSE @]

(* execute_run: a redelivery for a run that succeeded only finalizes it. *)
TakeRun(w, r) ==
    /\ worker[w].at = "idle" /\ state[r] \in {"running", "succeeded"}
    /\ worker' = [worker EXCEPT ![w] =
          [at |-> IF state[r] = "succeeded" THEN "build" ELSE "check",
           run |-> r, built |-> NoManifest]]
    /\ UNCHANGED <<state, facts, computed, outputs, input, manifest, replay, submitter>>

(* record_execution, first transaction: the run and its inputs; a run that *)
(* stopped running leaves the attempt without effect.                      *)
CheckInputs(w) ==
    /\ worker[w].at = "check"
    /\ IF state[worker[w].run] = "running" /\ InputsCheckOut
       THEN WorkerTo(w, "record") /\ UNCHANGED state
       ELSE WorkerEnds(w) /\ RunFails(worker[w].run)
    /\ UNCHANGED <<facts, computed, outputs, input, manifest, replay, submitter>>

(* for_run: what the parent process of a worker attests, whatever the child *)
(* computes                                                                *)
FactsFor(w) == ImageOf[w]

(* Mutant: facts that are there are not compared. *)
SameFacts_Any(r, i) == TRUE

(* _same_facts: a run has one set of facts, the first recorded *)
SameFacts(r, i) == facts[r] \in {NoImage, i}

(* record_execution, second transaction, after the inputs were read *)
RecordFacts(w) ==
    /\ worker[w].at = "record"
    /\ LET r == worker[w].run  i == FactsFor(w)
       IN  IF state[r] = "running" /\ InputsCheckOut /\ SameFacts(r, i)
           THEN /\ facts' = [facts EXCEPT ![r] = IF @ = NoImage THEN i ELSE @]
                /\ WorkerTo(w, "compute") /\ UNCHANGED state
           ELSE WorkerEnds(w) /\ RunFails(r) /\ UNCHANGED facts
    /\ UNCHANGED <<computed, outputs, input, manifest, replay, submitter>>

(* complete or commit_adopted_result: one attempt publishes its result. *)
Publish(w, c) ==
    /\ worker[w].at = "compute"
    /\ LET r == worker[w].run
       IN  IF state[r] = "running"
           THEN /\ state' = [state EXCEPT ![r] = "succeeded"]
                /\ outputs' = [outputs EXCEPT ![r] = @ \cup {c}]
                /\ computed' = [computed EXCEPT ![r] = ImageOf[w]]
                /\ WorkerTo(w, "build")
           ELSE WorkerEnds(w) /\ UNCHANGED <<state, outputs, computed>>
    /\ UNCHANGED <<facts, input, manifest, replay, submitter>>

(* An object cannot be read or put, the worker dies or the computation     *)
(* raises: another attempt may follow, or the run has failed.              *)
Interrupt(w) ==
    /\ worker[w].at # "idle"
    /\ WorkerEnds(w)
    /\ UNCHANGED state \/ RunFails(worker[w].run)
    /\ UNCHANGED <<facts, computed, outputs, input, manifest, replay, submitter>>

-----------------------------------------------------------------------------
(* finalize *)

(* _authoritative_outputs *)
OutputsNow(r) == outputs[r]

(* _load_manifest of the source of a replay *)
SourceReadable(r) == r = Replayed => manifest[Source].active

(* The active artifacts of the run and the facts of its row *)
ManifestNow(r) ==
    [run |-> r, image |-> facts[r], outputs |-> OutputsNow(r), active |-> TRUE]

(* _manifest_build reads the row, the artifacts and, for a replay, the     *)
(* source manifest.  A worker of another version, or a deleted artifact,   *)
(* leaves the run without a manifest; a manifest that is there is read.    *)
BuildManifest(w) ==
    /\ worker[w].at = "build"
    /\ LET r == worker[w].run
           sameVersion == VersionOf[ImageOf[w]] = VersionOf[facts[r]]
       IN  IF sameVersion /\ manifest[r] = NoManifest /\ InputsCheckOut /\ SourceReadable(r)
           THEN worker' = [worker EXCEPT ![w].at = "commit", ![w].built = ManifestNow(r)]
           ELSE IF sameVersion /\ manifest[r] # NoManifest /\ manifest[r].active
           THEN WorkerTo(w, "existing")
           ELSE WorkerEnds(w)
    /\ UNCHANGED <<state, facts, computed, outputs, input, manifest, replay, submitter>>

(* compare_replay: operation, versions, image, inputs and the claimed      *)
(* determinism go with the image; what is left is the outputs.             *)
Verdict(expected, observed) ==
    LET sameInputs == expected.image = observed.image
        sameOutputs == expected.outputs = observed.outputs
        class == ClassOf[expected.image]
    IN  IF class = "nonreproducible" THEN "nonreproducible"
        ELSE IF ~sameInputs THEN "mismatch"
        ELSE IF class = "exact" THEN IF sameOutputs THEN "exact_match" ELSE "mismatch"
        ELSE IF sameOutputs THEN "best_effort_match" ELSE "best_effort_divergence"

(* _commit_replay_comparison: once, with the manifest of the source *)
Compared(r, m) ==
    IF r # Replayed \/ replay.verdict # "none" THEN replay
    ELSE [replay EXCEPT !.verdict = Verdict(replay.expected, m)]

(* The facts row, locked, has no manifest yet. *)
Unfinalized(r) == manifest[r] = NoManifest

(* The second transaction, after the manifest was put: the pointer and the *)
(* comparison are written, unless another attempt has been faster or the   *)
(* artifacts are not what they were (run_outputs_changed).                 *)
CommitManifest(w) ==
    /\ worker[w].at = "commit"
    /\ LET r == worker[w].run
           m == worker[w].built
       IN  IF Unfinalized(r) /\ InputsCheckOut /\ OutputsNow(r) = m.outputs
           THEN /\ manifest' = [manifest EXCEPT ![r] = m]
                /\ replay' = Compared(r, m)
           ELSE UNCHANGED <<manifest, replay>>
    /\ WorkerEnds(w)
    /\ UNCHANGED <<state, facts, computed, outputs, input, submitter>>

(* _complete_replay_if_needed, for a manifest that was there *)
CompleteReplay(w) ==
    /\ worker[w].at = "existing"
    /\ LET r == worker[w].run
       IN  replay' = IF SourceReadable(r) THEN Compared(r, manifest[r]) ELSE replay
    /\ WorkerEnds(w)
    /\ UNCHANGED <<state, facts, computed, outputs, input, manifest, submitter>>

-----------------------------------------------------------------------------
(* Users. *)

(* submit_replay reads the manifest of the source ... *)
ReadSource(c) ==
    /\ submitter[c] = NoManifest
    /\ state[Source] = "succeeded" /\ manifest[Source].active
    /\ submitter' = [submitter EXCEPT ![c] = manifest[Source]]
    /\ UNCHANGED <<state, facts, computed, outputs, input, manifest, replay, worker>>

(* ... and in a second transaction, if it is still there, inserts run and  *)
(* replay, or finds those of its idempotency key.                          *)
SubmitReplay(c) ==
    /\ submitter[c] # NoManifest
    /\ IF manifest[Source].active /\ state[Replayed] = "absent"
       THEN /\ state' = [state EXCEPT ![Replayed] = "running"]
            /\ replay' = [expected |-> submitter[c], verdict |-> "none"]
       ELSE UNCHANGED <<state, replay>>
    /\ submitter' = [submitter EXCEPT ![c] = NoManifest]
    /\ UNCHANGED <<facts, computed, outputs, input, manifest, worker>>

(* artifacts.create with a run of the project *)
UploadOutput(r, c) ==
    /\ state[r] # "absent" /\ c \notin outputs[r]
    /\ outputs' = [outputs EXCEPT ![r] = @ \cup {c}]
    /\ UNCHANGED <<state, facts, computed, input, manifest, replay, worker, submitter>>

(* tombstone: any artifact, manifests and inputs too *)
DeleteOutput(r, c) ==
    /\ c \in outputs[r]
    /\ outputs' = [outputs EXCEPT ![r] = @ \ {c}]
    /\ UNCHANGED <<state, facts, computed, input, manifest, replay, worker, submitter>>

DeleteInput ==
    /\ input /\ input' = FALSE
    /\ UNCHANGED <<state, facts, computed, outputs, manifest, replay, worker, submitter>>

DeleteManifest(r) ==
    /\ manifest[r].active
    /\ manifest' = [manifest EXCEPT ![r].active = FALSE]
    /\ UNCHANGED <<state, facts, computed, outputs, input, replay, worker, submitter>>

-----------------------------------------------------------------------------
ReproNext ==
    \/ \E w \in Workers, r \in RunPair : TakeRun(w, r)
    \/ \E w \in Workers, c \in Contents : Publish(w, c)
    \/ \E w \in Workers :
          \/ CheckInputs(w) \/ RecordFacts(w) \/ Interrupt(w)
          \/ BuildManifest(w) \/ CommitManifest(w) \/ CompleteReplay(w)
    \/ \E c \in Submitters : ReadSource(c) \/ SubmitReplay(c)
    \/ \E r \in RunPair, c \in Contents : UploadOutput(r, c) \/ DeleteOutput(r, c)
    \/ \E r \in RunPair : DeleteManifest(r)
    \/ DeleteInput

-----------------------------------------------------------------------------
ReproTypeOK ==
    /\ state \in [RunPair -> {"absent", "running", "succeeded", "failed"}]
    /\ facts \in [RunPair -> Images \cup {NoImage}]
    /\ outputs \in [RunPair -> SUBSET Contents]
    /\ \A r \in RunPair : manifest[r].run \in {"none", r}
    /\ \A w \in Workers :
          worker[w].at \in {"idle", "check", "record", "compute", "build", "commit", "existing"}

(* What the facts, and with them a manifest, say of the executing image is *)
(* true of the attempt whose result was published, however many attempts   *)
(* of other images recorded, failed or published in between.               *)
ProvenanceTrue ==
    \A r \in RunPair :
        /\ computed[r] # NoImage => facts[r] = computed[r]
        /\ manifest[r] # NoManifest => manifest[r].image = computed[r]

(* A replay is compared in the transaction that records its manifest, with *)
(* the manifest its source had when it was submitted, and the verdict is   *)
(* the one the two recorded manifests give for ever, whichever attempt     *)
(* finalized and whatever became of the artifacts.                         *)
ReplayVerdictTrue ==
    /\ (replay.verdict # "none") <=> (manifest[Replayed] # NoManifest)
    /\ replay # NoReplay => [manifest[Source] EXCEPT !.active = TRUE] = replay.expected
    /\ replay.verdict # "none" =>
          replay.verdict = Verdict(manifest[Source], manifest[Replayed])

(* What finalize records is true and stays so: of the attempt that made the *)
(* result, and of the comparison with the source of a replay.               *)
ManifestsTrue == ProvenanceTrue /\ ReplayVerdictTrue
=============================================================================
