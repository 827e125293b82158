--------------------------- MODULE TrustedInputs ---------------------------
(***************************************************************************)
(* Inputs a run takes from artifacts (workflows/trusted_inputs.py,         *)
(* worker/model_registry.py, worker/phon_rl_registry.py): a training run   *)
(* reads a prompt set, a local generation merges the LoRA adapter an       *)
(* earlier training produced.  The parent process authorizes the artifact, *)
(* reads it and writes it into a one-use directory; its child claims the   *)
(* directory and checks what it reads.                                     *)
(*                                                                         *)
(* Meanwhile artifacts are deleted, worker processes die, and hosts are    *)
(* upgraded: installed libraries and model policies change between the     *)
(* training of an adapter and its use.  The directories of one profile     *)
(* share one root, which every starting worker cleans.                     *)
(***************************************************************************)
EXTENDS Integers, FiniteSets

CONSTANTS
    Trainings,      \* TRAIN_PHON_RL runs
    Earlier,        \* trainings that succeeded before, under release 1
    Generations,    \* GENERATE_LOCAL runs that select an adapter
    Prompts,        \* prompt artifacts
    Attempts,       \* activity attempts
    Hosts,          \* worker processes
    Releases,       \* 1..n: what a host has installed
    ProjectOf,      \* project of a run or a prompt artifact
    PinOf,          \* model pin a run asks for
    Peft,           \* trainings with use_peft
    PromptsOf,      \* artifact of a training's static prompt source
    DigestOf,       \* snapshot digest of a pin in a release
    Allowed,        \* pins a release's policy opens to adapters
    Deadline,       \* longest activity_timeout_seconds
    OrphanAge,      \* _ORPHAN_SECONDS
    Deletions       \* bound: artifacts users delete

InputRuns == Trainings \cup Generations
Artifacts == Trainings \cup Prompts
Ended == {"succeeded", "failed"}

ASSUME TrustedAssumption ==
    /\ Trainings \cap Generations = {} /\ InputRuns \cap Prompts = {}
    /\ Releases = 1..Cardinality(Releases) /\ 1 \in Releases
    /\ Earlier \subseteq Trainings
    /\ Attempts = 1..Cardinality(Attempts)
    /\ Peft \subseteq Trainings /\ PromptsOf \in [Trainings -> Prompts]
    /\ Deletions \in Nat /\ Deadline \in Nat /\ OrphanAge \in Nat /\ Deadline < OrphanAge

VARIABLES
    inputRun,        \* state and selected artifact of a run
    artifact,   \* row of an artifact
    object,     \* stored bytes of an artifact
    release,    \* what a host runs
    try,        \* an activity attempt: its parent and its child process
    folder      \* directory an attempt materialized

trustedVars == <<inputRun, artifact, object, release, try, folder>>

(* What an artifact's bytes say: who made them, from which base and libraries *)
PromptText(p) == [by |-> p, pin |-> "none", digest |-> "none", release |-> 0, adapter |-> FALSE]
Checkpoint(t, r) == [by |-> t, pin |-> PinOf[t], digest |-> DigestOf[r][PinOf[t]],
                     release |-> r, adapter |-> t \in Peft]
Bytes == {PromptText(p) : p \in Prompts} \cup {Checkpoint(t, r) : t \in Trainings, r \in Releases}
NoBytes == [by |-> "none"]

IdleTry == [run |-> "none", host |-> "none", parent |-> "idle", child |-> "none",
            read |-> NoBytes, age |-> 0]
NoFolder == [state |-> "none", bytes |-> NoBytes, age |-> 0]

TrustedInit ==
    /\ inputRun = [r \in InputRuns |->
         [state |-> IF r \in Earlier THEN "succeeded" ELSE "queued",
          picked |-> IF r \in Trainings THEN PromptsOf[r] ELSE "none",
          sha |-> IF r \in Trainings THEN PromptText(PromptsOf[r]) ELSE NoBytes]]
    /\ artifact = [x \in Artifacts |-> IF x \in Prompts \cup Earlier THEN "active" ELSE "absent"]
    /\ object = [x \in Artifacts |-> CASE x \in Prompts -> PromptText(x)
                                        [] x \in Earlier -> Checkpoint(x, 1)
                                        [] OTHER -> NoBytes]
    /\ release = [h \in Hosts |-> 1]
    /\ try = [a \in Attempts |-> IdleTry]
    /\ folder = [a \in Attempts |-> NoFolder]

TryLive(a) == try[a].parent \notin {"idle", "gone"}
Kind(r) == IF r \in Trainings THEN "train" ELSE "generate"

-----------------------------------------------------------------------------
(* Users: a generation names the artifact and the bytes it means. *)

(* _authorize_advanced_artifact, when the run is submitted *)
Submittable(r, x) ==
    /\ artifact[x] = "active" /\ ProjectOf[x] = ProjectOf[r]
    /\ x \in Trainings /\ inputRun[x].state = "succeeded"

Pick(r) ==
    /\ r \in Generations /\ inputRun[r].state = "queued" /\ inputRun[r].picked = "none"
    /\ \E x \in Artifacts :
         /\ Submittable(r, x)
         /\ inputRun' = [inputRun EXCEPT ![r].picked = x, ![r].sha = object[x]]
    /\ UNCHANGED <<artifact, object, release, try, folder>>

(* Artifact service: a row is closed before its bytes go *)
DeleteArtifact(x) ==
    /\ artifact[x] = "active"
    /\ Cardinality({y \in Artifacts : artifact[y] \in {"deleting", "purged"}}) < Deletions
    /\ artifact' = [artifact EXCEPT ![x] = "deleting"]
    /\ UNCHANGED <<inputRun, object, release, try, folder>>

PurgeArtifact(x) ==
    /\ artifact[x] = "deleting"
    /\ artifact' = [artifact EXCEPT ![x] = "purged"]
    /\ object' = [object EXCEPT ![x] = NoBytes]
    /\ UNCHANGED <<inputRun, release, try, folder>>

-----------------------------------------------------------------------------
(* The parent: TrustedRunInputMaterializer.materialize *)

BeginTry(a, r, h) ==
    /\ try[a].parent = "idle" /\ \A b \in 1..(a - 1) : try[b].parent # "idle"
    /\ inputRun[r].state \notin Ended /\ inputRun[r].picked # "none"
    /\ try' = [try EXCEPT ![a] = [IdleTry EXCEPT !.run = r, !.host = h, !.parent = "asked"]]
    /\ UNCHANGED <<inputRun, artifact, object, release, folder>>

Policy(h) == Allowed[release[h]]

(* _authorized_artifact: row of the run's own project, and for an adapter  *)
(* the training run it came from                                           *)
ArtifactAuthorized(r, x) ==
    /\ artifact[x] = "active" /\ ProjectOf[x] = ProjectOf[r]
    /\ IF Kind(r) = "train" THEN x \in Prompts
       ELSE x \in Trainings /\ inputRun[x].state = "succeeded"

(* Mutant: libraries of another release are taken. *)
Fits_AnyRelease(bytes, pin, h) ==
    /\ bytes.adapter
    /\ bytes.pin = pin /\ bytes.digest = DigestOf[release[h]][pin]

(* the compatibility tuple, checked by the parent and again by the loader *)
Fits(bytes, pin, h) ==
    /\ bytes.adapter
    /\ bytes.pin = pin /\ bytes.digest = DigestOf[release[h]][pin]
    /\ bytes.release = release[h]

(* RunExecutionError(retryable=False) ends the run, any other the attempt *)
GiveUp(a, retryable) ==
    /\ try' = [try EXCEPT ![a] = [IdleTry EXCEPT !.parent = "gone"]]
    /\ inputRun' = IF retryable \/ inputRun[try[a].run].state \in Ended THEN inputRun
              ELSE [inputRun EXCEPT ![try[a].run].state = "failed"]

Authorize(a) ==
    LET r == try[a].run
        policed == Kind(r) = "train" \/ PinOf[r] \in Policy(try[a].host)
    IN  /\ try[a].parent = "asked"
        /\ \/ /\ policed /\ ArtifactAuthorized(r, inputRun[r].picked)
              /\ try' = [try EXCEPT ![a].parent = "authorized"]
              /\ UNCHANGED inputRun
           \/ /\ ~(policed /\ ArtifactAuthorized(r, inputRun[r].picked))
              /\ GiveUp(a, FALSE)
        /\ UNCHANGED <<artifact, object, release, folder>>

(* _read: the bytes are gone when the purge was quicker; the store may fail *)
ReadObject(a) ==
    LET bytes == object[inputRun[try[a].run].picked]
    IN  /\ try[a].parent = "authorized"
        /\ \/ bytes # NoBytes /\ try' = [try EXCEPT ![a].parent = "read", ![a].read = bytes]
              /\ UNCHANGED inputRun
           \/ GiveUp(a, TRUE)
        /\ UNCHANGED <<artifact, object, release, folder>>

(* _materialize_prompts, _materialize_adapter: the rest of the checks, then *)
(* the directory and at last its ready marker; the child is spawned with it *)
Materialize(a) ==
    LET r == try[a].run
        good == /\ try[a].read = inputRun[r].sha
                /\ Kind(r) = "generate" => Fits(try[a].read, PinOf[r], try[a].host)
    IN  /\ try[a].parent = "read"
        /\ \/ /\ good
              /\ folder' = [folder EXCEPT ![a] = [state |-> "ready", bytes |-> try[a].read, age |-> 0]]
              /\ try' = [try EXCEPT ![a].parent = "waits", ![a].child = "spawned",
                                    ![a].read = NoBytes]
              /\ UNCHANGED inputRun
           \/ /\ ~good
              /\ GiveUp(a, FALSE)
              /\ UNCHANGED folder
        /\ UNCHANGED <<artifact, object, release>>

(* finally: _remove_materialization, when the child has ended or the parent *)
(* gives up on it (deadline, cancellation); a child may outlive that        *)
Removed(a) == folder' = [folder EXCEPT ![a] = NoFolder]

LeaveInputs(a) ==
    /\ try[a].parent = "waits"
    /\ Removed(a)
    /\ \/ /\ try[a].child = "loaded"
          /\ try' = [try EXCEPT ![a].parent = "adopts", ![a].child = "none", ![a].read = NoBytes]
          /\ UNCHANGED inputRun
       \/ /\ try[a].child = "failed"
          /\ GiveUp(a, FALSE)
       \/ /\ try' = [try EXCEPT ![a].parent = "gone"]
          /\ UNCHANGED inputRun
    /\ UNCHANGED <<artifact, object, release>>

(* The result is adopted after the directory has gone: the run's success    *)
(* and the artifact of its checkpoint are one transaction                   *)
Adopt(a) ==
    LET r == try[a].run
    IN  /\ try[a].parent = "adopts"
        /\ try' = [try EXCEPT ![a] = [IdleTry EXCEPT !.parent = "gone"]]
        /\ IF inputRun[r].state \in Ended THEN UNCHANGED <<inputRun, artifact, object>>
           ELSE /\ inputRun' = [inputRun EXCEPT ![r].state = "succeeded"]
                /\ IF Kind(r) = "train"
                   THEN /\ artifact' = [artifact EXCEPT ![r] = "active"]
                        /\ object' = [object EXCEPT ![r] = Checkpoint(r, release[try[a].host])]
                   ELSE UNCHANGED <<artifact, object>>
        /\ UNCHANGED <<release, folder>>

-----------------------------------------------------------------------------
(* The child. *)

ChildTo(a, at) == try' = [try EXCEPT ![a].child = at]

(* claim_trusted_input: the marker is renamed, which also renews the mtime *)
Claim(a) ==
    /\ try[a].child = "spawned"
    /\ \/ /\ folder[a].state = "ready"
          /\ folder' = [folder EXCEPT ![a].state = "claimed", ![a].age = 0]
          /\ ChildTo(a, "claimed")
       \/ /\ folder[a].state # "ready"
          /\ ChildTo(a, "failed")
          /\ UNCHANGED folder
    /\ UNCHANGED <<inputRun, artifact, object, release>>

(* read_materialized_prompts, read_materialized_peft_manifest and           *)
(* SafetensorsPeftAdapterLoader.load                                        *)
Load(a) ==
    LET r == try[a].run
        good == /\ folder[a].state = "claimed" /\ folder[a].bytes = inputRun[r].sha
                /\ Kind(r) = "generate" =>
                     PinOf[r] \in Policy(try[a].host)
                     /\ Fits(folder[a].bytes, PinOf[r], try[a].host)
    IN  /\ try[a].child = "claimed"
        /\ try' = [try EXCEPT ![a].child = IF good THEN "loaded" ELSE "failed",
                              ![a].read = IF good THEN folder[a].bytes ELSE NoBytes]
        /\ UNCHANGED <<inputRun, artifact, object, release, folder>>

(* A child whose parent has gone is killed in the end *)
ChildKilled(a) ==
    /\ try[a].parent = "gone" /\ try[a].child # "none"
    /\ try' = [try EXCEPT ![a] = [IdleTry EXCEPT !.parent = "gone"]]
    /\ UNCHANGED <<inputRun, artifact, object, release, folder>>

-----------------------------------------------------------------------------
(* Hosts and time. *)

(* _initialize_root: directories untouched for two days *)
Orphaned(a) == folder[a].state # "none" /\ folder[a].age > OrphanAge

Dies(h, a) == try[a].host = h /\ try[a].parent # "idle"

(* A worker process dies with its attempts and starts again, perhaps as    *)
(* the next release                                                        *)
Restart(h, r) ==
    /\ r \in Releases /\ r >= release[h] /\ r <= release[h] + 1
    /\ release' = [release EXCEPT ![h] = r]
    /\ try' = [a \in Attempts |-> IF Dies(h, a) THEN [IdleTry EXCEPT !.parent = "gone"] ELSE try[a]]
    /\ folder' = [a \in Attempts |-> IF Orphaned(a) THEN NoFolder ELSE folder[a]]
    /\ UNCHANGED <<inputRun, artifact, object>>

Ageing(a) == folder[a].state # "none" /\ folder[a].age <= OrphanAge

(* The parent keeps its deadline: no attempt gets older *)
Tick ==
    /\ \A a \in Attempts : TryLive(a) => try[a].age < Deadline
    /\ \E a \in Attempts : TryLive(a) \/ Ageing(a)
    /\ try' = [a \in Attempts |-> IF TryLive(a) THEN [try[a] EXCEPT !.age = @ + 1] ELSE try[a]]
    /\ folder' = [a \in Attempts |->
         IF Ageing(a) THEN [folder[a] EXCEPT !.age = @ + 1] ELSE folder[a]]
    /\ UNCHANGED <<inputRun, artifact, object, release>>

TrustedNext ==
    \/ \E r \in InputRuns : Pick(r)
    \/ \E x \in Artifacts : DeleteArtifact(x) \/ PurgeArtifact(x)
    \/ \E a \in Attempts, r \in InputRuns, h \in Hosts : BeginTry(a, r, h)
    \/ \E a \in Attempts :
          Authorize(a) \/ ReadObject(a) \/ Materialize(a) \/ LeaveInputs(a) \/ Adopt(a) \/ Claim(a) \/ Load(a)
          \/ ChildKilled(a)
    \/ \E h \in Hosts, r \in Releases : Restart(h, r)
    \/ Tick

-----------------------------------------------------------------------------
(* Properties. *)

TrustedTypeOK ==
    /\ \A r \in InputRuns : /\ inputRun[r].state \in {"queued"} \cup Ended
                       /\ inputRun[r].picked \in Artifacts \cup {"none"}
                       /\ inputRun[r].sha \in Bytes \cup {NoBytes}
    /\ artifact \in [Artifacts -> {"absent", "active", "deleting", "purged"}]
    /\ object \in [Artifacts -> Bytes \cup {NoBytes}]
    /\ release \in [Hosts -> Releases]
    /\ \A a \in Attempts :
          /\ try[a].run \in InputRuns \cup {"none"} /\ try[a].host \in Hosts \cup {"none"}
          /\ try[a].parent \in {"idle", "asked", "authorized", "read", "waits", "adopts", "gone"}
          /\ try[a].child \in {"none", "spawned", "claimed", "loaded", "failed"}
          /\ try[a].read \in Bytes \cup {NoBytes} /\ try[a].age \in 0..Deadline
          /\ folder[a].state \in {"none", "ready", "claimed"}
          /\ folder[a].bytes \in Bytes \cup {NoBytes} /\ folder[a].age \in 0..OrphanAge + 1

(* Whatever was deleted, retried, killed or upgraded on the way, the        *)
(* adapter merged into a base model is one that a succeeded training of the *)
(* same project made from that very snapshot with the libraries that now    *)
(* load it, and it is the one the request named (_authorized_artifact,      *)
(* _materialize_adapter, _validate_peft_compatibility; docs/operations/     *)
(* phon-rl.md: "Loading checks every compatibility field").                 *)
AdapterFits ==
    \A a \in Attempts :
        LET r == try[a].run  bytes == try[a].read
        IN  try[a].child = "loaded" =>
              /\ bytes = inputRun[r].sha
              /\ ProjectOf[bytes.by] = ProjectOf[r]
              /\ Kind(r) = "generate" =>
                   /\ bytes.by \in Peft /\ inputRun[bytes.by].state = "succeeded"
                   /\ bytes.pin = PinOf[r]
                   /\ bytes.release = release[try[a].host]

(* The cleaning of a starting worker takes no directory that an attempt of  *)
(* another worker still holds (_initialize_root and _ORPHAN_SECONDS against *)
(* the longest activity_timeout_seconds).                                   *)
LiveInputsStay ==
    \A a \in Attempts : try[a].parent = "waits" => folder[a].state # "none"

(* What a run reads is what it was admitted for, and it stays while the run *)
(* needs it.                                                                *)
InputsHold == AdapterFits /\ LiveInputsStay
=============================================================================
