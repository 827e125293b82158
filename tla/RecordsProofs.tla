---------------------------- MODULE RecordsProofs ----------------------------
(***************************************************************************)
(* Proofs about what the services record and store: manifests and replays  *)
(* (Reproducibility), corpora with their quota, deletion and audit chain   *)
(* (Workspaces), and objects (ObjectStores); and about what is counted on  *)
(* the way to a result, with the same lemmas on sums: the rewards and      *)
(* messages of a training (PhonRl), and the rows, gains and messages of a  *)
(* generation (RepositoryGeneration).                                      *)
(***************************************************************************)
EXTENDS Reproducibility, Workspaces, ObjectStores, PhonRl, RepositoryGeneration,
        FiniteSetTheorems, WellFoundedInduction, SequenceTheorems, TLAPS

-----------------------------------------------------------------------------
(***************************************************************************)
(* Manifests and replays (Reproducibility), for any number of attempts,    *)
(* images and contents.  The induction follows what an attempt holds from  *)
(* the row it read to the manifest it writes, and lets every row only      *)
(* move forward meanwhile (Forward).                                       *)
(***************************************************************************)

RunStages == {"absent", "running", "succeeded", "failed"}
AttemptStages == {"idle", "check", "record", "compute", "build", "commit", "existing"}
KnownImages == Images \cup {NoImage}
Manifests == [run : RunPair \cup {"none"}, image : KnownImages,
              outputs : SUBSET Contents, active : BOOLEAN]
ReproAttempts == [at : AttemptStages, run : RunPair \cup {"none"}, built : Manifests]

Verdicts == {"none", "nonreproducible", "mismatch", "exact_match", "best_effort_match",
             "best_effort_divergence"}

(* A manifest without what a deletion may change *)
Lasting(m) == [m EXCEPT !.active = TRUE]
DeletedManifest(m) == [m EXCEPT !.active = FALSE]

RowTypes ==
    /\ state \in [RunPair -> RunStages]
    /\ facts \in [RunPair -> KnownImages] /\ computed \in [RunPair -> KnownImages]
    /\ outputs \in [RunPair -> SUBSET Contents]
    /\ input \in BOOLEAN
    /\ manifest \in [RunPair -> Manifests]

ReproTypes ==
    /\ RowTypes
    /\ replay \in [expected : Manifests, verdict : Verdicts]
    /\ worker \in [Workers -> ReproAttempts]
    /\ submitter \in [Submitters -> Manifests]

(* An attempt is what its facts and the row of its run make of it. *)
ReproAttemptTrue(w, v) ==
    LET r == v.run
    IN  /\ v.at # "idle" => r \in RunPair
        /\ v.at = "compute" => facts[r] = ImageOf[w]
        /\ v.at \in {"build", "commit", "existing"} => state[r] = "succeeded"
        /\ v.at = "commit" => v.built.image = facts[r] /\ v.built.active
        /\ v.at = "existing" => manifest[r] # NoManifest

(* The facts of a run are those of the attempt that succeeded, and so is   *)
(* its manifest.                                                           *)
RunTrue(r) ==
    /\ computed[r] # NoImage => facts[r] = computed[r]
    /\ state[r] = "succeeded" => computed[r] # NoImage
    /\ manifest[r] # NoManifest => state[r] = "succeeded" /\ manifest[r].image = computed[r]

(* Whoever has read the manifest of the source has what is there for ever. *)
ReadTrue(m) == m # NoManifest => manifest[Source] # NoManifest /\ m = Lasting(manifest[Source])

ReplayTrue ==
    /\ state[Replayed] # "absent" => replay # NoReplay
    /\ replay # NoReplay => replay.expected # NoManifest
    /\ ReadTrue(replay.expected)
    /\ replay.verdict # "none" <=> manifest[Replayed] # NoManifest
    /\ replay.verdict # "none" =>
          replay.verdict = Verdict(manifest[Source], manifest[Replayed])

ReproInv ==
    /\ ReproTypes
    /\ \A w \in Workers : ReproAttemptTrue(w, worker[w])
    /\ \A r \in RunPair : RunTrue(r)
    /\ ReplayTrue
    /\ \A c \in Submitters : ReadTrue(submitter[c])

-----------------------------------------------------------------------------
(* Records. *)

(* Only its stage changes when an attempt moves on. *)
LEMMA WorkerMoves ==
    ASSUME worker \in [Workers -> ReproAttempts], NEW w \in Workers, NEW at \in AttemptStages,
           WorkerTo(w, at)
    PROVE  \E v \in ReproAttempts :
              /\ worker' = [worker EXCEPT ![w] = v]
              /\ v.at = at /\ v.run = worker[w].run /\ v.built = worker[w].built
<1> DEFINE v == [worker[w] EXCEPT !.at = at]
<1>1. worker[w] \in ReproAttempts
  OBVIOUS
<1>2. v \in ReproAttempts /\ v.at = at /\ v.run = worker[w].run /\ v.built = worker[w].built
  BY <1>1 DEF ReproAttempts
<1>3. worker' = [worker EXCEPT ![w] = v]
  BY DEF WorkerTo
<1> HIDE DEF v
<1> QED
  BY <1>2, <1>3

(* No manifest and a deleted one *)
LEMMA ManifestFacts ==
    /\ NoManifest \in Manifests /\ NoManifest.image = NoImage /\ ~NoManifest.active
    /\ NoReplay.expected = NoManifest /\ NoReplay.verdict = "none"
    /\ Resting \in ReproAttempts /\ Resting.at = "idle"
    /\ \A m \in Manifests :
          /\ Lasting(m) \in Manifests /\ Lasting(m).active /\ Lasting(m).image = m.image
          /\ Lasting(m).outputs = m.outputs /\ Lasting(m).run = m.run
          /\ DeletedManifest(m) \in Manifests /\ ~DeletedManifest(m).active /\ DeletedManifest(m).image = m.image
          /\ DeletedManifest(m).outputs = m.outputs /\ DeletedManifest(m).run = m.run
<1>1. NoManifest \in Manifests /\ NoManifest.image = NoImage /\ ~NoManifest.active
  BY DEF NoManifest, Manifests, KnownImages
<1>2. NoReplay.expected = NoManifest /\ NoReplay.verdict = "none"
  BY DEF NoReplay
<1>3. Resting \in ReproAttempts /\ Resting.at = "idle"
  BY <1>1 DEF Resting, ReproAttempts, AttemptStages
<1>4. ASSUME NEW m \in Manifests
      PROVE  /\ Lasting(m) \in Manifests /\ Lasting(m).active /\ Lasting(m).image = m.image
             /\ Lasting(m).outputs = m.outputs /\ Lasting(m).run = m.run
             /\ DeletedManifest(m) \in Manifests /\ ~DeletedManifest(m).active /\ DeletedManifest(m).image = m.image
             /\ DeletedManifest(m).outputs = m.outputs /\ DeletedManifest(m).run = m.run
  BY DEF Lasting, DeletedManifest, Manifests
<1> QED
  BY <1>1, <1>2, <1>3, <1>4

(* Records with the same fields are the same. *)
LEMMA SameManifest ==
    ASSUME NEW m \in Manifests, NEW n \in Manifests, m.run = n.run, m.image = n.image,
           m.outputs = n.outputs, m.active = n.active
    PROVE  m = n
  BY DEF Manifests

(* An active manifest is lasting, and a deletion leaves the lasting part. *)
LEMMA LastingStays ==
    ASSUME NEW m \in Manifests
    PROVE  /\ m.active => Lasting(m) = m
           /\ Lasting(DeletedManifest(m)) = Lasting(m)
           /\ m # NoManifest /\ m.image # NoImage => DeletedManifest(m) # NoManifest
<1>1. m.active \in BOOLEAN /\ Lasting(m).active \in BOOLEAN
      /\ Lasting(DeletedManifest(m)).active \in BOOLEAN
  BY ManifestFacts DEF Manifests
<1>2. m.active => Lasting(m) = m
  BY <1>1, ManifestFacts, SameManifest
<1>3. Lasting(DeletedManifest(m)) = Lasting(m)
  BY <1>1, ManifestFacts, SameManifest
<1> QED
  BY <1>2, <1>3, ManifestFacts

(* A verdict is one, and goes with the image and the outputs. *)
LEMMA VerdictFacts ==
    ASSUME NEW m, NEW n, NEW o, o.image = m.image, o.outputs = m.outputs
    PROVE  /\ Verdict(m, n) \in Verdicts \ {"none"}
           /\ Verdict(o, n) = Verdict(m, n) /\ Verdict(n, o) = Verdict(n, m)
<1>1. Verdict(m, n) \in Verdicts \ {"none"}
  BY DEF Verdict, Verdicts
<1>2. Verdict(o, n) = Verdict(m, n)
  BY DEF Verdict
<1>3. Verdict(n, o) = Verdict(n, m)
  BY DEF Verdict
<1> QED
  BY <1>1, <1>2, <1>3

-----------------------------------------------------------------------------
(* What no step takes back: a success, recorded facts, a manifest but for  *)
(* its deletion. *)
Forward ==
    \A r \in RunPair :
        /\ state[r] = "succeeded" => state'[r] = "succeeded"
        /\ facts[r] # NoImage => facts'[r] = facts[r]
        /\ manifest[r] # NoManifest =>
              manifest'[r] # NoManifest /\ Lasting(manifest'[r]) = Lasting(manifest[r])

(* So whatever an attempt or a submission relies on stays. *)
LEMMA AttemptKept ==
    ASSUME ReproInv, Forward, NEW w \in Workers, NEW v \in ReproAttempts, ReproAttemptTrue(w, v)
    PROVE  ReproAttemptTrue(w, v)'
<1> DEFINE r == v.run
<1>1. ImageOf[w] # NoImage
  BY ReproAssumption
<1>2. r \in RunPair /\ state[r] = "succeeded" => facts[r] # NoImage
  BY DEF ReproInv, RunTrue
<1> QED
  BY <1>1, <1>2 DEF ReproAttemptTrue, Forward

(* A manifest that a submitter has read stays one there was. *)
LEMMA ReadKept ==
    ASSUME Forward, NEW m, ReadTrue(m)
    PROVE  ReadTrue(m)'
  BY DEF ReadTrue, Forward, RunPair

(* One attempt moves; the rows only go forward under the others. *)
LEMMA AttemptsKept ==
    ASSUME ReproInv, Forward, NEW w \in Workers, NEW v \in ReproAttempts,
           worker' = [worker EXCEPT ![w] = v], ReproAttemptTrue(w, v)'
    PROVE  \A x \in Workers : ReproAttemptTrue(x, worker[x])'
<1>1. ASSUME NEW x \in Workers PROVE ReproAttemptTrue(x, worker[x])'
  <2>1. CASE x = w
    <3>1. worker'[x] = v
      BY <2>1 DEF ReproInv, ReproTypes
    <3> QED
      BY <2>1, <3>1 DEF ReproAttemptTrue
  <2>2. CASE x # w
    <3>1. PICK u \in ReproAttempts : u = worker[x]
      BY DEF ReproInv, ReproTypes
    <3>2. ReproAttemptTrue(x, u)'
      BY <3>1, AttemptKept DEF ReproInv
    <3>3. worker'[x] = u
      BY <2>2, <3>1 DEF ReproInv, ReproTypes
    <3> QED
      BY <3>2, <3>3 DEF ReproAttemptTrue
  <2> QED
    BY <2>1, <2>2
<1> QED
  BY <1>1

(* Nor does a step of somebody else disturb the attempts. *)
LEMMA OthersKept ==
    ASSUME ReproInv, Forward, UNCHANGED worker
    PROVE  \A x \in Workers : ReproAttemptTrue(x, worker[x])'
<1>1. ASSUME NEW x \in Workers PROVE ReproAttemptTrue(x, worker[x])'
  <2>1. PICK u \in ReproAttempts : u = worker[x]
    BY DEF ReproInv, ReproTypes
  <2>2. ReproAttemptTrue(x, u)'
    BY <2>1, AttemptKept DEF ReproInv
  <2> QED
    BY <2>1, <2>2 DEF ReproAttemptTrue
<1> QED
  BY <1>1

(* What submissions have read stays what is there. *)
LEMMA SubmittersKept ==
    ASSUME ReproInv, Forward, UNCHANGED submitter
    PROVE  \A c \in Submitters : ReadTrue(submitter[c])'
<1>1. ASSUME NEW c \in Submitters PROVE ReadTrue(submitter[c])'
  <2>1. PICK m \in Manifests : m = submitter[c]
    BY DEF ReproInv, ReproTypes
  <2>2. ReadTrue(m)'
    BY <2>1, ReadKept DEF ReproInv
  <2> QED
    BY <2>1, <2>2 DEF ReadTrue
<1> QED
  BY <1>1

(* A step of one attempt that publishes and records nothing but facts *)
LEMMA QuietStep ==
    ASSUME ReproInv, ReproTypes', UNCHANGED <<computed, manifest, replay, submitter>>,
           \A r \in RunPair :
              /\ state'[r] = "succeeded" <=> state[r] = "succeeded"
              /\ state'[r] = "absent" <=> state[r] = "absent"
              /\ facts[r] # NoImage => facts'[r] = facts[r],
           NEW w \in Workers, NEW v \in ReproAttempts, worker' = [worker EXCEPT ![w] = v],
           ReproAttemptTrue(w, v)'
    PROVE  ReproInv'
<1>1. Forward
  BY DEF Forward
<1>2. \A x \in Workers : ReproAttemptTrue(x, worker[x])'
  BY <1>1, AttemptsKept
<1>3. \A r \in RunPair : RunTrue(r)'
  BY DEF ReproInv, RunTrue
<1>4. ReplayTrue'
  BY DEF ReproInv, ReplayTrue, ReadTrue, RunPair
<1>5. \A c \in Submitters : ReadTrue(submitter[c])'
  BY DEF ReproInv, ReadTrue
<1> QED
  BY <1>2, <1>3, <1>4, <1>5 DEF ReproInv

(* An attempt ends, and its run may have failed. *)
LEMMA AttemptEnds ==
    ASSUME ReproInv, NEW w \in Workers, WorkerEnds(w), worker[w].at # "idle",
           UNCHANGED state \/ RunFails(worker[w].run),
           UNCHANGED <<facts, computed, outputs, input, manifest, replay, submitter>>
    PROVE  ReproInv'
<1>1. worker[w].run \in RunPair
  BY DEF ReproInv, ReproAttemptTrue
<1>2. /\ state' \in [RunPair -> RunStages]
      /\ \A r \in RunPair :
            /\ state'[r] = "succeeded" <=> state[r] = "succeeded"
            /\ state'[r] = "absent" <=> state[r] = "absent"
  BY <1>1 DEF RunFails, ReproInv, ReproTypes, RowTypes, RunStages
<1>3. worker' = [worker EXCEPT ![w] = Resting] /\ Resting \in ReproAttempts /\ Resting.at = "idle"
  BY ManifestFacts DEF WorkerEnds
<1>4. ReproTypes'
  BY <1>2, <1>3 DEF ReproInv, ReproTypes, RowTypes
<1>5. ReproAttemptTrue(w, Resting)'
  BY <1>3 DEF ReproAttemptTrue
<1> QED
  BY <1>2, <1>3, <1>4, <1>5, QuietStep

(* TakeRun *)
LEMMA TakeRunKeeps ==
    ASSUME ReproInv, NEW w \in Workers, NEW r \in RunPair, TakeRun(w, r)
    PROVE  ReproInv'
<1>1. PICK v \in ReproAttempts :
          /\ worker' = [worker EXCEPT ![w] = v] /\ v.run = r
          /\ v.at = IF state[r] = "succeeded" THEN "build" ELSE "check"
  <2> DEFINE v == [at |-> IF state[r] = "succeeded" THEN "build" ELSE "check",
                   run |-> r, built |-> NoManifest]
  <2>1. v \in ReproAttempts
    BY ManifestFacts DEF ReproAttempts, AttemptStages
  <2>2. worker' = [worker EXCEPT ![w] = v]
    BY DEF TakeRun
  <2>3. v.run = r /\ v.at = IF state[r] = "succeeded" THEN "build" ELSE "check"
    OBVIOUS
  <2> HIDE DEF v
  <2> QED
    BY <2>1, <2>2, <2>3
<1>2. UNCHANGED <<state, facts, computed, outputs, input, manifest, replay, submitter>>
  BY DEF TakeRun
<1>3. ReproTypes'
  BY <1>1, <1>2 DEF ReproInv, ReproTypes, RowTypes
<1>4. ReproAttemptTrue(w, v)'
  BY <1>1, <1>2 DEF ReproAttemptTrue
<1> QED
  BY <1>1, <1>2, <1>3, <1>4, QuietStep

(* CheckInputs *)
LEMMA CheckInputsKeeps ==
    ASSUME ReproInv, NEW w \in Workers, CheckInputs(w)
    PROVE  ReproInv'
<1>1. worker[w].at = "check" /\ UNCHANGED <<facts, computed, outputs, input, manifest, replay, submitter>>
  BY DEF CheckInputs
<1>2. CASE WorkerTo(w, "record") /\ UNCHANGED state
  <2>1. PICK v \in ReproAttempts :
            /\ worker' = [worker EXCEPT ![w] = v]
            /\ v.at = "record" /\ v.run = worker[w].run
    BY <1>2, WorkerMoves DEF ReproInv, ReproTypes, AttemptStages
  <2>2. ReproTypes'
    BY <1>1, <1>2, <2>1 DEF ReproInv, ReproTypes, RowTypes
  <2>3. ReproAttemptTrue(w, v)'
    BY <1>1, <2>1 DEF ReproInv, ReproAttemptTrue
  <2> QED
    BY <1>1, <1>2, <2>1, <2>2, <2>3, QuietStep
<1>3. CASE WorkerEnds(w) /\ RunFails(worker[w].run)
  BY <1>1, <1>3, AttemptEnds
<1> QED
  BY <1>2, <1>3 DEF CheckInputs

(* RecordFacts: the first attempt that gets here names the image. *)
LEMMA RecordFactsKeeps ==
    ASSUME ReproInv, NEW w \in Workers, RecordFacts(w)
    PROVE  ReproInv'
<1> DEFINE r == worker[w].run
<1>1. worker[w].at = "record" /\ UNCHANGED <<computed, outputs, input, manifest, replay, submitter>>
  BY DEF RecordFacts
<1>2. CASE /\ facts' = [facts EXCEPT ![r] = IF @ = NoImage THEN ImageOf[w] ELSE @]
           /\ facts[r] \in {NoImage, ImageOf[w]}
           /\ WorkerTo(w, "compute") /\ UNCHANGED state
  <2>1. PICK v \in ReproAttempts :
            /\ worker' = [worker EXCEPT ![w] = v]
            /\ v.at = "compute" /\ v.run = worker[w].run
    BY <1>2, WorkerMoves DEF ReproInv, ReproTypes, AttemptStages
  <2>2. r \in RunPair /\ ImageOf[w] \in KnownImages
    BY <1>1 DEF ReproInv, ReproAttemptTrue, KnownImages, Images
  <2>3. /\ facts' \in [RunPair -> KnownImages] /\ facts'[r] = ImageOf[w]
        /\ \A x \in RunPair : facts[x] # NoImage => facts'[x] = facts[x]
    BY <1>2, <2>2 DEF ReproInv, ReproTypes, RowTypes
  <2>4. ReproTypes'
    BY <1>1, <1>2, <2>1, <2>3 DEF ReproInv, ReproTypes, RowTypes
  <2>5. ReproAttemptTrue(w, v)'
    BY <2>1, <2>2, <2>3 DEF ReproAttemptTrue
  <2> QED
    BY <1>1, <1>2, <2>1, <2>3, <2>4, <2>5, QuietStep
<1>3. CASE WorkerEnds(w) /\ RunFails(r) /\ UNCHANGED facts
  BY <1>1, <1>3, AttemptEnds
<1> QED
  BY <1>2, <1>3 DEF RecordFacts, FactsFor, SameFacts

(* Publish: the outputs and the success, in one transaction. *)
LEMMA PublishKeeps ==
    ASSUME ReproInv, NEW w \in Workers, NEW c \in Contents, Publish(w, c)
    PROVE  ReproInv'
<1> DEFINE r == worker[w].run
<1>1. worker[w].at = "compute" /\ UNCHANGED <<facts, input, manifest, replay, submitter>>
  BY DEF Publish
<1>2. CASE state[r] = "running"
  <2>1. /\ state' = [state EXCEPT ![r] = "succeeded"]
        /\ outputs' = [outputs EXCEPT ![r] = @ \cup {c}]
        /\ computed' = [computed EXCEPT ![r] = ImageOf[w]]
        /\ WorkerTo(w, "build")
    BY <1>2 DEF Publish
  <2>2. r \in RunPair /\ facts[r] = ImageOf[w] /\ ImageOf[w] # NoImage
        /\ ImageOf[w] \in KnownImages
    BY <1>1, ReproAssumption DEF ReproInv, ReproAttemptTrue, KnownImages, Images
  <2>3. PICK v \in ReproAttempts :
            /\ worker' = [worker EXCEPT ![w] = v]
            /\ v.at = "build" /\ v.run = r
    BY <2>1, WorkerMoves DEF ReproInv, ReproTypes, AttemptStages
  <2>4. /\ state'[r] = "succeeded" /\ computed'[r] = ImageOf[w]
        /\ \A x \in RunPair : x # r => state'[x] = state[x] /\ computed'[x] = computed[x]
        /\ state' \in [RunPair -> RunStages] /\ computed' \in [RunPair -> KnownImages]
        /\ outputs' \in [RunPair -> SUBSET Contents]
    BY <2>1, <2>2 DEF ReproInv, ReproTypes, RowTypes, RunStages
  <2>5. ReproTypes'
    BY <1>1, <2>3, <2>4 DEF ReproInv, ReproTypes, RowTypes
  <2>6. Forward
    BY <1>1, <2>4 DEF Forward
  <2>7. ReproAttemptTrue(w, v)'
    BY <2>2, <2>3, <2>4 DEF ReproAttemptTrue
  <2>8. \A x \in RunPair : RunTrue(x)'
    BY <1>1, <1>2, <2>2, <2>4 DEF ReproInv, RunTrue
  <2>9. ReplayTrue'
    <3>1. state'[Replayed] # "absent" => state[Replayed] # "absent"
      BY <1>2, <2>4 DEF RunPair
    <3> QED
      BY <1>1, <3>1 DEF ReproInv, ReplayTrue, ReadTrue
  <2> QED
    BY <1>1, <2>3, <2>5, <2>6, <2>7, <2>8, <2>9, AttemptsKept, SubmittersKept DEF ReproInv
<1>3. CASE state[r] # "running"
  BY <1>1, <1>3, AttemptEnds DEF Publish
<1> QED
  BY <1>2, <1>3

(* BuildManifest *)
LEMMA BuildManifestKeeps ==
    ASSUME ReproInv, NEW w \in Workers, BuildManifest(w)
    PROVE  ReproInv'
<1> DEFINE r == worker[w].run
<1>1. worker[w].at = "build" /\ r \in RunPair /\ state[r] = "succeeded"
      /\ UNCHANGED <<state, facts, computed, outputs, input, manifest, replay, submitter>>
  BY DEF BuildManifest, ReproInv, ReproAttemptTrue
<1>2. CASE worker' = [worker EXCEPT ![w].at = "commit", ![w].built = ManifestNow(r)]
  <2>1. PICK m \in Manifests : m = ManifestNow(r) /\ m.image = facts[r] /\ m.active
    <3> DEFINE m == ManifestNow(r)
    <3>1. facts[r] \in KnownImages /\ outputs[r] \in SUBSET Contents
      BY <1>1 DEF ReproInv, ReproTypes, RowTypes
    <3>2. m \in Manifests /\ m.image = facts[r] /\ m.active
      BY <1>1, <3>1 DEF ManifestNow, OutputsNow, Manifests
    <3> HIDE DEF m
    <3> QED
      BY <3>2 DEF m
  <2>2. PICK v \in ReproAttempts :
            /\ worker' = [worker EXCEPT ![w] = v]
            /\ v.at = "commit" /\ v.run = r /\ v.built = m
    <3> DEFINE v == [worker[w] EXCEPT !.at = "commit", !.built = m]
    <3>1. worker[w] \in ReproAttempts
      BY DEF ReproInv, ReproTypes
    <3>2. v \in ReproAttempts /\ v.at = "commit" /\ v.run = r /\ v.built = m
      BY <3>1 DEF ReproAttempts, AttemptStages
    <3>3. worker' = [worker EXCEPT ![w] = v]
      BY <1>2, <2>1 DEF ReproInv, ReproTypes
    <3> HIDE DEF v
    <3> QED
      BY <3>2, <3>3
  <2>3. ReproTypes'
    BY <1>1, <2>2 DEF ReproInv, ReproTypes, RowTypes
  <2>4. ReproAttemptTrue(w, v)'
    BY <1>1, <2>1, <2>2 DEF ReproAttemptTrue
  <2> QED
    BY <1>1, <2>2, <2>3, <2>4, QuietStep
<1>3. CASE WorkerTo(w, "existing") /\ manifest[r] # NoManifest
  <2>1. PICK v \in ReproAttempts :
            /\ worker' = [worker EXCEPT ![w] = v]
            /\ v.at = "existing" /\ v.run = r
    BY <1>3, WorkerMoves DEF ReproInv, ReproTypes, AttemptStages
  <2>2. ReproTypes'
    BY <1>1, <2>1 DEF ReproInv, ReproTypes, RowTypes
  <2>3. ReproAttemptTrue(w, v)'
    BY <1>1, <1>3, <2>1 DEF ReproAttemptTrue
  <2> QED
    BY <1>1, <2>1, <2>2, <2>3, QuietStep
<1>4. CASE WorkerEnds(w)
  BY <1>1, <1>4, AttemptEnds
<1> QED
  BY <1>2, <1>3, <1>4 DEF BuildManifest

(* The first attempt to finalize a run records its manifest, and with it   *)
(* the verdict of a replay. *)
LEMMA CommitManifestKeeps ==
    ASSUME ReproInv, NEW w \in Workers, CommitManifest(w)
    PROVE  ReproInv'
<1>1. PICK r \in RunPair, m \in Manifests :
          /\ worker[w].at = "commit" /\ r = worker[w].run /\ m = worker[w].built
          /\ state[r] = "succeeded" /\ m.image = facts[r] /\ m.active
          /\ computed[r] = facts[r] /\ facts[r] # NoImage
  BY DEF CommitManifest, ReproInv, ReproTypes, ReproAttemptTrue, RunTrue, ReproAttempts
<1>2. UNCHANGED <<state, facts, computed, outputs, input, submitter>> /\ WorkerEnds(w)
  BY DEF CommitManifest
<1>3. CASE UNCHANGED <<manifest, replay>>
  BY <1>1, <1>2, <1>3, AttemptEnds
<1>4. CASE /\ manifest[r] = NoManifest
           /\ manifest' = [manifest EXCEPT ![r] = m] /\ replay' = Compared(r, m)
  <2>1. /\ manifest'[r] = m /\ \A x \in RunPair : x # r => manifest'[x] = manifest[x]
        /\ manifest' \in [RunPair -> Manifests] /\ m # NoManifest
    BY <1>1, <1>4, ManifestFacts DEF ReproInv, ReproTypes, RowTypes
  <2>2. Forward
    BY <1>2, <1>4, <2>1 DEF Forward
  <2>3. worker' = [worker EXCEPT ![w] = Resting] /\ Resting \in ReproAttempts /\ ReproAttemptTrue(w, Resting)'
    BY <1>2, ManifestFacts DEF WorkerEnds, ReproAttemptTrue
  <2>4. \A x \in RunPair : RunTrue(x)'
    BY <1>1, <1>2, <2>1 DEF ReproInv, RunTrue
  <2>5. ReplayTrue' /\ replay' \in [expected : Manifests, verdict : Verdicts]
    <3>1. CASE r = Source
      <4>1. replay = NoReplay /\ replay' = replay
        BY <1>4, <3>1, ReproAssumption DEF Compared, ReproInv, ReplayTrue, ReadTrue
      <4>2. manifest'[Replayed] = manifest[Replayed]
        BY <2>1, <3>1, ReproAssumption DEF RunPair
      <4> QED
        BY <1>2, <4>1, <4>2, ManifestFacts DEF ReproInv, ReproTypes, ReplayTrue, ReadTrue
    <3>2. CASE r = Replayed
      <4>1. replay.verdict = "none" /\ replay # NoReplay /\ replay.expected # NoManifest
        BY <1>1, <1>4, <3>2 DEF ReproInv, ReplayTrue
      <4>2. /\ manifest'[Source] = manifest[Source] /\ manifest[Source] \in Manifests
            /\ replay.expected = Lasting(manifest[Source]) /\ manifest[Source] # NoManifest
        BY <2>1, <3>2, <4>1, ReproAssumption
        DEF RunPair, ReproInv, ReproTypes, RowTypes, ReplayTrue, ReadTrue
      <4>3. PICK d \in Verdicts \ {"none"} :
                d = Verdict(replay.expected, m) /\ d = Verdict(manifest[Source], m)
        BY <4>2, ManifestFacts, VerdictFacts
      <4>4. /\ replay'.verdict = d /\ replay'.expected = replay.expected
            /\ replay' \in [expected : Manifests, verdict : Verdicts]
        BY <1>4, <3>2, <4>1, <4>3 DEF Compared, ReproInv, ReproTypes
      <4>5. replay' # NoReplay
        BY <4>4, ManifestFacts
      <4> QED
        BY <1>2, <2>1, <3>2, <4>1, <4>2, <4>3, <4>4, <4>5 DEF ReplayTrue, ReadTrue
    <3> QED
      BY <3>1, <3>2 DEF RunPair
  <2>6. ReproTypes'
    BY <1>2, <2>1, <2>3, <2>5 DEF ReproInv, ReproTypes, RowTypes
  <2> QED
    BY <1>2, <2>2, <2>3, <2>4, <2>5, <2>6, AttemptsKept, SubmittersKept DEF ReproInv
<1> QED
  BY <1>1, <1>3, <1>4 DEF CommitManifest, Unfinalized

(* CompleteReplay: the verdict compares the two manifests as recorded. *)
LEMMA CompleteReplayKeeps ==
    ASSUME ReproInv, NEW w \in Workers, CompleteReplay(w)
    PROVE  ReproInv'
<1>1. /\ worker[w].at = "existing" /\ WorkerEnds(w)
      /\ UNCHANGED <<state, facts, computed, outputs, input, manifest, submitter>>
  BY DEF CompleteReplay
<1>2. manifest[worker[w].run] # NoManifest
  BY <1>1 DEF ReproInv, ReproAttemptTrue
<1>3. replay' = replay
  BY <1>2 DEF CompleteReplay, Compared, ReproInv, ReplayTrue
<1> QED
  BY <1>1, <1>3, AttemptEnds

-----------------------------------------------------------------------------
(* Users. *)

(* A submission reads the manifest, or it has been decided. *)
LEMMA ReadSourceKeeps ==
    ASSUME ReproInv, NEW c \in Submitters, ReadSource(c)
    PROVE  ReproInv'
<1>1. /\ submitter' = [submitter EXCEPT ![c] = manifest[Source]] /\ manifest[Source].active
      /\ UNCHANGED <<state, facts, computed, outputs, input, manifest, replay, worker>>
  BY DEF ReadSource
<1>2. manifest[Source] \in Manifests
  BY DEF ReproInv, ReproTypes, RowTypes, RunPair
<1>3. ReproTypes' /\ Forward
  BY <1>1, <1>2 DEF ReproInv, ReproTypes, RowTypes, Forward
<1>4. \A x \in Submitters : ReadTrue(submitter[x])'
  <2>1. ReadTrue(manifest[Source])
    BY <1>1, <1>2, LastingStays DEF ReadTrue
  <2>2. \A x \in Submitters : submitter'[x] \in {submitter[x], manifest[Source]}
    BY <1>1 DEF ReproInv, ReproTypes
  <2> QED
    BY <1>1, <2>1, <2>2 DEF ReproInv, ReadTrue
<1>5. (\A x \in RunPair : RunTrue(x)') /\ ReplayTrue'
  BY <1>1 DEF ReproInv, RunTrue, ReplayTrue, ReadTrue
<1> QED
  BY <1>1, <1>3, <1>4, <1>5, OthersKept DEF ReproInv

(* SubmitReplay *)
LEMMA SubmitReplayKeeps ==
    ASSUME ReproInv, NEW c \in Submitters, SubmitReplay(c)
    PROVE  ReproInv'
<1>1. /\ submitter' = [submitter EXCEPT ![c] = NoManifest] /\ submitter[c] # NoManifest
      /\ UNCHANGED <<facts, computed, outputs, input, manifest, worker>>
  BY DEF SubmitReplay
<1>2. /\ Replayed \in RunPair
      /\ \/ UNCHANGED <<state, replay>>
         \/ /\ state[Replayed] = "absent" /\ state' = [state EXCEPT ![Replayed] = "running"]
            /\ replay' = [expected |-> submitter[c], verdict |-> "none"]
  BY DEF SubmitReplay, RunPair
<1>3. PICK m \in Manifests : m = submitter[c] /\ ReadTrue(m) /\ m # NoManifest
  BY <1>1 DEF ReproInv, ReproTypes
<1>4. \A x \in Submitters : ReadTrue(submitter[x])'
  <2>1. \A x \in Submitters : submitter'[x] \in {submitter[x], NoManifest}
    BY <1>1 DEF ReproInv, ReproTypes
  <2> QED
    BY <1>1, <2>1 DEF ReproInv, ReadTrue
<1>5. CASE UNCHANGED <<state, replay>>
  <2>1. ReproTypes' /\ Forward
    BY <1>1, <1>5, ManifestFacts DEF ReproInv, ReproTypes, RowTypes, Forward
  <2>2. (\A x \in RunPair : RunTrue(x)') /\ ReplayTrue'
    BY <1>1, <1>5 DEF ReproInv, RunTrue, ReplayTrue, ReadTrue
  <2> QED
    BY <1>1, <1>4, <2>1, <2>2, OthersKept DEF ReproInv
<1>6. CASE /\ state[Replayed] = "absent" /\ state' = [state EXCEPT ![Replayed] = "running"]
           /\ replay' = [expected |-> m, verdict |-> "none"]
  <2>1. /\ state' \in [RunPair -> RunStages] /\ state'[Replayed] = "running"
        /\ \A r \in RunPair : r # Replayed => state'[r] = state[r]
    BY <1>2, <1>6 DEF ReproInv, ReproTypes, RowTypes, RunStages
  <2>2. /\ replay'.expected = m /\ replay'.verdict = "none"
        /\ replay' \in [expected : Manifests, verdict : Verdicts]
    BY <1>6 DEF Verdicts
  <2>3. ReproTypes'
    BY <1>1, <2>1, <2>2, ManifestFacts DEF ReproInv, ReproTypes, RowTypes
  <2>4. Forward
    BY <1>1, <1>6, <2>1 DEF Forward
  <2>5. \A x \in RunPair : RunTrue(x)'
    BY <1>1, <1>6, <2>1 DEF ReproInv, RunTrue
  <2>6. ReplayTrue'
    <3>1. manifest[Replayed] = NoManifest
      BY <1>2, <1>6 DEF ReproInv, RunTrue
    <3>2. replay' # NoReplay
      BY <1>3, <2>2, ManifestFacts
    <3> QED
      BY <1>1, <1>3, <2>2, <3>1, <3>2 DEF ReplayTrue, ReadTrue
  <2> QED
    BY <1>1, <1>4, <2>3, <2>4, <2>5, <2>6, OthersKept DEF ReproInv
<1> QED
  BY <1>2, <1>3, <1>5, <1>6

(* Outputs and inputs come and go. *)
LEMMA ArtifactsKeep ==
    ASSUME ReproInv,
           \/ \E r \in RunPair, c \in Contents : UploadOutput(r, c) \/ DeleteOutput(r, c)
           \/ DeleteInput
    PROVE  ReproInv'
<1>1. /\ outputs' \in [RunPair -> SUBSET Contents] /\ input' \in BOOLEAN
      /\ UNCHANGED <<state, facts, computed, manifest, replay, worker, submitter>>
  <2>1. outputs \in [RunPair -> SUBSET Contents] /\ input \in BOOLEAN
    BY DEF ReproInv, ReproTypes, RowTypes
  <2>2. ASSUME NEW r \in RunPair, NEW c \in Contents, UploadOutput(r, c) \/ DeleteOutput(r, c)
        PROVE  /\ outputs' \in [RunPair -> SUBSET Contents] /\ input' \in BOOLEAN
               /\ UNCHANGED <<state, facts, computed, manifest, replay, worker, submitter>>
    BY <2>1, <2>2 DEF UploadOutput, DeleteOutput
  <2>3. CASE DeleteInput
    BY <2>1, <2>3 DEF DeleteInput
  <2> QED
    BY <2>2, <2>3
<1>2. ReproTypes' /\ Forward
  BY <1>1 DEF ReproInv, ReproTypes, RowTypes, Forward
<1>3. (\A x \in RunPair : RunTrue(x)') /\ ReplayTrue'
  BY <1>1 DEF ReproInv, RunTrue, ReplayTrue, ReadTrue
<1> QED
  BY <1>1, <1>2, <1>3, OthersKept, SubmittersKept DEF ReproInv

(* DeleteManifest *)
LEMMA DeleteManifestKeeps ==
    ASSUME ReproInv, NEW r \in RunPair, DeleteManifest(r)
    PROVE  ReproInv'
<1>1. /\ manifest[r].active
      /\ UNCHANGED <<state, facts, computed, outputs, input, replay, worker, submitter>>
  BY DEF DeleteManifest
<1>2. PICK m \in Manifests : m = manifest[r] /\ m # NoManifest /\ m.image # NoImage
  BY <1>1, ManifestFacts DEF ReproInv, ReproTypes, RowTypes, RunTrue
<1>3. /\ manifest'[r] = DeletedManifest(m) /\ manifest' \in [RunPair -> Manifests]
      /\ \A x \in RunPair : x # r => manifest'[x] = manifest[x]
  <2>1. manifest' = [manifest EXCEPT ![r] = DeletedManifest(m)]
    BY <1>2 DEF DeleteManifest, DeletedManifest
  <2>2. DeletedManifest(m) \in Manifests
    BY ManifestFacts
  <2> QED
    BY <2>1, <2>2 DEF ReproInv, ReproTypes, RowTypes
<1>4. /\ DeletedManifest(m) # NoManifest /\ Lasting(DeletedManifest(m)) = Lasting(m)
      /\ DeletedManifest(m).image = m.image /\ DeletedManifest(m).outputs = m.outputs
  BY <1>2, LastingStays, ManifestFacts
<1>5. \A x \in RunPair : /\ manifest'[x] = NoManifest <=> manifest[x] = NoManifest
                         /\ Lasting(manifest'[x]) = Lasting(manifest[x])
                         /\ manifest'[x].image = manifest[x].image
                         /\ manifest'[x].outputs = manifest[x].outputs
  BY <1>2, <1>3, <1>4
<1>6. ReproTypes' /\ Forward
  BY <1>1, <1>3, <1>5 DEF ReproInv, ReproTypes, RowTypes, Forward
<1>7. \A x \in RunPair : RunTrue(x)'
  BY <1>1, <1>5 DEF ReproInv, RunTrue
<1>8. ReplayTrue'
  <2>1. Verdict(manifest'[Source], manifest'[Replayed]) = Verdict(manifest[Source], manifest[Replayed])
    <3>1. Verdict(manifest'[Source], manifest'[Replayed]) = Verdict(manifest[Source], manifest'[Replayed])
      BY <1>5, VerdictFacts DEF RunPair
    <3>2. Verdict(manifest[Source], manifest'[Replayed]) = Verdict(manifest[Source], manifest[Replayed])
      BY <1>5, VerdictFacts DEF RunPair
    <3> QED
      BY <3>1, <3>2
  <2>2. ReadTrue(replay.expected)'
    BY <1>1, <1>5 DEF RunPair, ReproInv, ReplayTrue, ReadTrue
  <2>3. manifest'[Replayed] = NoManifest <=> manifest[Replayed] = NoManifest
    BY <1>5 DEF RunPair
  <2> QED
    BY <1>1, <2>1, <2>2, <2>3 DEF ReproInv, ReplayTrue
<1> QED
  BY <1>1, <1>6, <1>7, <1>8, OthersKept, SubmittersKept DEF ReproInv

-----------------------------------------------------------------------------
(* Initially nothing has been recorded. *)
LEMMA ReproStart == ReproInit => ReproInv
<1> SUFFICES ASSUME ReproInit PROVE ReproInv
  OBVIOUS
<1>1. ReproTypes
  <2>1. replay \in [expected : Manifests, verdict : Verdicts]
    BY ManifestFacts DEF ReproInit, NoReplay, Verdicts
  <2> QED
    BY <2>1, ManifestFacts
    DEF ReproInit, ReproTypes, RowTypes, RunStages, KnownImages
<1>2. \A w \in Workers : ReproAttemptTrue(w, worker[w])
  BY ManifestFacts DEF ReproInit, ReproAttemptTrue
<1>3. \A r \in RunPair : RunTrue(r)
  BY DEF ReproInit, RunTrue
<1>4. ReplayTrue
  BY ManifestFacts, ReproAssumption DEF ReproInit, ReplayTrue, ReadTrue, RunPair
<1>5. \A c \in Submitters : ReadTrue(submitter[c])
  BY DEF ReproInit, ReadTrue
<1> QED
  BY <1>1, <1>2, <1>3, <1>4, <1>5 DEF ReproInv

(* Every step keeps the invariant. *)
LEMMA ReproKeepsInv == ReproInv /\ [ReproNext]_reproVars => ReproInv'
<1> SUFFICES ASSUME ReproInv, [ReproNext]_reproVars PROVE ReproInv'
  OBVIOUS
<1>1. CASE UNCHANGED reproVars
  BY <1>1 DEF reproVars, ReproInv, ReproTypes, RowTypes, ReproAttemptTrue, RunTrue, ReplayTrue, ReadTrue
<1>2. ASSUME NEW w \in Workers,
             \/ \E r \in RunPair : TakeRun(w, r)
             \/ \E c \in Contents : Publish(w, c)
             \/ CheckInputs(w) \/ RecordFacts(w) \/ Interrupt(w)
             \/ BuildManifest(w) \/ CommitManifest(w) \/ CompleteReplay(w)
      PROVE  ReproInv'
  <2>1. CASE Interrupt(w)
    BY <2>1, AttemptEnds DEF Interrupt
  <2> QED
    BY <1>2, <2>1, TakeRunKeeps, PublishKeeps, CheckInputsKeeps, RecordFactsKeeps,
       BuildManifestKeeps, CommitManifestKeeps, CompleteReplayKeeps
<1>3. ASSUME NEW c \in Submitters, ReadSource(c) \/ SubmitReplay(c)
      PROVE  ReproInv'
  BY <1>3, ReadSourceKeeps, SubmitReplayKeeps
<1>4. CASE \/ \E r \in RunPair, c \in Contents : UploadOutput(r, c) \/ DeleteOutput(r, c)
           \/ DeleteInput
  BY <1>4, ArtifactsKeep
<1>5. CASE \E r \in RunPair : DeleteManifest(r)
  BY <1>5, DeleteManifestKeeps
<1> QED
  BY <1>1, <1>2, <1>3, <1>4, <1>5 DEF ReproNext

(* What the invariant says of a user's reading of facts and verdicts *)
LEMMA InvGivesManifests == ReproInv => ManifestsTrue
<1> SUFFICES ASSUME ReproInv PROVE ManifestsTrue
  OBVIOUS
<1>1. ProvenanceTrue
  BY DEF ReproInv, RunTrue, ProvenanceTrue
<1>2. ASSUME replay # NoReplay
      PROVE  [manifest[Source] EXCEPT !.active = TRUE] = replay.expected
  BY <1>2 DEF ReproInv, ReplayTrue, ReadTrue, Lasting
<1> QED
  BY <1>1, <1>2 DEF ReproInv, ReplayTrue, ReplayVerdictTrue, ManifestsTrue

(* However attempts of different images overlap, fail and are repeated,    *)
(* and whatever users delete and upload meanwhile, a manifest names the    *)
(* image that computed the result, and a replay has the verdict of the two *)
(* recorded manifests (ManifestsTrue). *)
THEOREM ManifestsStayTrue == ReproInit /\ [][ReproNext]_reproVars => []ManifestsTrue
  BY ReproStart, ReproKeepsInv, InvGivesManifests, PTL

-----------------------------------------------------------------------------
(* Types *)

(* A manifest, written or about to be, is the one of its run. *)
ManifestsOwned ==
    /\ \A r \in RunPair : manifest[r].run \in {"none", r}
    /\ \A w \in Workers : worker[w].at = "commit" => worker[w].built.run = worker[w].run

(* A manifest is built and written by the attempt of its run. *)
LEMMA OwnedKept ==
    ASSUME ReproInv, ManifestsOwned, [ReproNext]_reproVars
    PROVE  ManifestsOwned'
<1>1. /\ manifest \in [RunPair -> Manifests] /\ worker \in [Workers -> ReproAttempts]
      /\ \A w \in Workers : worker[w].at # "idle" => worker[w].run \in RunPair
  BY DEF ReproInv, ReproTypes, RowTypes, ReproAttemptTrue
<1>2. ASSUME NEW w \in Workers, NEW v, worker' = [worker EXCEPT ![w] = v],
             v.at = "commit" => v.built.run = v.run, manifest' = manifest
      PROVE  ManifestsOwned'
  BY <1>1, <1>2 DEF ManifestsOwned
<1>3. ASSUME NEW w \in Workers, NEW at, at # "commit", WorkerTo(w, at), manifest' = manifest
      PROVE  ManifestsOwned'
  BY <1>1, <1>2, <1>3 DEF WorkerTo, ReproAttempts
<1>4. ASSUME NEW w \in Workers, WorkerEnds(w), manifest' = manifest
      PROVE  ManifestsOwned'
  BY <1>2, <1>4 DEF WorkerEnds, Resting
<1>5. ASSUME NEW w \in Workers, NEW r \in RunPair, TakeRun(w, r) PROVE ManifestsOwned'
  <2> DEFINE v == [at |-> IF state[r] = "succeeded" THEN "build" ELSE "check",
                   run |-> r, built |-> NoManifest]
  <2>1. v.at # "commit" /\ worker' = [worker EXCEPT ![w] = v] /\ manifest' = manifest
    BY <1>5 DEF TakeRun
  <2> QED
    BY <1>2, <2>1
<1>6. ASSUME NEW w \in Workers, BuildManifest(w) PROVE ManifestsOwned'
  <2>1. CASE worker' = [worker EXCEPT ![w].at = "commit", ![w].built = ManifestNow(worker[w].run)]
    <3> DEFINE v == [worker[w] EXCEPT !.at = "commit", !.built = ManifestNow(worker[w].run)]
    <3>1. worker' = [worker EXCEPT ![w] = v] /\ manifest' = manifest
      BY <1>6, <2>1 DEF BuildManifest
    <3>2. v.built.run = v.run
      BY <1>1 DEF ReproAttempts, ManifestNow
    <3> QED
      BY <1>2, <3>1, <3>2
  <2> QED
    BY <1>3, <1>4, <1>6, <2>1 DEF BuildManifest
<1>7. ASSUME NEW w \in Workers, CommitManifest(w) PROVE ManifestsOwned'
  <2>1. worker[w].run \in RunPair /\ worker[w].at = "commit"
    BY <1>1, <1>7 DEF CommitManifest
  <2>2. manifest' = manifest \/ manifest' = [manifest EXCEPT ![worker[w].run] = worker[w].built]
    BY <1>7 DEF CommitManifest
  <2>3. worker[w].built.run = worker[w].run
    BY <2>1 DEF ManifestsOwned
  <2>4. worker' = [worker EXCEPT ![w] = Resting] /\ Resting.at = "idle"
    BY <1>7 DEF CommitManifest, WorkerEnds, Resting
  <2> QED
    BY <1>1, <2>1, <2>2, <2>3, <2>4 DEF ManifestsOwned
<1>8. ASSUME NEW r \in RunPair, DeleteManifest(r) PROVE ManifestsOwned'
  <2>1. manifest'[r].run = manifest[r].run /\ (\A q \in RunPair \ {r} : manifest'[q] = manifest[q])
    BY <1>1, <1>8 DEF DeleteManifest, Manifests
  <2> QED
    BY <1>8, <2>1 DEF DeleteManifest, ManifestsOwned
<1>9. CASE UNCHANGED <<manifest, worker>>
  BY <1>9 DEF ManifestsOwned
<1>10. ASSUME NEW w \in Workers,
              \/ CheckInputs(w) \/ RecordFacts(w) \/ Interrupt(w) \/ CompleteReplay(w)
              \/ \E c \in Contents : Publish(w, c)
       PROVE  ManifestsOwned'
  BY <1>3, <1>4, <1>10 DEF CheckInputs, RecordFacts, Interrupt, CompleteReplay, Publish
<1> QED
  BY <1>5, <1>6, <1>7, <1>8, <1>9, <1>10
  DEF ReproNext, ReadSource, SubmitReplay, UploadOutput, DeleteOutput, DeleteInput, reproVars

(* A manifest is the one of the run whose row it is, and facts and outputs *)
(* are images and contents, however attempts of a pair of runs overlap     *)
(* (record_execution, finalize, submit_replay).                            *)
THEOREM ReproTypesKept == ReproInit /\ [][ReproNext]_reproVars => []ReproTypeOK
<1>1. ReproInit => ManifestsOwned
  BY DEF ReproInit, ManifestsOwned, NoManifest, Resting
<1>2. ReproInv /\ ManifestsOwned => ReproTypeOK
  BY DEF ReproInv, ReproTypes, RowTypes, RunStages, KnownImages, ReproAttempts, AttemptStages,
         ManifestsOwned, ReproTypeOK
<1>3. ReproInv /\ ManifestsOwned /\ [ReproNext]_reproVars => ManifestsOwned'
  BY OwnedKept
<1> QED
  BY <1>1, <1>2, <1>3, ReproStart, ReproKeepsInv, PTL

-----------------------------------------------------------------------------
(***************************************************************************)
(* Corpora, their quota, the deletion of projects and the audit chain      *)
(* (Workspaces), for any number of projects and transactions.              *)
(***************************************************************************)

-----------------------------------------------------------------------------
(* Sums over finite sets *)

(* Every set of naturals has a smallest element. *)
LEMMA SmallestNat ==
    ASSUME NEW S \in SUBSET Nat, S # {}
    PROVE  \E n \in S : \A m \in S : n <= m
<1> DEFINE LessThan == OpToRel(<, Nat)
<1>1. IsWellFoundedOn(LessThan, Nat)
  BY NatLessThanWellFounded
<1>2. LessThan = {p \in Nat \X Nat : p[1] < p[2]}
  BY DEF OpToRel
<1> HIDE DEF LessThan
<1>3. PICK n \in S : \A m \in S : ~(<<m, n>> \in LessThan)
  BY <1>1, WFMin
<1>4. ASSUME NEW m \in S PROVE n <= m
  <2>1. m \in Nat /\ n \in Nat /\ ~(<<m, n>> \in LessThan)
    BY <1>3
  <2>2. ~(m < n)
    BY <1>2, <2>1
  <2> QED
    BY <2>1, <2>2
<1> QED
  BY <1>4

Some(s) == CHOOSE x \in s : TRUE

(* g is the iteration of a sum of the weights w over the subsets of T *)
Sums(g, w, T) ==
    g = [s \in SUBSET T |-> IF s = {} THEN 0 ELSE w[Some(s)] + g[s \ {Some(s)}]]

UpTo(T, n) == {s \in SUBSET T : Cardinality(s) <= n}

SumsUpTo(g, w, T, n) ==
    g = [s \in UpTo(T, n) |-> IF s = {} THEN 0 ELSE w[Some(s)] + g[s \ {Some(s)}]]

(* A chosen element leaves a smaller set. *)
LEMMA WithoutSome ==
    ASSUME NEW T, IsFiniteSet(T), NEW s \in SUBSET T, NEW x \in s
    PROVE  /\ IsFiniteSet(s) /\ Cardinality(s) \in Nat
           /\ s \ {x} \in SUBSET T /\ Cardinality(s \ {x}) = Cardinality(s) - 1
           /\ Cardinality(s) - 1 \in Nat /\ Some(s) \in s
<1>1. IsFiniteSet(s)
  BY FS_Subset
<1>2. Cardinality(s) \in Nat /\ IsFiniteSet(s \ {x}) /\ Cardinality(s \ {x}) = Cardinality(s) - 1
  BY <1>1, FS_RemoveElement, FS_CardinalityType
<1>3. Cardinality(s \ {x}) \in Nat
  BY <1>2, FS_CardinalityType
<1>4. Some(s) \in s
  BY DEF Some
<1> QED
  BY <1>1, <1>2, <1>3, <1>4

(* The iteration exists, by induction over the size of the sets. *)
LEMMA SumsExist ==
    ASSUME NEW T, IsFiniteSet(T), NEW w
    PROVE  \E g : Sums(g, w, T)
<1> DEFINE Bad == {n \in Nat : ~\E g : SumsUpTo(g, w, T, n)}
<1>1. Bad = {}
  <2> SUFFICES ASSUME Bad # {} PROVE FALSE
    OBVIOUS
  <2>1. PICK n \in Bad : \A m \in Bad : n <= m
    <3>1. Bad \in SUBSET Nat
      OBVIOUS
    <3> HIDE DEF Bad
    <3> QED
      BY <3>1, SmallestNat
  <2>2. n \in Nat /\ ~\E g : SumsUpTo(g, w, T, n)
    OBVIOUS
  <2>3. CASE n = 0
    <3> DEFINE g == [s \in UpTo(T, 0) |-> 0]
    <3>1. ASSUME NEW s \in UpTo(T, 0) PROVE s = {}
      <4>1. s \in SUBSET T /\ IsFiniteSet(s) /\ Cardinality(s) <= 0
        BY <3>1, FS_Subset DEF UpTo
      <4>2. Cardinality(s) = 0
        BY <4>1, FS_CardinalityType
      <4> QED
        BY <4>1, <4>2, FS_EmptySet
    <3>2. SumsUpTo(g, w, T, 0)
      BY <3>1 DEF SumsUpTo
    <3> QED
      BY <2>2, <2>3, <3>2
  <2>4. CASE n # 0
    <3>1. n - 1 \in Nat /\ n - 1 \notin Bad
      BY <2>1, <2>2, <2>4
    <3>2. PICK h : SumsUpTo(h, w, T, n - 1)
      BY <3>1
    <3> HIDE DEF Bad
    <3> DEFINE g == [s \in UpTo(T, n) |-> IF s = {} THEN 0 ELSE w[Some(s)] + h[s \ {Some(s)}]]
    <3>3. ASSUME NEW s \in UpTo(T, n), s # {}
          PROVE  s \ {Some(s)} \in UpTo(T, n - 1) /\ s \ {Some(s)} \in UpTo(T, n)
      <4>1. s \in SUBSET T /\ Cardinality(s) <= n /\ Some(s) \in s
        BY <3>3, WithoutSome DEF UpTo, Some
      <4>2. /\ s \ {Some(s)} \in SUBSET T /\ Cardinality(s \ {Some(s)}) = Cardinality(s) - 1
            /\ Cardinality(s) \in Nat
        BY <4>1, WithoutSome
      <4> QED
        BY <2>2, <4>1, <4>2 DEF UpTo
    <3>4. ASSUME NEW u \in UpTo(T, n - 1), u \in UpTo(T, n) PROVE g[u] = h[u]
      <4>1. h[u] = IF u = {} THEN 0 ELSE w[Some(u)] + h[u \ {Some(u)}]
        BY <3>2, <3>4 DEF SumsUpTo
      <4> QED
        BY <3>4, <4>1
    <3>5. ASSUME NEW s \in UpTo(T, n)
          PROVE  g[s] = IF s = {} THEN 0 ELSE w[Some(s)] + g[s \ {Some(s)}]
      BY <3>3, <3>4
    <3>6. SumsUpTo(g, w, T, n)
      <4>1. g = [s \in UpTo(T, n) |-> g[s]]
        OBVIOUS
      <4> HIDE DEF g
      <4> QED
        BY <3>5, <4>1 DEF SumsUpTo
    <3> QED
      BY <2>2, <3>6
  <2> QED
    BY <2>3, <2>4
<1>2. Cardinality(T) \in Nat
  BY FS_CardinalityType
<1>3. PICK g : SumsUpTo(g, w, T, Cardinality(T))
  BY <1>1, <1>2
<1>4. UpTo(T, Cardinality(T)) = SUBSET T
  BY FS_Subset DEF UpTo
<1>5. Sums(g, w, T)
  BY <1>3, <1>4 DEF SumsUpTo, Sums
<1> QED
  BY <1>5

(* The order of the elements is of no consequence, nor are other weights. *)
LEMMA SumsValue ==
    ASSUME NEW T, IsFiniteSet(T), NEW w \in [T -> Int], NEW g, Sums(g, w, T)
    PROVE  \A s \in SUBSET T : g[s] \in Int /\ \A x \in s : g[s] = w[x] + g[s \ {x}]
<1> DEFINE Good(s) == g[s] \in Int /\ \A x \in s : g[s] = w[x] + g[s \ {x}]
           Bad == {n \in Nat : \E s \in SUBSET T : Cardinality(s) = n /\ ~Good(s)}
<1>0. ASSUME NEW s \in SUBSET T
      PROVE  g[s] = IF s = {} THEN 0 ELSE w[Some(s)] + g[s \ {Some(s)}]
  BY DEF Sums
<1>1. Bad = {}
  <2> SUFFICES ASSUME Bad # {} PROVE FALSE
    OBVIOUS
  <2>1. PICK n \in Bad : \A m \in Bad : n <= m
    <3>1. Bad \in SUBSET Nat
      OBVIOUS
    <3> HIDE DEF Bad
    <3> QED
      BY <3>1, SmallestNat
  <2>2. PICK s \in SUBSET T : Cardinality(s) = n /\ ~Good(s)
    OBVIOUS
  <2>3. s # {}
    BY <1>0, <2>2
  <2>4. ASSUME NEW u \in SUBSET T, Cardinality(u) \in Nat, Cardinality(u) < n PROVE Good(u)
    <3>1. Cardinality(u) \notin Bad
      BY <2>1, <2>4
    <3> QED
      BY <2>4, <3>1
  <2>10. n \in Nat
    OBVIOUS
  <2> HIDE DEF Bad
  <2>5. ASSUME NEW x \in s PROVE Good(s \ {x}) /\ s \ {x} \in SUBSET T
    <3> DEFINE u == s \ {x}
    <3>1. u \in SUBSET T /\ Cardinality(u) \in Nat /\ Cardinality(u) < n
      BY <2>2, <2>10, WithoutSome
    <3> HIDE DEF u, Good
    <3>2. Good(u)
      BY <2>4, <3>1
    <3> QED
      BY <3>1, <3>2 DEF u
  <2>6. Some(s) \in s /\ w[Some(s)] \in Int
    BY <2>3, WithoutSome DEF Some
  <2>7. g[s] = w[Some(s)] + g[s \ {Some(s)}]
    BY <1>0, <2>3
  <2>8. g[s] \in Int
    BY <2>5, <2>6, <2>7
  <2>9. ASSUME NEW x \in s, x # Some(s) PROVE g[s] = w[x] + g[s \ {x}]
    <3>1. x \in s \ {Some(s)} /\ Some(s) \in s \ {x} /\ w[x] \in Int
      BY <2>6, <2>9
    <3>2. g[s \ {Some(s)}] = w[x] + g[(s \ {Some(s)}) \ {x}]
      BY <2>5, <2>6, <3>1
    <3>3. g[s \ {x}] = w[Some(s)] + g[(s \ {x}) \ {Some(s)}]
      BY <2>5, <3>1
    <3>4. (s \ {x}) \ {Some(s)} = (s \ {Some(s)}) \ {x}
      OBVIOUS
    <3>5. (s \ {x}) \ {Some(s)} \in SUBSET T /\ g[s \ {x}] \in Int /\ g[s \ {Some(s)}] \in Int
      BY <2>5, <2>6
    <3>6. g[(s \ {x}) \ {Some(s)}] = 0 \/ g[(s \ {x}) \ {Some(s)}] \in Int
      <4> DEFINE v == s \ {x}
      <4>1. Some(s) \in v /\ v \in SUBSET T /\ IsFiniteSet(v)
        BY <2>5, <3>1, FS_Subset
      <4>2. Cardinality(v) = n - 1 /\ n - 1 \in Nat
        BY <2>2, WithoutSome
      <4> HIDE DEF v
      <4>3. /\ v \ {Some(s)} \in SUBSET T /\ Cardinality(v \ {Some(s)}) = n - 1 - 1
            /\ n - 1 - 1 \in Nat
        BY <4>1, <4>2, WithoutSome
      <4>4. n - 1 - 1 < n
        BY <2>10
      <4>5. Good(v \ {Some(s)})
        <5> DEFINE u == v \ {Some(s)}
        <5>1. u \in SUBSET T /\ Cardinality(u) \in Nat /\ Cardinality(u) < n
          BY <4>3, <4>4
        <5> HIDE DEF u, Good
        <5>2. Good(u)
          BY <2>4, <5>1
        <5> QED
          BY <5>2 DEF u
      <4> QED
        BY <4>5 DEF v
    <3> QED
      BY <2>6, <2>7, <3>1, <3>2, <3>3, <3>4, <3>5, <3>6
  <2> QED
    BY <2>2, <2>7, <2>8, <2>9
<1>2. ASSUME NEW s \in SUBSET T PROVE Good(s)
  <2>1. Cardinality(s) \in Nat /\ Cardinality(s) \notin Bad
    BY <1>1, FS_Subset, FS_CardinalityType
  <2> QED
    BY <2>1
<1> QED
  BY <1>2

(* Where the weights agree, the sums do. *)
LEMMA SumsAgree ==
    ASSUME NEW T, IsFiniteSet(T), NEW w \in [T -> Int], NEW g, Sums(g, w, T),
           NEW U, IsFiniteSet(U), NEW v \in [U -> Int], NEW h, Sums(h, v, U),
           NEW s \in SUBSET (T \cap U), \A x \in s : w[x] = v[x]
    PROVE  g[s] = h[s]
<1> DEFINE Bad == {n \in Nat : \E u \in SUBSET s : Cardinality(u) = n /\ g[u] # h[u]}
<1>0. /\ IsFiniteSet(s) /\ g[{}] = 0 /\ h[{}] = 0
  BY FS_Subset DEF Sums
<1>1. Bad = {}
  <2> SUFFICES ASSUME Bad # {} PROVE FALSE
    OBVIOUS
  <2>1. PICK n \in Bad : \A m \in Bad : n <= m
    <3>1. Bad \in SUBSET Nat
      OBVIOUS
    <3> HIDE DEF Bad
    <3> QED
      BY <3>1, SmallestNat
  <2>2. PICK u \in SUBSET s : Cardinality(u) = n /\ g[u] # h[u]
    OBVIOUS
  <2>3. PICK x \in u : TRUE
    BY <1>0, <2>2
  <2>4. /\ u \ {x} \in SUBSET s /\ Cardinality(u \ {x}) = n - 1 /\ n - 1 \in Nat
    BY <1>0, <2>2, WithoutSome
  <2>5. n - 1 \notin Bad
    BY <2>1, <2>4
  <2>6. g[u \ {x}] = h[u \ {x}]
    BY <2>4, <2>5
  <2> HIDE DEF Bad
  <2>7. g[u] = w[x] + g[u \ {x}] /\ h[u] = v[x] + h[u \ {x}]
    <3>1. u \in SUBSET T /\ u \in SUBSET U
      OBVIOUS
    <3> QED
      BY <3>1, SumsValue
  <2>8. w[x] = v[x]
    OBVIOUS
  <2> QED
    BY <2>2, <2>6, <2>7, <2>8
<1>2. Cardinality(s) \in Nat /\ Cardinality(s) \notin Bad
  BY <1>0, <1>1, FS_CardinalityType
<1> QED
  BY <1>2

-----------------------------------------------------------------------------
(* The sizes of corpora *)

Size(s) == FoldSeq(LAMBDA v, n : SizeOf[v.content] + n, 0, s)
Weights(s) == [i \in DOMAIN s |-> SizeOf[s[i].content]]

VersionRows == [content : CorpusContents, number : Nat, parent : Nat]

(* Size, the fold of the community modules, is such a sum. *)
LEMMA SizeIsSum ==
    ASSUME NEW s, IsFiniteSet(DOMAIN s)
    PROVE  \E g : Sums(g, Weights(s), DOMAIN s) /\ Size(s) = g[DOMAIN s]
<1> DEFINE Iter(f) == f = [u \in SUBSET DOMAIN s |->
                 IF u = {} THEN 0
                 ELSE SizeOf[s[CHOOSE x \in u : TRUE].content] + f[u \ {CHOOSE x \in u : TRUE}]]
           g == CHOOSE f : Iter(f)
<1>1. ASSUME NEW f PROVE Iter(f) <=> Sums(f, Weights(s), DOMAIN s)
  <2>1. ASSUME NEW u \in SUBSET DOMAIN s, u # {}
        PROVE  Weights(s)[Some(u)] = SizeOf[s[CHOOSE x \in u : TRUE].content]
    BY <2>1 DEF Weights, Some
  <2> QED
    BY <2>1 DEF Sums, Some
<1>2. \E f : Iter(f)
  <2> HIDE DEF Iter
  <2> QED
    BY <1>1, SumsExist
<1>3. Iter(g)
  <2> HIDE DEF Iter
  <2> QED
    BY <1>2
<1>4. Size(s) = g[DOMAIN s]
  BY DEF Size, FoldSeq, FoldFunction, FoldFunctionOnSet, MapThenFoldSet
<1> QED
  BY <1>1, <1>3, <1>4

(* What a corpus without versions, and one with a version more, sum up to. *)
LEMMA SizeOfVersions ==
    /\ Size(<<>>) = 0
    /\ \A s \in Seq(VersionRows) :
          /\ Size(s) \in Int
          /\ \A v \in VersionRows : Size(Append(s, v)) = Size(s) + SizeOf[v.content]
<1>1. ASSUME NEW s \in Seq(VersionRows)
      PROVE  /\ IsFiniteSet(DOMAIN s) /\ DOMAIN s = 1..Len(s) /\ Len(s) \in Nat
             /\ Weights(s) \in [DOMAIN s -> Int]
  <2>1. DOMAIN s = 1..Len(s) /\ Len(s) \in Nat
    OBVIOUS
  <2>2. IsFiniteSet(1..Len(s))
    BY <2>1, FS_Interval
  <2>3. \A i \in DOMAIN s : s[i] \in VersionRows
    OBVIOUS
  <2>4. \A i \in DOMAIN s : SizeOf[s[i].content] \in Int
    BY <2>3, WorkspaceAssumption DEF VersionRows
  <2> QED
    BY <2>1, <2>2, <2>4 DEF Weights
<1>2. Size(<<>>) = 0
  <2>1. DOMAIN <<>> = {} /\ IsFiniteSet({})
    BY FS_EmptySet
  <2>2. PICK g : Sums(g, Weights(<<>>), DOMAIN <<>>) /\ Size(<<>>) = g[DOMAIN <<>>]
    BY <2>1, SizeIsSum
  <2> QED
    BY <2>1, <2>2 DEF Sums
<1>3. ASSUME NEW s \in Seq(VersionRows) PROVE Size(s) \in Int
  <2>1. PICK g : Sums(g, Weights(s), DOMAIN s) /\ Size(s) = g[DOMAIN s]
    BY <1>1, SizeIsSum
  <2> QED
    BY <1>1, <2>1, SumsValue
<1>4. ASSUME NEW s \in Seq(VersionRows), NEW v \in VersionRows
      PROVE  Size(Append(s, v)) = Size(s) + SizeOf[v.content]
  <2> DEFINE t == Append(s, v)
             n == Len(s) + 1
  <2>1. /\ t \in Seq(VersionRows) /\ t[n] = v /\ Len(t) = n /\ \A i \in 1..Len(s) : t[i] = s[i]
    OBVIOUS
  <2> HIDE DEF t
  <2>2. DOMAIN s = 1..Len(s) /\ DOMAIN t = 1..n /\ Len(s) \in Nat /\ IsFiniteSet(DOMAIN s)
        /\ IsFiniteSet(DOMAIN t) /\ Weights(s) \in [DOMAIN s -> Int] /\ Weights(t) \in [DOMAIN t -> Int]
    BY <1>1, <2>1
  <2>3. PICK g : Sums(g, Weights(s), DOMAIN s) /\ Size(s) = g[DOMAIN s]
    BY <2>2, SizeIsSum
  <2>4. PICK h : Sums(h, Weights(t), DOMAIN t) /\ Size(t) = h[DOMAIN t]
    BY <2>2, SizeIsSum
  <2>5. n \in DOMAIN t /\ DOMAIN t \ {n} = DOMAIN s /\ DOMAIN s \subseteq DOMAIN t
    BY <2>2
  <2>6. Weights(t)[n] = SizeOf[v.content] /\ \A i \in DOMAIN s : Weights(t)[i] = Weights(s)[i]
    BY <2>1, <2>2, <2>5 DEF Weights
  <2>7. h[DOMAIN t] = Weights(t)[n] + h[DOMAIN s]
    <3>1. DOMAIN t \in SUBSET DOMAIN t
      OBVIOUS
    <3>2. \A u \in SUBSET DOMAIN t : \A x \in u : h[u] = Weights(t)[x] + h[u \ {x}]
      <4> DEFINE E == DOMAIN t
                 w == Weights(t)
      <4>1. IsFiniteSet(E) /\ w \in [E -> Int] /\ Sums(h, w, E)
        BY <2>2, <2>4
      <4> HIDE DEF E, w
      <4>2. \A u \in SUBSET E : h[u] \in Int /\ \A x \in u : h[u] = w[x] + h[u \ {x}]
        BY <4>1, SumsValue
      <4> QED
        BY <4>2 DEF E, w
    <3>3. h[DOMAIN t] = Weights(t)[n] + h[DOMAIN t \ {n}]
      BY <2>5, <3>1, <3>2
    <3> QED
      BY <2>5, <3>3
  <2>8. h[DOMAIN s] = g[DOMAIN s]
    <3> DEFINE D == DOMAIN s
               E == DOMAIN t
               w == Weights(s)
               x == Weights(t)
    <3>1. /\ IsFiniteSet(E) /\ x \in [E -> Int] /\ Sums(h, x, E)
          /\ IsFiniteSet(D) /\ w \in [D -> Int] /\ Sums(g, w, D)
          /\ D \in SUBSET (E \cap D) /\ \A i \in D : x[i] = w[i]
      BY <2>2, <2>3, <2>4, <2>5, <2>6
    <3> HIDE DEF D, E, w, x
    <3>2. h[D] = g[D]
      BY <3>1, SumsAgree
    <3> QED
      BY <3>2 DEF D
  <2>9. Size(s) \in Int /\ SizeOf[v.content] \in Int
    <3>1. Size(s) \in Int
      BY <1>3
    <3>2. v.content \in CorpusContents
      BY DEF VersionRows
    <3> QED
      BY <3>1, <3>2, WorkspaceAssumption
  <2> QED
    BY <2>3, <2>4, <2>6, <2>7, <2>8, <2>9 DEF t
<1> QED
  BY <1>2, <1>3, <1>4

(* All corpora together *)
LEMMA CorporaSum ==
    \E g : Sums(g, [p \in Projects |-> Size(versions[p])], Projects)
           /\ MapThenSumSet(SizeOfCorpus, Projects) = g[Projects]
<1> DEFINE w == [p \in Projects |-> Size(versions[p])]
           Iter(f) == f = [u \in SUBSET Projects |->
                 IF u = {} THEN 0
                 ELSE SizeOfCorpus(CHOOSE x \in u : TRUE) + f[u \ {CHOOSE x \in u : TRUE}]]
           g == CHOOSE f : Iter(f)
<1>1. ASSUME NEW f PROVE Iter(f) <=> Sums(f, w, Projects)
  <2>1. ASSUME NEW u \in SUBSET Projects, u # {}
        PROVE  w[Some(u)] = SizeOfCorpus(CHOOSE x \in u : TRUE)
    BY <2>1 DEF Some, SizeOfCorpus, Size
  <2> HIDE DEF w
  <2> QED
    BY <2>1 DEF Sums, Some
<1>2. \E f : Iter(f)
  <2> HIDE DEF Iter, w
  <2> QED
    BY <1>1, SumsExist, WorkspaceAssumption
<1>3. Iter(g)
  <2> HIDE DEF Iter
  <2> QED
    BY <1>2
<1>4. MapThenSumSet(SizeOfCorpus, Projects) = g[Projects]
  BY DEF MapThenSumSet, MapThenFoldSet
<1> QED
  BY <1>1, <1>3, <1>4

-----------------------------------------------------------------------------
(* The locks *)

(* How far a transaction is in a plan of three or four locks. *)
InPlan3(x, a, b, c) ==
    \/ x.held = {} /\ x.todo = <<a, b, c>>
    \/ x.held = {a} /\ x.todo = <<b, c>>
    \/ x.held = {a, b} /\ x.todo = <<c>>
    \/ x.held = {a, b, c} /\ x.todo = <<>>

InPlan4(x, a, b, c, d) ==
    \/ x.held = {} /\ x.todo = <<a, b, c, d>>
    \/ x.held = {a} /\ x.todo = <<b, c, d>>
    \/ x.held = {a, b} /\ x.todo = <<c, d>>
    \/ x.held = {a, b, c} /\ x.todo = <<d>>
    \/ x.held = {a, b, c, d} /\ x.todo = <<>>

InPlan(x) ==
    LET p == x.project
    IN  /\ x.kind \in Writers => InPlan3(x, Usage, Row(p), AuditHead)
        /\ x.kind = "submit" => InPlan3(x, Row(p), Usage, AuditHead)
        /\ x.kind = "request" => InPlan3(x, Advisory(p), Row(p), AuditHead)
        /\ x.kind = "purge" => InPlan4(x, Advisory(p), Usage, AuditHead, Row(p))

TxFields == {"kind", "project", "content", "held", "todo", "used", "latest", "counted", "last"}
Fields(x) == x = [f \in TxFields |-> x[f]]

(* A transaction and what its locks say of its project's state *)
TxTrue(x, stood) ==
    \/ x = Closed
    \/ /\ Fields(x) /\ x.kind \in Kinds /\ x.project \in Projects /\ InPlan(x)
       /\ x.kind # "purge" /\ Row(x.project) \in x.held => stood = "active"
       /\ x.kind = "purge" /\ Advisory(x.project) \in x.held => stood = "deletion_pending"

StateOf(x) == IF x = Closed THEN "none" ELSE project[x.project].state

Apart == \A t, u \in Txs : t # u => tx[t].held \cap tx[u].held = {}

LockInv ==
    /\ project = [p \in Projects |-> project[p]]
    /\ tx = [t \in Txs |-> tx[t]]
    /\ \A t \in Txs : TxTrue(tx[t], StateOf(tx[t]))
    /\ Apart

(* Different locks are different. *)
LEMMA LocksDiffer ==
    /\ Usage # AuditHead
    /\ \A p : Row(p) # Usage /\ Row(p) # AuditHead /\ Advisory(p) # Usage /\ Advisory(p) # AuditHead
    /\ \A p, q : Row(p) # Advisory(q) /\ (Row(p) = Row(q) => p = q)
                 /\ (Advisory(p) = Advisory(q) => p = q)
<1>1. Usage # AuditHead
  BY DEF Usage, AuditHead
<1>2. ASSUME NEW p
      PROVE  Row(p) # Usage /\ Row(p) # AuditHead /\ Advisory(p) # Usage /\ Advisory(p) # AuditHead
  BY DEF Usage, AuditHead, Row, Advisory
<1>3. ASSUME NEW p, NEW q
      PROVE  /\ Row(p) # Advisory(q) /\ (Row(p) = Row(q) => p = q)
             /\ (Advisory(p) = Advisory(q) => p = q)
  BY DEF Row, Advisory
<1> QED
  BY <1>1, <1>2, <1>3

(* The usage row is read. *)
LEMMA UsageRead ==
    ASSUME NEW x, Fields(x), NEW v
    PROVE  LET r == [x EXCEPT !.used = v] IN
             /\ Fields(r) /\ r.kind = x.kind /\ r.project = x.project
             /\ r.todo = x.todo /\ r.held = x.held
<1> DEFINE r == [x EXCEPT !.used = v]
<1>1. DOMAIN x = TxFields
  BY DEF Fields
<1>2. r = [f \in TxFields |-> IF f = "used" THEN v ELSE x[f]]
  BY <1>1 DEF Fields
<1> HIDE DEF r
<1>3. /\ Fields(r) /\ r.kind = x.kind /\ r.project = x.project
      /\ r.todo = x.todo /\ r.held = x.held
  BY <1>2 DEF Fields, TxFields
<1> QED
  BY <1>3 DEF r

(* The audit head is read. *)
LEMMA HeadRead ==
    ASSUME NEW x, Fields(x), NEW v
    PROVE  LET r == [x EXCEPT !.last = v] IN
             /\ Fields(r) /\ r.kind = x.kind /\ r.project = x.project
             /\ r.todo = x.todo /\ r.held = x.held
<1> DEFINE r == [x EXCEPT !.last = v]
<1>1. DOMAIN x = TxFields
  BY DEF Fields
<1>2. r = [f \in TxFields |-> IF f = "last" THEN v ELSE x[f]]
  BY <1>1 DEF Fields
<1> HIDE DEF r
<1>3. /\ Fields(r) /\ r.kind = x.kind /\ r.project = x.project
      /\ r.todo = x.todo /\ r.held = x.held
  BY <1>2 DEF Fields, TxFields
<1> QED
  BY <1>3 DEF r

(* Heads and tails of the plans. *)
LEMMA Heads ==
    ASSUME NEW a, NEW b, NEW c, NEW d
    PROVE  /\ Head(<<a>>) = a /\ Tail(<<a>>) = <<>>
           /\ Head(<<a, b>>) = a /\ Tail(<<a, b>>) = <<b>>
           /\ Head(<<a, b, c>>) = a /\ Tail(<<a, b, c>>) = <<b, c>>
           /\ Head(<<a, b, c, d>>) = a /\ Tail(<<a, b, c, d>>) = <<b, c, d>>
  OBVIOUS

(* Taking the next lock is the next step of the plan. *)
LEMMA NextLock ==
    ASSUME NEW x, Fields(x), x.kind \in Kinds, InPlan(x), x.todo # <<>>,
           NEW y, Fields(y), y.kind = x.kind, y.project = x.project,
           y.todo = Tail(x.todo), y.held = x.held \cup {Head(x.todo)}
    PROVE  InPlan(y)
<1>1. ASSUME NEW a, NEW b, NEW c, InPlan3(x, a, b, c) PROVE InPlan3(y, a, b, c)
  <2>1. CASE x.held = {} /\ x.todo = <<a, b, c>>
    BY <2>1, Heads DEF InPlan3
  <2>2. CASE x.held = {a} /\ x.todo = <<b, c>>
    BY <2>2, Heads DEF InPlan3
  <2>3. CASE x.held = {a, b} /\ x.todo = <<c>>
    BY <2>3, Heads DEF InPlan3
  <2> QED
    BY <1>1, <2>1, <2>2, <2>3 DEF InPlan3
<1>2. ASSUME NEW a, NEW b, NEW c, NEW d, InPlan4(x, a, b, c, d) PROVE InPlan4(y, a, b, c, d)
  <2>1. CASE x.held = {} /\ x.todo = <<a, b, c, d>>
    BY <2>1, Heads DEF InPlan4
  <2>2. CASE x.held = {a} /\ x.todo = <<b, c, d>>
    BY <2>2, Heads DEF InPlan4
  <2>3. CASE x.held = {a, b} /\ x.todo = <<c, d>>
    BY <2>3, Heads DEF InPlan4
  <2>4. CASE x.held = {a, b, c} /\ x.todo = <<d>>
    BY <2>4, Heads DEF InPlan4
  <2> QED
    BY <1>2, <2>1, <2>2, <2>3, <2>4 DEF InPlan4
<1> QED
  BY <1>1, <1>2 DEF InPlan

(* A transaction with no lock to take holds its whole plan. *)
LEMMA PlanDone ==
    ASSUME NEW x, x.kind \in Kinds, InPlan(x), x.todo = <<>>
    PROVE  /\ AuditHead \in x.held /\ Row(x.project) \in x.held
           /\ x.kind \in {"request", "purge"} => Advisory(x.project) \in x.held
           /\ x.kind \in Writers \cup {"purge"} => Usage \in x.held
  BY DEF InPlan, InPlan3, InPlan4, Kinds, Writers

-----------------------------------------------------------------------------
(* Steps *)

(* What a transaction that does not touch a project's state sees. *)
LEMMA OneTxSteps ==
    ASSUME LockInv, NEW t \in Txs, NEW x, tx' = [tx EXCEPT ![t] = x], project' = project,
           TxTrue(x, StateOf(x)), \A u \in Txs : u # t => x.held \cap tx[u].held = {}
    PROVE  LockInv'
<1>1. \A u \in Txs : tx'[u] = IF u = t THEN x ELSE tx[u]
  BY DEF LockInv
<1>2. tx' = [u \in Txs |-> tx'[u]] /\ project' = [p \in Projects |-> project'[p]]
  BY DEF LockInv
<1>3. ASSUME NEW u \in Txs PROVE TxTrue(tx[u], StateOf(tx[u]))'
  <2>1. TxTrue(tx'[u], StateOf(tx'[u]))
    BY <1>1 DEF LockInv
  <2>2. StateOf(tx[u])' = StateOf(tx'[u])
    BY DEF StateOf
  <2> QED
    BY <2>1, <2>2 DEF TxTrue
<1>4. Apart'
  BY <1>1 DEF LockInv, Apart
<1> QED
  BY <1>2, <1>3, <1>4 DEF LockInv

(* A closed transaction holds nothing. *)
LEMMA CloseKeeps ==
    ASSUME LockInv, NEW t \in Txs, tx' = [tx EXCEPT ![t] = Closed], project' = project
    PROVE  LockInv'
<1>1. Closed.held = {}
  BY DEF Closed
<1>2. TxTrue(Closed, StateOf(Closed))
  BY DEF TxTrue
<1> QED
  BY <1>1, <1>2, OneTxSteps

(* What the invariant says of an open transaction. *)
LEMMA OpenTx ==
    ASSUME LockInv, NEW t \in Txs, Open(t)
    PROVE  /\ Fields(tx[t]) /\ tx[t].kind \in Kinds /\ tx[t].project \in Projects /\ InPlan(tx[t])
           /\ tx[t] # Closed
           /\ tx[t].kind # "purge" /\ Row(tx[t].project) \in tx[t].held => Current(t).state = "active"
           /\ tx[t].kind = "purge" /\ Advisory(tx[t].project) \in tx[t].held
                => Current(t).state = "deletion_pending"
<1>1. tx[t] # Closed
  BY DEF Open, Closed
<1>2. TxTrue(tx[t], Current(t).state)
  BY <1>1 DEF LockInv, StateOf, Current
<1> QED
  BY <1>1, <1>2 DEF TxTrue

(* Begin: a transaction plans its locks in the order of its kind. *)
LEMMA BeginKeeps ==
    ASSUME LockInv, NEW t \in Txs, NEW k \in Kinds, NEW p \in Projects, NEW c, Begin(t, k, p, c)
    PROVE  LockInv'
<1> DEFINE x == [kind |-> k, project |-> p, content |-> c, held |-> {}, todo |-> LockPlan(k, p),
                 used |-> 0, latest |-> 0, counted |-> 0, last |-> [sequence |-> 0, hash |-> Genesis]]
<1>1. tx' = [tx EXCEPT ![t] = x] /\ project' = project
  BY DEF Begin
<1>2. /\ Fields(x) /\ x.kind = k /\ x.project = p /\ x.held = {} /\ x.todo = LockPlan(k, p)
  <2>1. DOMAIN x = TxFields
    BY DEF TxFields
  <2>2. Fields(x)
    BY <2>1 DEF Fields
  <2> QED
    BY <2>2
<1> HIDE DEF x
<1>3. InPlan(x)
  BY <1>2 DEF InPlan, InPlan3, InPlan4, LockPlan, Kinds, Writers
<1>4. TxTrue(x, StateOf(x))
  BY <1>2, <1>3 DEF TxTrue
<1> QED
  BY <1>1, <1>2, <1>4, OneTxSteps

(* A transaction y that has taken the next lock of x and read its row *)
Took(x, y) ==
    LET l == Head(x.todo)
        p == x.project
    IN  /\ Fields(y) /\ y.kind = x.kind /\ y.project = x.project /\ y.content = x.content
        /\ y.todo = Tail(x.todo) /\ y.held = x.held \cup {l}
        /\ y.used = IF l = Usage THEN sentences ELSE x.used
        /\ y.last = IF l = AuditHead THEN head ELSE x.last
        /\ y.latest = IF l = Row(p) THEN Len(versions[p]) ELSE x.latest
        /\ y.counted = IF l = Row(p) THEN SizeOfCorpus(p) ELSE x.counted

(* What Acquire does to the transaction. *)
LEMMA Acquired ==
    ASSUME LockInv, NEW t \in Txs, Acquire(t)
    PROVE  /\ project' = project /\ tx[t].todo # <<>> /\ Open(t)
           /\ \A u \in Txs : ~Waits(t, u)
           /\ \/ tx' = [tx EXCEPT ![t] = Closed]
              \/ /\ ~Refused(t, Head(tx[t].todo))
                 /\ \E y : Took(tx[t], y) /\ tx' = [tx EXCEPT ![t] = y]
<1> DEFINE l == Head(tx[t].todo)
           p == tx[t].project
           r == [tx[t] EXCEPT !.todo = Tail(@), !.held = @ \cup {l}]
           y == CASE l = Usage     -> [r EXCEPT !.used = sentences]
                  [] l = AuditHead -> [r EXCEPT !.last = head]
                  [] l = Row(p)    -> [r EXCEPT !.latest = Len(versions[p]),
                                                !.counted = SizeOfCorpus(p)]
                  [] OTHER         -> r
<1>1. /\ Open(t) /\ tx[t].todo # <<>> /\ project' = project
      /\ tx' = [tx EXCEPT ![t] = IF Refused(t, l) THEN Closed ELSE y]
      /\ \A u \in Txs : ~Waits(t, u)
  BY DEF Acquire
<1>2. Fields(tx[t]) /\ DOMAIN tx[t] = TxFields
  BY <1>1, OpenTx DEF Fields
<1>3. r = [f \in TxFields |-> IF f = "held" THEN tx[t].held \cup {l}
                              ELSE IF f = "todo" THEN Tail(tx[t].todo) ELSE tx[t][f]]
  <2> HIDE DEF l
  <2> QED
    BY <1>2 DEF Fields, TxFields
<1> HIDE DEF r
<1>4. DOMAIN r = TxFields
  BY <1>3
<1>5. /\ Usage # AuditHead /\ Row(p) # Usage /\ Row(p) # AuditHead
  BY LocksDiffer
<1>6. y = [f \in TxFields |->
             CASE f = "used" /\ l = Usage -> sentences
               [] f = "last" /\ l = AuditHead -> head
               [] f = "latest" /\ l = Row(p) -> Len(versions[p])
               [] f = "counted" /\ l = Row(p) -> SizeOfCorpus(p)
               [] OTHER -> r[f]]
  <2> HIDE DEF l, p
  <2>1. CASE l = Usage
    <3>1. y = [r EXCEPT !.used = sentences]
      BY <1>5, <2>1
    <3> HIDE DEF y
    <3> QED
      BY <1>3, <1>4, <1>5, <2>1, <3>1
  <2>2. CASE l # Usage /\ l = AuditHead
    <3>1. y = [r EXCEPT !.last = head]
      BY <1>5, <2>2
    <3> HIDE DEF y
    <3> QED
      BY <1>3, <1>4, <1>5, <2>2, <3>1
  <2>3. CASE l # Usage /\ l # AuditHead /\ l = Row(p)
    <3>1. y = [r EXCEPT !.latest = Len(versions[p]), !.counted = SizeOfCorpus(p)]
      BY <1>5, <2>3
    <3> HIDE DEF y
    <3> QED
      BY <1>3, <1>4, <1>5, <2>3, <3>1
  <2>4. CASE l # Usage /\ l # AuditHead /\ l # Row(p)
    <3>1. y = r
      BY <2>4
    <3> HIDE DEF y
    <3> QED
      BY <1>3, <2>4, <3>1
  <2> QED
    BY <2>1, <2>2, <2>3, <2>4
<1> HIDE DEF y
<1>7. Took(tx[t], y)
  <2> HIDE DEF l, p
  <2>1. Fields(y)
    BY <1>6 DEF Fields
  <2>2. /\ y.kind = tx[t].kind /\ y.project = p /\ y.content = tx[t].content
        /\ y.todo = Tail(tx[t].todo) /\ y.held = tx[t].held \cup {l}
    BY <1>3, <1>6 DEF TxFields, p
  <2>3. /\ y.used = IF l = Usage THEN sentences ELSE tx[t].used
        /\ y.last = IF l = AuditHead THEN head ELSE tx[t].last
        /\ y.latest = IF l = Row(p) THEN Len(versions[p]) ELSE tx[t].latest
        /\ y.counted = IF l = Row(p) THEN SizeOfCorpus(p) ELSE tx[t].counted
    BY <1>3, <1>6 DEF TxFields
  <2> QED
    BY <2>1, <2>2, <2>3 DEF Took, l, p
<1> QED
  BY <1>1, <1>7

(* A lock is taken when nobody holds it, and its row is looked at then. *)
LEMMA AcquireKeeps ==
    ASSUME LockInv, NEW t \in Txs, Acquire(t)
    PROVE  LockInv'
<1> DEFINE l == Head(tx[t].todo)
           p == tx[t].project
<1>1. /\ Open(t) /\ tx[t].todo # <<>> /\ project' = project /\ \A u \in Txs : ~Waits(t, u)
  BY Acquired
<1>2. /\ Fields(tx[t]) /\ tx[t].kind \in Kinds /\ p \in Projects /\ InPlan(tx[t])
      /\ tx[t].kind # "purge" /\ Row(p) \in tx[t].held => Current(t).state = "active"
      /\ tx[t].kind = "purge" /\ Advisory(p) \in tx[t].held => Current(t).state = "deletion_pending"
  BY <1>1, OpenTx
<1>3. CASE tx' = [tx EXCEPT ![t] = Closed]
  BY <1>1, <1>3, CloseKeeps
<1>4. ASSUME NEW y, Took(tx[t], y), tx' = [tx EXCEPT ![t] = y], ~Refused(t, l)
      PROVE  LockInv'
  <2>1. /\ Fields(y) /\ y.kind = tx[t].kind /\ y.project = p
        /\ y.todo = Tail(tx[t].todo) /\ y.held = tx[t].held \cup {l}
    BY <1>4 DEF Took
  <2> HIDE DEF l, p
  <2>3. InPlan(y)
    BY <1>1, <1>2, <2>1, NextLock DEF l, p
  <2>4. y # Closed /\ StateOf(y) = Current(t).state
    <3>1. y.kind # "none"
      BY <1>2, <2>1 DEF Kinds
    <3> QED
      BY <2>1, <3>1 DEF Closed, StateOf, Current, p
  <2>5. l = Row(p) /\ tx[t].kind # "purge" => Current(t).state = "active"
    BY <1>4 DEF Refused, WrongState, p
  <2>6. l = Advisory(p) /\ tx[t].kind = "purge" => Current(t).state = "deletion_pending"
    BY <1>4 DEF Refused, WrongState, p
  <2>7. TxTrue(y, StateOf(y))
    BY <1>2, <2>1, <2>3, <2>4, <2>5, <2>6 DEF TxTrue
  <2>8. ASSUME NEW u \in Txs, u # t PROVE y.held \cap tx[u].held = {}
    <3>1. l \notin tx[u].held
      BY <1>1, <2>8 DEF Waits, Exclusive, l
    <3>2. tx[t].held \cap tx[u].held = {}
      BY <2>8 DEF LockInv, Apart
    <3> QED
      BY <2>1, <3>1, <3>2
  <2> QED
    BY <1>1, <1>4, <2>7, <2>8, OneTxSteps
<1> QED
  BY <1>3, <1>4, Acquired

(* A project changes under its row lock, and is never active again. *)
LEMMA ProjectSteps ==
    ASSUME LockInv, NEW t \in Txs, Open(t), tx' = [tx EXCEPT ![t] = Closed],
           Row(tx[t].project) \in tx[t].held, Advisory(tx[t].project) \in tx[t].held, NEW s,
           project' = [project EXCEPT ![tx[t].project] = s]
    PROVE  LockInv'
<1> DEFINE p == tx[t].project
<1>1. p \in Projects
  BY OpenTx
<1>2. \A u \in Txs : tx'[u] = IF u = t THEN Closed ELSE tx[u]
  BY DEF LockInv
<1>3. \A q \in Projects : project'[q] = IF q = p THEN s ELSE project[q]
  BY DEF LockInv
<1>4. tx' = [u \in Txs |-> tx'[u]] /\ project' = [q \in Projects |-> project'[q]]
  BY DEF LockInv
<1>5. ASSUME NEW u \in Txs PROVE TxTrue(tx[u], StateOf(tx[u]))'
  <2>1. CASE tx'[u] = Closed
    BY <2>1 DEF TxTrue
  <2>2. CASE tx'[u] # Closed
    <3>1. u # t /\ tx'[u] = tx[u] /\ TxTrue(tx[u], StateOf(tx[u])) /\ tx[u] # Closed
      BY <1>2, <2>2 DEF LockInv
    <3>2. Row(p) \notin tx[u].held /\ Advisory(p) \notin tx[u].held
      BY <3>1 DEF LockInv, Apart
    <3>3. tx[u].project \in Projects
      BY <3>1 DEF TxTrue
    <3>4. StateOf(tx[u])' = IF tx[u].project = p THEN s.state ELSE project[tx[u].project].state
      BY <1>3, <3>1, <3>3 DEF StateOf
    <3>5. StateOf(tx[u]) = project[tx[u].project].state
      BY <3>1 DEF StateOf
    <3> HIDE DEF p
    <3>6. TxTrue(tx[u], StateOf(tx[u])')
      BY <3>1, <3>2, <3>4, <3>5 DEF TxTrue
    <3> QED
      BY <3>1, <3>6 DEF TxTrue
  <2> QED
    BY <2>1, <2>2
<1>6. Apart'
  <2>1. Closed.held = {}
    BY DEF Closed
  <2> QED
    BY <1>2, <2>1 DEF LockInv, Apart
<1> QED
  BY <1>4, <1>5, <1>6 DEF LockInv

(* LockInv is inductive. *)
LEMMA LockSteps ==
    ASSUME LockInv, [WorkspaceNext]_workspaceVars
    PROVE  LockInv'
<1>1. CASE UNCHANGED <<tx, project>>
  BY <1>1 DEF LockInv, Apart, StateOf, TxTrue
<1>2. ASSUME NEW t \in Txs, Rollback(t) \/ DeadlockAbort(t) PROVE LockInv'
  BY <1>2, CloseKeeps DEF Rollback, DeadlockAbort
<1>3. ASSUME NEW t \in Txs, StoreVersion(t) \/ Submitted(t) PROVE LockInv'
  BY <1>3, CloseKeeps DEF StoreVersion, Submitted, Finish
<1>4. ASSUME NEW t \in Txs, MarkForDeletion(t) PROVE LockInv'
  <2> DEFINE s == [state |-> "deletion_pending", counted |-> tx[t].counted]
  <2>1. /\ Open(t) /\ tx[t].todo = <<>> /\ tx[t].kind = "request"
        /\ tx' = [tx EXCEPT ![t] = Closed] /\ project' = [project EXCEPT ![tx[t].project] = s]
    BY <1>4 DEF MarkForDeletion, Complete, Finish
  <2> HIDE DEF s
  <2>2. Row(tx[t].project) \in tx[t].held /\ Advisory(tx[t].project) \in tx[t].held
    BY <2>1, OpenTx, PlanDone
  <2> QED
    BY <2>1, <2>2, ProjectSteps
<1>5. ASSUME NEW t \in Txs, PurgeProject(t) PROVE LockInv'
  <2> DEFINE s == [state |-> "gone", counted |-> 0]
  <2>1. /\ Open(t) /\ tx[t].todo = <<>> /\ tx[t].kind = "purge"
        /\ tx' = [tx EXCEPT ![t] = Closed] /\ project' = [project EXCEPT ![tx[t].project] = s]
    BY <1>5 DEF PurgeProject, Complete, Finish
  <2> HIDE DEF s
  <2>2. Row(tx[t].project) \in tx[t].held /\ Advisory(tx[t].project) \in tx[t].held
    BY <2>1, OpenTx, PlanDone
  <2> QED
    BY <2>1, <2>2, ProjectSteps
<1>6. CASE ReadPage \/ VerifyHead \/ VerifyEvents \/ VerifyAgain \/ UNCHANGED workspaceVars
  BY <1>1, <1>6 DEF ReadPage, VerifyHead, VerifyEvents, VerifyAgain, workspaceVars
<1>7. Writers \subseteq Kinds
  BY DEF Writers, Kinds
<1> QED
  BY <1>2, <1>3, <1>4, <1>5, <1>6, <1>7, BeginKeeps, AcquireKeeps DEF WorkspaceNext, Commit

(* LockInv holds at first. *)
LEMMA LockStarts ==
    ASSUME WorkspaceInit
    PROVE  LockInv
<1>1. Closed.held = {} /\ \A s : TxTrue(Closed, s)
  BY DEF Closed, TxTrue
<1> QED
  BY <1>1 DEF WorkspaceInit, LockInv, Apart

-----------------------------------------------------------------------------
(* The accounts *)

Sizes(vs) == [p \in Projects |-> Size(vs[p])]

(* u is the sum of the corpora vs *)
Summed(u, vs) == \E g : Sums(g, Sizes(vs), Projects) /\ u = g[Projects]

Lined(s) == \A i \in DOMAIN s : s[i].number = i /\ s[i].parent = i - 1

(* What a transaction has read under its locks still holds. *)
WorkspaceReadTrue(x, u, vs) ==
    /\ x.kind \in Writers => x.content \in CorpusContents
    /\ Usage \in x.held => x.used = u
    /\ x.kind # "none" /\ Row(x.project) \in x.held =>
          x.latest = Len(vs[x.project]) /\ x.counted = Size(vs[x.project])

BooksTrue ==
    /\ versions \in [Projects -> Seq(VersionRows)]
    /\ \A p \in Projects :
          /\ Lined(versions[p])
          /\ project[p].state = "deletion_pending" => project[p].counted = Size(versions[p])
    /\ Summed(sentences, versions)
    /\ \A t \in Txs : WorkspaceReadTrue(tx[t], sentences, versions)

(* The sizes of corpora are integers. *)
LEMMA SizesAre ==
    ASSUME NEW vs \in [Projects -> Seq(VersionRows)]
    PROVE  Sizes(vs) \in [Projects -> Int] /\ \A p \in Projects : Sizes(vs)[p] = Size(vs[p])
  BY SizeOfVersions DEF Sizes

(* h and g sum up weights that differ at p alone. *)
Shifted(g, h, w, v, T, p) ==
    /\ IsFiniteSet(T) /\ p \in T /\ w \in [T -> Int] /\ v \in [T -> Int]
    /\ \A q \in T \ {p} : w[q] = v[q]
    /\ Sums(g, w, T) /\ Sums(h, v, T)

(* When one weight changes, the sum changes by the difference. *)
LEMMA SumsMove ==
    ASSUME NEW g, NEW h, NEW w, NEW v, NEW T, NEW p, Shifted(g, h, w, v, T, p)
    PROVE  g[T] \in Int /\ h[T] = g[T] - w[p] + v[p]
<1>0. /\ IsFiniteSet(T) /\ p \in T /\ w \in [T -> Int] /\ v \in [T -> Int]
      /\ \A q \in T \ {p} : w[q] = v[q]
      /\ Sums(g, w, T) /\ Sums(h, v, T)
  BY DEF Shifted
<1> USE <1>0
<1> DEFINE R == T \ {p}
<1>1. T \in SUBSET T /\ R \in SUBSET T /\ R \in SUBSET (T \cap T)
  OBVIOUS
<1>2. g[R] = h[R]
  <2> HIDE DEF R
  <2>1. \A x \in R : w[x] = v[x]
    BY <1>0 DEF R
  <2> QED
    BY <1>0, <1>1, <2>1, SumsAgree
<1>3. g[T] \in Int /\ g[R] \in Int /\ g[T] = w[p] + g[R]
  <2>1. \A s \in SUBSET T : g[s] \in Int /\ \A x \in s : g[s] = w[x] + g[s \ {x}]
    BY ONLY IsFiniteSet(T), w \in [T -> Int], Sums(g, w, T), SumsValue
  <2> QED
    BY <1>0, <1>1, <2>1
<1>4. h[T] = v[p] + h[R]
  <2>1. \A s \in SUBSET T : h[s] \in Int /\ \A x \in s : h[s] = v[x] + h[s \ {x}]
    BY ONLY IsFiniteSet(T), v \in [T -> Int], Sums(h, v, T), SumsValue
  <2> QED
    BY <1>0, <1>1, <2>1
<1>5. w[p] \in Int /\ v[p] \in Int
  BY <1>0
<1> QED
  BY <1>2, <1>3, <1>4, <1>5

(* When one corpus changes, the sum changes by the difference. *)
LEMMA SumMoves ==
    ASSUME NEW vs \in [Projects -> Seq(VersionRows)], NEW p \in Projects,
           NEW s \in Seq(VersionRows), NEW u, Summed(u, vs)
    PROVE  u \in Int /\ Summed(u - Size(vs[p]) + Size(s), [vs EXCEPT ![p] = s])
<1> DEFINE ws == [vs EXCEPT ![p] = s]
           older == Sizes(vs)
           newer == Sizes(ws)
           R == Projects \ {p}
<1>1. IsFiniteSet(Projects) /\ R \in SUBSET (Projects \cap Projects) /\ R \in SUBSET Projects
  BY WorkspaceAssumption
<1>2. ws \in [Projects -> Seq(VersionRows)] /\ \A q \in Projects : ws[q] = IF q = p THEN s ELSE vs[q]
  OBVIOUS
<1> HIDE DEF ws
<1>3. /\ older \in [Projects -> Int] /\ newer \in [Projects -> Int] /\ \A q \in R : older[q] = newer[q]
      /\ older[p] = Size(vs[p]) /\ newer[p] = Size(s)
  BY <1>2, SizesAre
<1>4. PICK g : Sums(g, older, Projects) /\ u = g[Projects]
  BY DEF Summed
<1>5. PICK h : Sums(h, newer, Projects)
  BY <1>1, SumsExist
<1> HIDE DEF older, newer, R
<1>6. g[Projects] \in Int /\ h[Projects] = g[Projects] - older[p] + newer[p]
  <2>1. Shifted(g, h, older, newer, Projects, p)
    BY <1>1, <1>3, <1>4, <1>5 DEF Shifted, R
  <2> QED
    BY <2>1, SumsMove
<1>7. h[Projects] = u - older[p] + newer[p]
  BY <1>4, <1>6
<1> QED
  BY <1>3, <1>4, <1>5, <1>6, <1>7 DEF Summed, newer, ws

(* No versions, no sentences *)
LEMMA NothingSums ==
    Summed(0, [p \in Projects |-> <<>>])
<1> DEFINE w == Sizes([p \in Projects |-> <<>>])
           g == [s \in SUBSET Projects |-> 0]
<1>1. w = [p \in Projects |-> 0]
  BY SizeOfVersions DEF Sizes
<1> HIDE DEF w
<1>2. \A s \in SUBSET Projects : s # {} => Some(s) \in s
  BY DEF Some
<1>3. Sums(g, w, Projects)
  BY <1>1, <1>2 DEF Sums
<1> QED
  BY <1>3 DEF Summed, w

(* A step that changes neither corpora nor counters *)
LEMMA BooksKept ==
    ASSUME LockInv, BooksTrue, NEW t \in Txs, NEW x, tx' = [tx EXCEPT ![t] = x],
           UNCHANGED <<project, versions, sentences>>, WorkspaceReadTrue(x, sentences, versions)
    PROVE  BooksTrue'
<1>1. ASSUME NEW u \in Txs PROVE WorkspaceReadTrue(tx[u], sentences, versions)'
  <2>1. WorkspaceReadTrue(tx'[u], sentences, versions)
    BY DEF LockInv, BooksTrue
  <2> QED
    BY <2>1 DEF WorkspaceReadTrue
<1> QED
  BY <1>1 DEF BooksTrue

(* A transaction that is over has read nothing. *)
LEMMA ClosedReads ==
    ASSUME NEW u, NEW vs
    PROVE  WorkspaceReadTrue(Closed, u, vs)
  BY DEF Closed, WorkspaceReadTrue, Writers

(* A transaction that commits holds the rows it writes to. *)
LEMMA CommitHolds ==
    ASSUME LockInv, BooksTrue, NEW t \in Txs, NEW K \in SUBSET Kinds, Complete(t, K)
    PROVE  LET p == tx[t].project IN
           /\ Open(t) /\ p \in Projects /\ tx[t].kind \in K
           /\ AuditHead \in tx[t].held /\ Row(p) \in tx[t].held
           /\ tx[t].kind \in Writers => /\ Usage \in tx[t].held /\ Current(t).state = "active"
                                        /\ tx[t].content \in CorpusContents
           /\ tx[t].kind = "purge" => Usage \in tx[t].held /\ Current(t).state = "deletion_pending"
           /\ Usage \in tx[t].held => tx[t].used = sentences
           /\ tx[t].latest = Len(versions[p]) /\ tx[t].counted = Size(versions[p])
           /\ \A u \in Txs : u # t => /\ Row(p) \notin tx[u].held
                                      /\ Usage \in tx[t].held => Usage \notin tx[u].held
<1> DEFINE p == tx[t].project
<1>1. Open(t) /\ tx[t].todo = <<>> /\ tx[t].kind \in K
  BY DEF Complete
<1>2. /\ InPlan(tx[t]) /\ tx[t].kind \in Kinds /\ p \in Projects
      /\ tx[t].kind # "purge" /\ Row(p) \in tx[t].held => Current(t).state = "active"
      /\ tx[t].kind = "purge" /\ Advisory(p) \in tx[t].held => Current(t).state = "deletion_pending"
  BY <1>1, OpenTx
<1>3. /\ AuditHead \in tx[t].held /\ Row(p) \in tx[t].held
      /\ tx[t].kind \in {"request", "purge"} => Advisory(p) \in tx[t].held
      /\ tx[t].kind \in Writers \cup {"purge"} => Usage \in tx[t].held
  BY <1>1, <1>2, PlanDone
<1>4. WorkspaceReadTrue(tx[t], sentences, versions)
  BY DEF BooksTrue
<1>5. \A u \in Txs : u # t => tx[t].held \cap tx[u].held = {}
  BY DEF LockInv, Apart
<1>6. tx[t].kind # "none" /\ "purge" \notin Writers
  BY <1>2 DEF Kinds, Writers
<1> QED
  BY <1>1, <1>2, <1>3, <1>4, <1>5, <1>6 DEF WorkspaceReadTrue

(* What the others have read stays so. *)
LEMMA OthersRead ==
    ASSUME LockInv, BooksTrue, NEW t \in Txs, NEW s, NEW n, NEW p,
           tx' = [tx EXCEPT ![t] = Closed], versions' = [versions EXCEPT ![p] = s],
           sentences' = n, p \in Projects,
           \A u \in Txs : u # t => /\ Row(p) \notin tx[u].held
                                   /\ n = sentences \/ Usage \notin tx[u].held
    PROVE  \A u \in Txs : WorkspaceReadTrue(tx[u], sentences, versions)'
<1> SUFFICES ASSUME NEW u \in Txs PROVE WorkspaceReadTrue(tx'[u], sentences', versions')
  BY DEF WorkspaceReadTrue
<1>1. tx'[u] = IF u = t THEN Closed ELSE tx[u]
  BY DEF LockInv
<1>2. CASE u = t
  BY <1>1, <1>2, ClosedReads
<1>3. CASE u # t
  <2>1. tx'[u] = tx[u] /\ WorkspaceReadTrue(tx[u], sentences, versions) /\ TxTrue(tx[u], StateOf(tx[u]))
    BY <1>1, <1>3 DEF BooksTrue, LockInv
  <2>2. tx[u].kind # "none" => tx[u].project \in Projects
    BY <2>1 DEF TxTrue, Closed
  <2>3. tx[u].kind # "none" /\ Row(tx[u].project) \in tx[u].held =>
            versions'[tx[u].project] = versions[tx[u].project]
    BY <1>3, <2>2 DEF BooksTrue
  <2> QED
    BY <1>3, <2>1, <2>3 DEF WorkspaceReadTrue
<1> QED
  BY <1>2, <1>3

(* A version is stored under the locks of its project and of the usage row. *)
LEMMA StoreKeepsBooks ==
    ASSUME LockInv, BooksTrue, NEW t \in Txs, StoreVersion(t)
    PROVE  BooksTrue'
<1> DEFINE x == tx[t]
           p == x.project
           v == [content |-> x.content, number |-> x.latest + 1, parent |-> x.latest]
           s == Append(versions[p], v)
<1>1. /\ Complete(t, Writers) /\ versions' = [versions EXCEPT ![p] = s]
      /\ sentences' = x.used + SizeOf[x.content] /\ tx' = [tx EXCEPT ![t] = Closed]
      /\ project' = project
  BY DEF StoreVersion, Finish
<1>2. Writers \in SUBSET Kinds
  BY DEF Writers, Kinds
<1>3. /\ p \in Projects /\ x.content \in CorpusContents /\ x.used = sentences
      /\ x.latest = Len(versions[p]) /\ project[p].state = "active"
      /\ \A u \in Txs : u # t => Row(p) \notin tx[u].held /\ Usage \notin tx[u].held
  BY <1>1, <1>2, CommitHolds DEF Current
<1>4. versions[p] \in Seq(VersionRows) /\ Len(versions[p]) \in Nat
  BY <1>3 DEF BooksTrue
<1>5. v \in VersionRows /\ v.number = Len(versions[p]) + 1 /\ v.parent = Len(versions[p])
      /\ v.content = x.content
  BY <1>3, <1>4 DEF VersionRows
<1> HIDE DEF v
<1>6. /\ s \in Seq(VersionRows) /\ Size(s) = Size(versions[p]) + SizeOf[x.content]
      /\ Size(versions[p]) \in Int
  BY <1>4, <1>5, SizeOfVersions
<1>7. Lined(s)
  <2>1. Lined(versions[p])
    BY <1>3 DEF BooksTrue
  <2>2. /\ DOMAIN s = 1..(Len(versions[p]) + 1) /\ s[Len(versions[p]) + 1] = v
        /\ DOMAIN versions[p] = 1..Len(versions[p])
        /\ \A i \in 1..Len(versions[p]) : s[i] = versions[p][i]
    BY <1>4, <1>5
  <2>3. ASSUME NEW i \in DOMAIN s PROVE s[i].number = i /\ s[i].parent = i - 1
    <3>1. CASE i \in 1..Len(versions[p])
      BY <2>1, <2>2, <3>1 DEF Lined
    <3>2. CASE i = Len(versions[p]) + 1
      BY <1>4, <1>5, <2>2, <3>2
    <3> QED
      BY <1>4, <2>2, <2>3, <3>1, <3>2
  <2> QED
    BY <2>3 DEF Lined
<1> HIDE DEF s
<1>8. versions' \in [Projects -> Seq(VersionRows)]
      /\ \A q \in Projects : versions'[q] = IF q = p THEN s ELSE versions[q]
  BY <1>1, <1>3, <1>6 DEF BooksTrue
<1>9. Summed(sentences', versions')
  <2>1. versions \in [Projects -> Seq(VersionRows)] /\ Summed(sentences, versions)
    BY DEF BooksTrue
  <2>2. /\ sentences \in Int
        /\ Summed(sentences - Size(versions[p]) + Size(s), [versions EXCEPT ![p] = s])
    BY <1>3, <1>6, <2>1, SumMoves
  <2>3. SizeOf[x.content] \in Int
    BY <1>3, WorkspaceAssumption
  <2>4. sentences - Size(versions[p]) + Size(s) = sentences'
    BY <1>1, <1>3, <1>6, <2>2, <2>3
  <2> QED
    BY <1>1, <2>2, <2>4
<1>10. \A u \in Txs : WorkspaceReadTrue(tx[u], sentences, versions)'
  BY <1>1, <1>3, OthersRead
<1>11. \A q \in Projects : Lined(versions'[q])
            /\ (project'[q].state = "deletion_pending" => project'[q].counted = Size(versions'[q]))
  <2> SUFFICES ASSUME NEW q \in Projects
               PROVE  Lined(versions'[q]) /\
                      (project'[q].state = "deletion_pending" => project'[q].counted = Size(versions'[q]))
    OBVIOUS
  <2>1. CASE q = p
    BY <1>1, <1>3, <1>7, <1>8, <2>1
  <2>2. CASE q # p
    BY <1>1, <1>8, <2>2 DEF BooksTrue
  <2> QED
    BY <2>1, <2>2
<1> QED
  BY <1>8, <1>9, <1>10, <1>11 DEF BooksTrue, Lined

(* What a deletion request counts is what is there. *)
LEMMA MarkKeepsBooks ==
    ASSUME LockInv, BooksTrue, NEW t \in Txs, MarkForDeletion(t)
    PROVE  BooksTrue'
<1> DEFINE p == tx[t].project
           s == [state |-> "deletion_pending", counted |-> tx[t].counted]
<1>1. /\ Complete(t, {"request"}) /\ project' = [project EXCEPT ![p] = s]
      /\ tx' = [tx EXCEPT ![t] = Closed] /\ UNCHANGED <<versions, sentences>>
  BY DEF MarkForDeletion, Finish
<1>2. {"request"} \in SUBSET Kinds
  BY DEF Kinds
<1>3. p \in Projects /\ s.counted = Size(versions[p])
  BY <1>1, <1>2, CommitHolds
<1> HIDE DEF s, p
<1>4. \A q \in Projects : project'[q] = IF q = p THEN s ELSE project[q]
  BY <1>1 DEF LockInv
<1>5. ASSUME NEW u \in Txs PROVE WorkspaceReadTrue(tx[u], sentences, versions)'
  <2>1. tx'[u] = Closed \/ tx'[u] = tx[u]
    BY <1>1 DEF LockInv
  <2>2. WorkspaceReadTrue(tx'[u], sentences, versions)
    BY <2>1, ClosedReads DEF BooksTrue
  <2> QED
    BY <1>1, <2>2 DEF WorkspaceReadTrue
<1>6. \A q \in Projects :
          /\ Lined(versions'[q])
          /\ project'[q].state = "deletion_pending" => project'[q].counted = Size(versions'[q])
  BY <1>1, <1>3, <1>4 DEF BooksTrue
<1> QED
  BY <1>1, <1>5, <1>6 DEF BooksTrue, Lined

(* A purge gives back what the request has counted. *)
LEMMA PurgeKeepsBooks ==
    ASSUME LockInv, BooksTrue, NEW t \in Txs, PurgeProject(t)
    PROVE  BooksTrue'
<1> DEFINE p == tx[t].project
           s == [state |-> "gone", counted |-> 0]
<1>1. /\ Complete(t, {"purge"}) /\ project' = [project EXCEPT ![p] = s]
      /\ versions' = [versions EXCEPT ![p] = <<>>]
      /\ sentences' = tx[t].used - project[p].counted
      /\ tx' = [tx EXCEPT ![t] = Closed]
  BY DEF PurgeProject, Finish
<1>2. {"purge"} \in SUBSET Kinds
  BY DEF Kinds
<1>3. /\ p \in Projects /\ tx[t].used = sentences /\ project[p].state = "deletion_pending"
      /\ \A u \in Txs : u # t => Row(p) \notin tx[u].held /\ Usage \notin tx[u].held
  BY <1>1, <1>2, CommitHolds DEF Current
<1>4. s.state # "deletion_pending"
  OBVIOUS
<1>5. /\ project[p].counted = Size(versions[p]) /\ <<>> \in Seq(VersionRows) /\ Size(<<>>) = 0
      /\ versions[p] \in Seq(VersionRows) /\ Size(versions[p]) \in Int
  BY <1>3, SizeOfVersions DEF BooksTrue
<1> HIDE DEF s, p
<1>6. /\ versions' \in [Projects -> Seq(VersionRows)]
      /\ \A q \in Projects : versions'[q] = IF q = p THEN <<>> ELSE versions[q]
      /\ \A q \in Projects : project'[q] = IF q = p THEN s ELSE project[q]
  BY <1>1, <1>3, <1>5 DEF BooksTrue, LockInv
<1>7. Summed(sentences', versions')
  <2>1. versions \in [Projects -> Seq(VersionRows)] /\ Summed(sentences, versions)
    BY DEF BooksTrue
  <2>2. /\ sentences \in Int
        /\ Summed(sentences - Size(versions[p]) + Size(<<>>), [versions EXCEPT ![p] = <<>>])
    BY <1>3, <1>5, <2>1, SumMoves
  <2>3. sentences - Size(versions[p]) + Size(<<>>) = sentences'
    BY <1>1, <1>3, <1>5, <2>2
  <2> QED
    BY <1>1, <2>2, <2>3
<1>8. \A u \in Txs : WorkspaceReadTrue(tx[u], sentences, versions)'
  BY <1>1, <1>3, OthersRead
<1>9. Lined(<<>>)
  BY DEF Lined
<1>10. \A q \in Projects : Lined(versions'[q])
            /\ (project'[q].state = "deletion_pending" => project'[q].counted = Size(versions'[q]))
  BY <1>4, <1>6, <1>9 DEF BooksTrue
<1> QED
  BY <1>6, <1>7, <1>8, <1>10 DEF BooksTrue, Lined

(* A transaction begins without locks, and reads under each it takes. *)
LEMMA OpenKeepsBooks ==
    ASSUME LockInv, BooksTrue, NEW t \in Txs,
           \/ \E k \in Writers, p \in Projects, c \in CorpusContents : Begin(t, k, p, c)
           \/ \E k \in Kinds \ Writers, p \in Projects : Begin(t, k, p, NoContent)
           \/ Acquire(t)
    PROVE  BooksTrue'
<1>1. ASSUME NEW k \in Kinds, NEW p \in Projects, NEW c, Begin(t, k, p, c),
             k \in Writers => c \in CorpusContents
      PROVE  BooksTrue'
  <2> DEFINE x == [kind |-> k, project |-> p, content |-> c, held |-> {}, todo |-> LockPlan(k, p),
                   used |-> 0, latest |-> 0, counted |-> 0, last |-> [sequence |-> 0, hash |-> Genesis]]
  <2>1. tx' = [tx EXCEPT ![t] = x] /\ UNCHANGED <<project, versions, sentences>>
    BY <1>1 DEF Begin
  <2>2. x.held = {} /\ x.kind = k /\ x.content = c
    OBVIOUS
  <2> HIDE DEF x
  <2>3. WorkspaceReadTrue(x, sentences, versions)
    BY <1>1, <2>2 DEF WorkspaceReadTrue
  <2> QED
    BY <2>1, <2>3, BooksKept
<1>2. ASSUME Acquire(t) PROVE BooksTrue'
  <2>1. UNCHANGED <<project, versions, sentences>>
    BY <1>2 DEF Acquire
  <2>2. CASE tx' = [tx EXCEPT ![t] = Closed]
    BY <2>1, <2>2, BooksKept, ClosedReads
  <2>3. ASSUME NEW y, Took(tx[t], y), tx' = [tx EXCEPT ![t] = y] PROVE BooksTrue'
    <3>1. WorkspaceReadTrue(tx[t], sentences, versions)
      BY DEF BooksTrue
    <3>2. WorkspaceReadTrue(y, sentences, versions)
      BY <2>3, <3>1, LocksDiffer DEF WorkspaceReadTrue, Took, SizeOfCorpus, Size
    <3> QED
      BY <2>1, <2>3, <3>2, BooksKept
  <2> QED
    BY <1>2, <2>2, <2>3, Acquired
<1>3. Writers \subseteq Kinds
  BY DEF Writers, Kinds
<1> QED
  BY <1>1, <1>2, <1>3

(* BooksTrue is inductive beside LockInv. *)
LEMMA BooksSteps ==
    ASSUME LockInv, BooksTrue, [WorkspaceNext]_workspaceVars
    PROVE  BooksTrue'
<1>1. CASE UNCHANGED <<tx, project, versions, sentences>>
  BY <1>1 DEF BooksTrue, WorkspaceReadTrue, Lined
<1>2. ASSUME NEW t \in Txs, Rollback(t) \/ DeadlockAbort(t) \/ Submitted(t) PROVE BooksTrue'
  <2>1. tx' = [tx EXCEPT ![t] = Closed] /\ UNCHANGED <<project, versions, sentences>>
    BY <1>2 DEF Rollback, DeadlockAbort, Submitted, Finish
  <2> QED
    BY <2>1, BooksKept, ClosedReads
<1>3. CASE ReadPage \/ VerifyHead \/ VerifyEvents \/ VerifyAgain \/ UNCHANGED workspaceVars
  BY <1>1, <1>3 DEF ReadPage, VerifyHead, VerifyEvents, VerifyAgain, workspaceVars
<1> QED
  BY <1>2, <1>3, StoreKeepsBooks, MarkKeepsBooks, PurgeKeepsBooks, OpenKeepsBooks
     DEF WorkspaceNext, Commit

(* BooksTrue holds at first. *)
LEMMA BooksStart ==
    ASSUME WorkspaceInit
    PROVE  BooksTrue
<1>1. <<>> \in Seq(VersionRows) /\ Lined(<<>>)
  BY DEF Lined
<1>2. Summed(sentences, versions)
  BY NothingSums DEF WorkspaceInit
<1> QED
  BY <1>1, <1>2, ClosedReads DEF WorkspaceInit, BooksTrue

(* The counter is the fold over the corpora. *)
LEMMA BooksBalance ==
    ASSUME BooksTrue
    PROVE  CorpusAccounts
<1>1. PICK g : Sums(g, Sizes(versions), Projects) /\ sentences = g[Projects]
  BY DEF BooksTrue, Summed
<1>2. PICK h : /\ Sums(h, [p \in Projects |-> Size(versions[p])], Projects)
               /\ MapThenSumSet(SizeOfCorpus, Projects) = h[Projects]
  BY CorporaSum
<1>3. Sizes(versions) \in [Projects -> Int] /\ IsFiniteSet(Projects)
  BY SizesAre, WorkspaceAssumption DEF BooksTrue
<1>4. g[Projects] = h[Projects]
  <2> DEFINE w == Sizes(versions)
  <2>1. Sums(g, w, Projects) /\ Sums(h, w, Projects) /\ w \in [Projects -> Int]
        /\ IsFiniteSet(Projects) /\ Projects \in SUBSET (Projects \cap Projects)
        /\ \A x \in Projects : w[x] = w[x]
    BY <1>1, <1>2, <1>3 DEF Sizes
  <2> HIDE DEF w
  <2> QED
    BY <2>1, SumsAgree
<1>5. \A p \in Projects : SizeOfCorpus(p) = Size(versions[p])
  BY DEF SizeOfCorpus, Size
<1>6. sentences = MapThenSumSet(SizeOfCorpus, Projects)
  BY <1>1, <1>2, <1>4
<1> QED
  BY <1>5, <1>6 DEF CorpusAccounts, BooksTrue, Lined

-----------------------------------------------------------------------------
(* The audit chain *)

Event(i) == [sequence |-> i, previous |-> i - 1, hash |-> i]
Log(n) == {Event(i) : i \in 1..n}
HeadAt(n) == [sequence |-> n, hash |-> n]
Length == Cardinality(audit)

(* The log is a chain, who holds the head has read its end, the reader has *)
(* read its beginning, and a verification knows the head of its moment.    *)
AuditTrue ==
    /\ Length \in Nat /\ audit = Log(Length) /\ head = HeadAt(Length)
    /\ \A t \in Txs : AuditHead \in tx[t].held => tx[t].last = head
    /\ reader.after \in 0..Length /\ reader.seen = 1..reader.after
    /\ verifier.at = "head" => verifier.size \in 0..Length /\ verifier.head = HeadAt(verifier.size)
    /\ verifier.at = "done" => verifier.ok \/ verifier.raced

(* A log has as many events as it is long. *)
LEMMA LogLength ==
    ASSUME NEW n \in Nat
    PROVE  /\ IsFiniteSet(Log(n)) /\ Cardinality(Log(n)) = n /\ Sequences(Log(n)) = 1..n
           /\ Log(n + 1) = Log(n) \cup {Event(n + 1)}
<1> DEFINE f == [i \in 1..n |-> Event(i)]
<1>1. \A i \in Nat : Event(i).sequence = i
  BY DEF Event
<1> HIDE DEF f
<1>2. f \in Surjection(1..n, Log(n))
  BY DEF f, Log, Surjection
<1>3. \A i, j \in 1..n : f[i] = f[j] => i = j
  BY <1>1 DEF f
<1>4. f \in Injection(1..n, Log(n))
  BY <1>2, <1>3 DEF Injection, Surjection, IsInjective
<1>5. IsFiniteSet(1..n) /\ Cardinality(1..n) = n
  BY FS_Interval
<1>6. IsFiniteSet(Log(n)) /\ Cardinality(Log(n)) = n
  BY <1>2, <1>4, <1>5, FS_Surjection
<1>7. Sequences(Log(n)) = 1..n
  BY <1>1 DEF Sequences, Log
<1>8. Log(n + 1) = Log(n) \cup {Event(n + 1)}
  <2>1. 1..(n + 1) = 1..n \cup {n + 1}
    OBVIOUS
  <2> QED
    BY <2>1 DEF Log
<1> QED
  BY <1>6, <1>7, <1>8

(* A log is the chain from the genesis hash to its head. *)
LEMMA LogChained ==
    ASSUME NEW n \in Nat
    PROVE  Chained(Log(n), HeadAt(n))
<1> DEFINE event(i) == CHOOSE e \in Log(n) : e.sequence = i
<1>1. ASSUME NEW i \in 1..n PROVE event(i) = Event(i)
  <2>1. Event(i) \in Log(n) /\ Event(i).sequence = i
    BY DEF Log, Event
  <2>2. \A e \in Log(n) : e.sequence = i => e = Event(i)
    BY DEF Log, Event
  <2> QED
    BY <2>1, <2>2
<1> HIDE DEF event
<1>2. \A i \in 1..n : event(i).previous = i - 1 /\ event(i).hash = i
  BY <1>1 DEF Event
<1>3. \A i \in 1..n : i - 1 \in 0..n /\ (i # 1 => i - 1 \in 1..n)
  OBVIOUS
<1>4. n # 0 => n \in 1..n
  OBVIOUS
<1>5. HeadAt(n).sequence = n /\ HeadAt(n).hash = n
  BY DEF HeadAt
<1>6. Cardinality(Log(n)) = n /\ Sequences(Log(n)) = 1..n
  BY LogLength
<1>7. /\ \A i \in 1..n : event(i).previous = IF i = 1 THEN Genesis ELSE event(i - 1).hash
      /\ n = IF n = 0 THEN Genesis ELSE event(n).hash
  BY <1>2, <1>3, <1>4 DEF Genesis
<1> QED
  BY <1>5, <1>6, <1>7 DEF Chained, event

(* Nothing is appended: the locks change hands. *)
LEMMA AuditKept ==
    ASSUME LockInv, AuditTrue, NEW t \in Txs, NEW x, tx' = [tx EXCEPT ![t] = x],
           UNCHANGED <<audit, head, reader, verifier>>,
           AuditHead \in x.held => x.last = head
    PROVE  AuditTrue'
<1>1. \A u \in Txs : tx'[u] = IF u = t THEN x ELSE tx[u]
  BY DEF LockInv
<1>2. \A u \in Txs : AuditHead \in tx'[u].held => tx'[u].last = head'
  BY <1>1 DEF AuditTrue
<1>3. Length' = Length
  BY DEF Length
<1> QED
  BY <1>2, <1>3 DEF AuditTrue

(* An event is appended under the lock of the audit head. *)
LEMMA AppendKeeps ==
    ASSUME LockInv, AuditTrue, NEW t \in Txs, NEW K \in SUBSET Kinds, Complete(t, K), Finish(t)
    PROVE  AuditTrue'
<1> DEFINE n == Length
<1>1. AuditHead \in tx[t].held
  BY OpenTx, PlanDone DEF Complete
<1>2. n \in Nat /\ audit = Log(n) /\ tx[t].last = HeadAt(n)
  BY <1>1 DEF AuditTrue
<1>3. /\ audit' = audit \cup {[sequence |-> tx[t].last.sequence + 1,
                               previous |-> tx[t].last.hash, hash |-> n + 1]}
      /\ head' = [sequence |-> tx[t].last.sequence + 1, hash |-> n + 1]
      /\ tx' = [tx EXCEPT ![t] = Closed] /\ reader' = reader /\ verifier' = verifier
  BY DEF Finish, AppendEvent, NewHead, Length
<1> HIDE DEF n
<1>4. tx[t].last.sequence = n /\ tx[t].last.hash = n
  BY <1>2 DEF HeadAt
<1>5. audit' = Log(n + 1) /\ head' = HeadAt(n + 1)
  <2>1. Event(n + 1) = [sequence |-> n + 1, previous |-> n, hash |-> n + 1]
    BY <1>2 DEF Event
  <2> QED
    BY <1>2, <1>3, <1>4, <2>1, LogLength DEF HeadAt
<1>6. Length' = n + 1
  BY <1>2, <1>5, LogLength DEF Length
<1>7. \A u \in Txs : AuditHead \notin tx'[u].held
  <2>1. \A u \in Txs : u # t => AuditHead \notin tx[u].held
    BY <1>1 DEF LockInv, Apart
  <2>2. \A u \in Txs : tx'[u] = IF u = t THEN Closed ELSE tx[u]
    BY <1>3 DEF LockInv
  <2>3. Closed.held = {}
    BY DEF Closed
  <2> QED
    BY <2>1, <2>2, <2>3
<1>8. \A i : i \in 0..n => i \in 0..(n + 1)
  BY <1>2
<1> QED
  BY <1>2, <1>3, <1>5, <1>6, <1>7, <1>8 DEF AuditTrue, n

(* A page holds the next events, all of them up to its last. *)
LEMMA PageKeeps ==
    ASSUME AuditTrue, ReadPage
    PROVE  AuditTrue'
<1> DEFINE n == Length
           a == reader.after
           found == {s \in Sequences(audit) : s > a}
           page == {s \in found : Cardinality({i \in found : i < s}) < PageLimit}
           m == IF n <= a + PageLimit THEN n ELSE a + PageLimit
<1>1. /\ n \in Nat /\ a \in 0..n /\ reader.seen = 1..a /\ Sequences(audit) = 1..n
      /\ PageLimit \in Nat /\ PageLimit # 0
  BY LogLength, WorkspaceAssumption DEF AuditTrue
<1>2. /\ page # {} /\ reader' = [after |-> Max(page), seen |-> reader.seen \cup page]
      /\ UNCHANGED <<audit, head, tx, verifier>>
  BY DEF ReadPage
<1> HIDE DEF n, a
<1>3. found = (a + 1)..n
  BY <1>1
<1>4. ASSUME NEW s \in found PROVE Cardinality({i \in found : i < s}) = s - 1 - a
  <2>1. s \in Int /\ a \in Int /\ s > a /\ s <= n
    BY <1>1, <1>3
  <2>2. {i \in found : i < s} = (a + 1)..(s - 1)
    BY <1>1, <1>3, <2>1
  <2>3. Cardinality((a + 1)..(s - 1)) = s - 1 - a
    BY <2>1, FS_Interval
  <2> QED
    BY <2>2, <2>3
<1> HIDE DEF found
<1>5. page = (a + 1)..m
  BY <1>1, <1>3, <1>4
<1> HIDE DEF page
<1>6. m \in (a + 1)..n /\ m \in page
  BY <1>1, <1>2, <1>5
<1> HIDE DEF m
<1>7. Max(page) = m
  <2>1. \A s \in page : m >= s /\ s \in Int
    BY <1>1, <1>5, <1>6
  <2>2. \A s \in page : (\A i \in page : s >= i) => s = m
    BY <1>1, <1>6, <2>1
  <2> QED
    BY <1>6, <2>1, <2>2 DEF Max
<1>8. reader'.after = m /\ reader'.seen = 1..m
  <2>1. 1..a \cup (a + 1)..m = 1..m
    BY <1>1, <1>6
  <2> QED
    BY <1>1, <1>2, <1>5, <1>7, <2>1
<1>9. Length' = n /\ m \in 0..n
  BY <1>1, <1>2, <1>6 DEF Length, n
<1> QED
  BY <1>2, <1>8, <1>9 DEF AuditTrue, n

(* Who reads the events when none was appended since finds the chain. *)
LEMMA VerifyKeeps ==
    ASSUME AuditTrue, VerifyHead \/ VerifyEvents \/ VerifyAgain
    PROVE  AuditTrue'
<1>1. UNCHANGED <<audit, head, tx, reader>> /\ Length' = Length
  BY DEF VerifyHead, VerifyEvents, VerifyAgain, Length
<1>2. Length \in Nat /\ audit = Log(Length) /\ head = HeadAt(Length)
  BY DEF AuditTrue
<1>3. CASE VerifyHead
  <2>1. verifier' = [at |-> "head", head |-> head, size |-> Length]
    BY <1>3 DEF VerifyHead, Length
  <2>2. verifier'.at = "head" /\ verifier'.size = Length /\ verifier'.head = head
    BY <2>1
  <2> QED
    BY <1>1, <1>2, <2>2 DEF AuditTrue
<1>4. CASE VerifyEvents
  <2>1. verifier.size \in 0..Length /\ verifier.head = HeadAt(verifier.size)
    BY <1>4 DEF AuditTrue, VerifyEvents
  <2>2. verifier' = [at |-> "done", ok |-> Chained(audit, verifier.head),
                     raced |-> Length # verifier.size]
    BY <1>4 DEF VerifyEvents, Length
  <2>3. /\ verifier'.at = "done" /\ verifier'.ok = Chained(audit, verifier.head)
        /\ verifier'.raced = (Length # verifier.size)
    BY <2>2
  <2>4. Length = verifier.size => Chained(audit, verifier.head)
    BY <1>2, <2>1, LogChained
  <2>5. verifier'.ok \/ verifier'.raced
    BY <2>3, <2>4
  <2> QED
    BY <1>1, <2>3, <2>5 DEF AuditTrue
<1>5. CASE VerifyAgain
  <2>1. verifier'.at = "idle"
    BY <1>5 DEF VerifyAgain
  <2> QED
    BY <1>1, <2>1 DEF AuditTrue
<1> QED
  BY <1>3, <1>4, <1>5

(* Every step keeps the chain and what is known of it. *)
LEMMA AuditSteps ==
    ASSUME LockInv, AuditTrue, [WorkspaceNext]_workspaceVars
    PROVE  AuditTrue'
<1>1. CASE UNCHANGED workspaceVars
  BY <1>1 DEF AuditTrue, Length, workspaceVars
<1>2. ASSUME NEW t \in Txs, Rollback(t) \/ DeadlockAbort(t) PROVE AuditTrue'
  <2>1. /\ tx' = [tx EXCEPT ![t] = Closed] /\ UNCHANGED <<audit, head, reader, verifier>>
        /\ Closed.held = {}
    BY <1>2 DEF Rollback, DeadlockAbort, Closed
  <2> QED
    BY <2>1, AuditKept
<1>3. ASSUME NEW t \in Txs, Commit(t) PROVE AuditTrue'
  <2>1. Finish(t) /\ \E K \in SUBSET Kinds : Complete(t, K)
    BY <1>3 DEF Commit, StoreVersion, MarkForDeletion, PurgeProject, Submitted, Kinds, Writers
  <2> QED
    BY <2>1, AppendKeeps
<1>4. ASSUME NEW t \in Txs, NEW k, NEW p, NEW c, Begin(t, k, p, c) PROVE AuditTrue'
  <2> DEFINE x == [kind |-> k, project |-> p, content |-> c, held |-> {}, todo |-> LockPlan(k, p),
                   used |-> 0, latest |-> 0, counted |-> 0, last |-> [sequence |-> 0, hash |-> Genesis]]
  <2>1. tx' = [tx EXCEPT ![t] = x] /\ UNCHANGED <<audit, head, reader, verifier>>
    BY <1>4 DEF Begin
  <2>2. x.held = {}
    OBVIOUS
  <2> HIDE DEF x
  <2> QED
    BY <2>1, <2>2, AuditKept
<1>5. ASSUME NEW t \in Txs, Acquire(t) PROVE AuditTrue'
  <2>1. UNCHANGED <<audit, head, reader, verifier>>
    BY <1>5 DEF Acquire
  <2>2. CASE tx' = [tx EXCEPT ![t] = Closed]
    <3>1. Closed.held = {}
      BY DEF Closed
    <3> QED
      BY <2>1, <2>2, <3>1, AuditKept
  <2>3. ASSUME NEW y, Took(tx[t], y), tx' = [tx EXCEPT ![t] = y] PROVE AuditTrue'
    <3>1. AuditHead \in tx[t].held => tx[t].last = head
      BY DEF AuditTrue
    <3>2. AuditHead \in y.held => y.last = head
      BY <2>3, <3>1 DEF Took
    <3> QED
      BY <2>1, <2>3, <3>2, AuditKept
  <2> QED
    BY <1>5, <2>2, <2>3, Acquired
<1> QED
  BY <1>1, <1>2, <1>3, <1>4, <1>5, PageKeeps, VerifyKeeps DEF WorkspaceNext

(* The empty log is a chain. *)
LEMMA AuditStarts ==
    ASSUME WorkspaceInit
    PROVE  AuditTrue
<1>1. Log(0) = {} /\ Length = 0
  BY FS_EmptySet DEF Log, Length, WorkspaceInit
<1>2. head = HeadAt(0) /\ \A t \in Txs : tx[t].held = {}
  BY DEF WorkspaceInit, HeadAt, Genesis, Closed
<1>3. reader.after = 0 /\ reader.seen = {} /\ verifier.at = "idle" /\ audit = {}
  BY DEF WorkspaceInit
<1> QED
  BY <1>1, <1>2, <1>3 DEF AuditTrue

(* The invariant gives what can be audited. *)
LEMMA AuditShows ==
    ASSUME AuditTrue
    PROVE  AuditComplete
<1>1. Length \in Nat /\ audit = Log(Length) /\ head = HeadAt(Length)
  BY DEF AuditTrue
<1>2. Chained(audit, head) /\ Sequences(audit) = 1..Length
  BY <1>1, LogChained, LogLength
<1>3. reader.seen = {s \in Sequences(audit) : s <= reader.after}
  <2>1. reader.after \in 0..Length /\ reader.seen = 1..reader.after
    BY DEF AuditTrue
  <2> QED
    BY <1>1, <1>2, <2>1
<1> QED
  BY <1>2, <1>3 DEF AuditTrue, AuditComplete

(* For any number of projects, transactions, versions and events: the usage *)
(* row is the sum over the stored corpora, a deletion request has counted   *)
(* what the purge will give back, the versions form a line, the committed   *)
(* chain verifies, and a reader behind the cursor has missed no event       *)
(* (QuotaManager.consume_corpus_sentences, ProjectDeletionService, and      *)
(* AuditWriter.append and verify).                                          *)
THEOREM AccountsAlwaysAudited ==
    WorkspaceInit /\ [][WorkspaceNext]_workspaceVars => []AccountsAudited
<1> DEFINE Inv == LockInv /\ BooksTrue /\ AuditTrue
<1>1. WorkspaceInit => Inv
  BY LockStarts, BooksStart, AuditStarts
<1>2. Inv /\ [WorkspaceNext]_workspaceVars => Inv'
  BY LockSteps, BooksSteps, AuditSteps
<1>3. Inv => AccountsAudited
  BY BooksBalance, AuditShows DEF AccountsAudited
<1> HIDE DEF Inv
<1> QED
  BY <1>1, <1>2, <1>3, PTL

-----------------------------------------------------------------------------
(* Cycles *)

(* Who is in a cycle waits for another of its members. *)
LEMMA InCycle ==
    ASSUME LockInv, NEW S \in SUBSET Txs, WaitCycle(S), NEW t \in S
    PROVE  /\ Open(t) /\ tx[t].todo # <<>> /\ tx[t].kind \in Kinds
           /\ InPlan(tx[t]) /\ tx[t].project \in Projects
           /\ \E u \in S : u # t /\ Head(tx[t].todo) \in tx[u].held
<1>1. PICK u \in S : Waits(t, u)
  BY DEF WaitCycle
<1>2. t # u /\ tx[t].todo # <<>> /\ Head(tx[t].todo) \in tx[u].held
  BY <1>1 DEF Waits
<1>3. Open(t)
  <2>1. tx[t] # Closed
    BY <1>2 DEF Closed
  <2> QED
    BY <2>1 DEF LockInv, TxTrue, Open, Kinds
<1> QED
  BY <1>2, <1>3, OpenTx

(* A purge and another holder of a project's row exclude each other. *)
LEMMA PurgeAlone ==
    ASSUME LockInv, NEW t \in Txs, NEW u \in Txs, Open(t), Open(u), tx[t].kind = "purge",
           Advisory(tx[t].project) \in tx[t].held, Row(tx[t].project) \in tx[u].held,
           tx[u].todo # <<>>
    PROVE  FALSE
<1>1. tx[u].kind # "purge" /\ tx[u].project = tx[t].project
  BY OpenTx, LocksDiffer DEF InPlan, InPlan3, InPlan4, Kinds, Writers
<1> QED
  BY <1>1, OpenTx DEF Current

(* What a member of a cycle that holds a lock waits for. *)
LEMMA HolderWaits ==
    ASSUME LockInv, NEW S \in SUBSET Txs, WaitCycle(S), NEW u \in S, NEW l \in tx[u].held
    PROVE  \/ /\ tx[u].kind \in Writers /\ l = Usage /\ Head(tx[u].todo) = Row(tx[u].project)
           \/ /\ tx[u].kind = "submit" /\ l = Row(tx[u].project) /\ Head(tx[u].todo) = Usage
           \/ /\ tx[u].kind \in {"request", "purge"} /\ l = Advisory(tx[u].project)
              /\ Head(tx[u].todo) \in {Row(tx[u].project), Usage}
           \/ Head(tx[u].todo) = AuditHead
           \/ /\ tx[u].kind = "purge" /\ Head(tx[u].todo) = Row(tx[u].project)
              /\ Advisory(tx[u].project) \in tx[u].held
<1>1. /\ Open(u) /\ tx[u].todo # <<>> /\ tx[u].kind \in Kinds /\ InPlan(tx[u])
  BY InCycle
<1>2. CASE tx[u].kind \in Writers
  BY <1>1, <1>2 DEF InPlan, InPlan3
<1>3. CASE tx[u].kind = "submit"
  BY <1>1, <1>3 DEF InPlan, InPlan3
<1>4. CASE tx[u].kind = "request"
  BY <1>1, <1>4 DEF InPlan, InPlan3
<1>5. CASE tx[u].kind = "purge"
  BY <1>1, <1>5 DEF InPlan, InPlan4
<1> QED
  BY <1>1, <1>2, <1>3, <1>4, <1>5 DEF Kinds, Writers

(* Nobody in a cycle waits for the audit head: who holds it has all its     *)
(* locks, but for a purge, whose project's row nobody else gets.            *)
LEMMA HeadIsFree ==
    ASSUME LockInv, NEW S \in SUBSET Txs, WaitCycle(S), NEW t \in S
    PROVE  /\ Head(tx[t].todo) # AuditHead
           /\ ~(tx[t].kind = "purge" /\ Head(tx[t].todo) = Row(tx[t].project)
                /\ Advisory(tx[t].project) \in tx[t].held)
<1>1. ASSUME NEW u \in S, tx[u].kind = "purge", Head(tx[u].todo) = Row(tx[u].project),
             Advisory(tx[u].project) \in tx[u].held
      PROVE  FALSE
  <2>1. PICK v \in S : v # u /\ Row(tx[u].project) \in tx[v].held
    BY <1>1, InCycle
  <2> QED
    BY <1>1, <2>1, InCycle, PurgeAlone
<1>2. ASSUME Head(tx[t].todo) = AuditHead PROVE FALSE
  <2>1. PICK u \in S : u # t /\ AuditHead \in tx[u].held
    BY <1>2, InCycle
  <2>2. tx[u].kind = "purge" /\ Head(tx[u].todo) = Row(tx[u].project)
        /\ Advisory(tx[u].project) \in tx[u].held
    <3>1. /\ Open(u) /\ tx[u].todo # <<>> /\ tx[u].kind \in Kinds /\ InPlan(tx[u])
      BY InCycle
    <3>2. tx[u].kind = "purge"
      BY <2>1, <3>1, LocksDiffer DEF InPlan, InPlan3, Kinds, Writers
    <3> QED
      BY <2>1, <3>1, <3>2, LocksDiffer DEF InPlan, InPlan4
  <2> QED
    BY <1>1, <2>2
<1> QED
  BY <1>1, <1>2

(* In a cycle the usage row is held by a writer that waits for a project,   *)
(* and a project row by a submission that waits for the usage row.          *)
LEMMA UsageHolder ==
    ASSUME LockInv, NEW S \in SUBSET Txs, WaitCycle(S), NEW u \in S, Usage \in tx[u].held
    PROVE  tx[u].kind \in Writers /\ Head(tx[u].todo) = Row(tx[u].project)
  BY HolderWaits, HeadIsFree, LocksDiffer

(* In a cycle, who holds a project's row is a submit waiting for its usage. *)
LEMMA RowHolder ==
    ASSUME LockInv, NEW S \in SUBSET Txs, WaitCycle(S), NEW u \in S, NEW p, Row(p) \in tx[u].held
    PROVE  tx[u].kind = "submit" /\ tx[u].project = p /\ Head(tx[u].todo) = Usage
  BY HolderWaits, HeadIsFree, LocksDiffer

(* A cycle of waits is the one of a writer and a submit of one project. *)
LEMMA KnownDeadlock ==
    ASSUME LockInv
    PROVE  OnlyKnownDeadlock
<1> SUFFICES ASSUME NEW S \in SUBSET Txs, WaitCycle(S)
             PROVE  \E t, u \in S : /\ tx[t].kind \in Writers /\ tx[u].kind = "submit"
                                    /\ tx[t].project = tx[u].project
  BY DEF OnlyKnownDeadlock
<1>1. ASSUME NEW u \in S, Usage \in tx[u].held
      PROVE  \E t, v \in S : /\ tx[t].kind \in Writers /\ tx[v].kind = "submit"
                             /\ tx[t].project = tx[v].project
  <2>1. tx[u].kind \in Writers /\ Head(tx[u].todo) = Row(tx[u].project)
    BY <1>1, UsageHolder
  <2>2. PICK v \in S : Row(tx[u].project) \in tx[v].held
    BY <2>1, InCycle
  <2>3. tx[v].kind = "submit" /\ tx[v].project = tx[u].project
    BY <2>2, RowHolder
  <2> QED
    BY <2>1, <2>3
<1>2. ASSUME NEW u \in S, NEW p, Row(p) \in tx[u].held
      PROVE  \E v \in S : Usage \in tx[v].held
  BY <1>2, RowHolder, InCycle
<1>3. PICK t \in S : TRUE
  BY DEF WaitCycle
<1>4. PICK u \in S : Head(tx[t].todo) \in tx[u].held
  BY InCycle
<1>5. PICK v \in S : Head(tx[u].todo) \in tx[v].held
  BY InCycle
<1>6. \/ Usage \in tx[u].held \/ Usage \in tx[v].held
      \/ (\E p : Row(p) \in tx[u].held) \/ \E p : Row(p) \in tx[v].held
  BY <1>4, <1>5, HolderWaits, HeadIsFree
<1> QED
  BY <1>1, <1>2, <1>6

(* For any number of projects and transactions: whenever transactions wait  *)
(* for each other in a cycle, a corpus writer and a request that locks the  *)
(* same project are among them (QuotaManager.consume_corpus_sentences,      *)
(* AuditWriter.append, _purge_candidate).                                   *)
THEOREM DeadlocksAreKnown ==
    WorkspaceInit /\ [][WorkspaceNext]_workspaceVars => []OnlyKnownDeadlock
<1>1. WorkspaceInit => LockInv
  BY LockStarts
<1>2. LockInv /\ [WorkspaceNext]_workspaceVars => LockInv'
  BY LockSteps
<1>3. LockInv => OnlyKnownDeadlock
  BY KnownDeadlock
<1> QED
  BY <1>1, <1>2, <1>3, PTL

-----------------------------------------------------------------------------
(* Bounds *)

Opened == {u \in Txs : Open(u)}

(* A writer that holds the usage row still fits into the quota, and every  *)
(* open transaction has its event reserved.                                *)
RoomKept ==
    /\ \A p \in Projects : project[p].state \in {"active", "deletion_pending", "gone"}
    /\ verifier.at \in {"idle", "head", "done"}
    /\ sentences <= SentenceLimit
    /\ \A t \in Txs : tx[t].kind \in Writers /\ Usage \in tx[t].held =>
          sentences + SizeOf[tx[t].content] <= SentenceLimit
    /\ Length + Cardinality(Opened) <= MaxEvents

(* A sum of naturals is one. *)
LEMMA NatSums ==
    ASSUME NEW T, IsFiniteSet(T), NEW w \in [T -> Nat], NEW g, Sums(g, w, T)
    PROVE  \A s \in SUBSET T : g[s] \in Nat
<1> DEFINE Bad == {n \in Nat : \E s \in SUBSET T : Cardinality(s) = n /\ g[s] \notin Nat}
<1>1. \A s \in SUBSET T : g[s] = IF s = {} THEN 0 ELSE w[Some(s)] + g[s \ {Some(s)}]
  BY DEF Sums
<1>2. ASSUME NEW n \in Bad, \A m \in Bad : n <= m PROVE FALSE
  <2>1. PICK s \in SUBSET T : Cardinality(s) = n /\ g[s] \notin Nat
    OBVIOUS
  <2>2. n \in Nat
    OBVIOUS
  <2>3. s # {}
    <3>1. {} \in SUBSET T /\ 0 \in Nat
      OBVIOUS
    <3>2. g[{}] = 0
      BY <1>1, <3>1
    <3> QED
      BY <2>1, <3>1, <3>2
  <2>4. Some(s) \in s
    BY <2>3 DEF Some
  <2>5. /\ s \ {Some(s)} \in SUBSET T /\ Cardinality(s \ {Some(s)}) = n - 1 /\ n - 1 \in Nat
    BY <2>1, <2>4, WithoutSome
  <2>6. n - 1 \notin Bad
    <3> HIDE DEF Bad
    <3> QED
      BY <1>2, <2>2, <2>5
  <2>7. g[s \ {Some(s)}] \in Nat
    BY <2>5, <2>6
  <2>8. g[s] = w[Some(s)] + g[s \ {Some(s)}] /\ w[Some(s)] \in Nat
    BY <1>1, <2>3, <2>4
  <2> QED
    BY <2>1, <2>7, <2>8
<1>3. Bad = {}
  <2>1. Bad \in SUBSET Nat
    OBVIOUS
  <2> HIDE DEF Bad
  <2> QED
    BY <1>2, <2>1, SmallestNat
<1>4. ASSUME NEW s \in SUBSET T PROVE g[s] \in Nat
  <2>1. Cardinality(s) \in Nat
    BY FS_Subset, FS_CardinalityType
  <2> QED
    BY <1>3, <2>1
<1> QED
  BY <1>4

(* The sizes of corpora are naturals. *)
LEMMA SizesNat ==
    ASSUME NEW s \in Seq(VersionRows)
    PROVE  Size(s) \in Nat
<1>1. DOMAIN s = 1..Len(s) /\ Len(s) \in Nat /\ \A i \in DOMAIN s : s[i] \in VersionRows
  OBVIOUS
<1>2. IsFiniteSet(DOMAIN s)
  BY <1>1, FS_Interval
<1>3. \A i \in DOMAIN s : SizeOf[s[i].content] \in Nat
  BY <1>1, WorkspaceAssumption DEF VersionRows
<1>4. Weights(s) \in [DOMAIN s -> Nat]
  BY <1>3 DEF Weights
<1>5. PICK g : Sums(g, Weights(s), DOMAIN s) /\ Size(s) = g[DOMAIN s]
  BY <1>2, SizeIsSum
<1> QED
  BY <1>2, <1>4, <1>5, NatSums

(* So the counter is one. *)
LEMMA CounterNat ==
    ASSUME BooksTrue
    PROVE  sentences \in Nat
<1>1. PICK g : Sums(g, Sizes(versions), Projects) /\ sentences = g[Projects]
  BY DEF BooksTrue, Summed
<1>2. Sizes(versions) \in [Projects -> Nat] /\ IsFiniteSet(Projects)
  BY SizesNat, WorkspaceAssumption DEF BooksTrue, Sizes
<1> QED
  BY <1>1, <1>2, NatSums

(* The open transactions are finitely many. *)
LEMMA OpenedFinite ==
    IsFiniteSet(Opened) /\ Cardinality(Opened) \in Nat
<1>1. IsFiniteSet(Opened)
  BY WorkspaceAssumption, FS_Subset DEF Opened
<1> QED
  BY <1>1, FS_CardinalityType

(* A transaction that ends is one less, and one that begins one more. *)
LEMMA OpenedMoves ==
    ASSUME LockInv, NEW t \in Txs, NEW x, tx' = [tx EXCEPT ![t] = x]
    PROVE  /\ x.kind = "none" /\ Open(t) => Cardinality(Opened') = Cardinality(Opened) - 1
           /\ x.kind # "none" /\ ~Open(t) => Cardinality(Opened') = Cardinality(Opened) + 1
           /\ (x.kind # "none" <=> Open(t)) => Opened' = Opened
<1>1. \A u \in Txs : tx'[u] = IF u = t THEN x ELSE tx[u]
  BY DEF LockInv
<1>2. Opened' = IF x.kind = "none" THEN Opened \ {t} ELSE Opened \cup {t}
  BY <1>1 DEF Opened, Open
<1>3. t \in Opened <=> Open(t)
  BY DEF Opened
<1>4. ASSUME x.kind = "none", Open(t) PROVE Cardinality(Opened') = Cardinality(Opened) - 1
  BY <1>2, <1>3, <1>4, OpenedFinite, FS_RemoveElement
<1>5. ASSUME x.kind # "none", ~Open(t) PROVE Cardinality(Opened') = Cardinality(Opened) + 1
  BY <1>2, <1>3, <1>5, OpenedFinite, FS_AddElement
<1> QED
  BY <1>2, <1>3, <1>4, <1>5

(* A step of one transaction that changes neither counter nor log *)
LEMMA RoomOpens ==
    ASSUME LockInv, AuditTrue, RoomKept, NEW t \in Txs, NEW x, tx' = [tx EXCEPT ![t] = x],
           UNCHANGED <<project, sentences, audit, verifier>>,
           x.kind # "none" /\ ~Open(t) => Length + Cardinality(Opened) < MaxEvents,
           x.kind \in Writers /\ Usage \in x.held => sentences + SizeOf[x.content] <= SentenceLimit
    PROVE  RoomKept'
<1>1. \A u \in Txs : tx'[u] = IF u = t THEN x ELSE tx[u]
  BY DEF LockInv
<1>2. \A u \in Txs : tx'[u].kind \in Writers /\ Usage \in tx'[u].held =>
          sentences + SizeOf[tx'[u].content] <= SentenceLimit
  BY <1>1 DEF RoomKept
<1>3. Length' = Length /\ Length \in Nat /\ MaxEvents \in Nat
  BY WorkspaceAssumption DEF Length, AuditTrue
<1>4. Length + Cardinality(Opened') <= MaxEvents
  <2>1. /\ x.kind = "none" /\ Open(t) => Cardinality(Opened') = Cardinality(Opened) - 1
        /\ x.kind # "none" /\ ~Open(t) => Cardinality(Opened') = Cardinality(Opened) + 1
        /\ (x.kind # "none" <=> Open(t)) => Opened' = Opened
    BY OpenedMoves
  <2>2. Cardinality(Opened) \in Nat /\ Length + Cardinality(Opened) <= MaxEvents
    BY OpenedFinite DEF RoomKept
  <2>3. CASE x.kind = "none" /\ Open(t)
    BY <1>3, <2>1, <2>2, <2>3
  <2>4. CASE x.kind # "none" /\ ~Open(t)
    BY <1>3, <2>1, <2>2, <2>4
  <2>5. CASE x.kind # "none" <=> Open(t)
    BY <2>1, <2>2, <2>5
  <2> QED
    BY <2>3, <2>4, <2>5
<1> QED
  BY <1>2, <1>3, <1>4 DEF RoomKept

(* A commit turns its reservation into an event. *)
LEMMA EventCounted ==
    ASSUME LockInv, AuditTrue, RoomKept, NEW t \in Txs, Open(t), Finish(t)
    PROVE  Length' + Cardinality(Opened') <= MaxEvents
<1>1. tx' = [tx EXCEPT ![t] = Closed] /\ \E e : audit' = audit \cup {e}
  BY DEF Finish, AppendEvent
<1>2. Closed.kind = "none"
  BY DEF Closed
<1>3. Cardinality(Opened') = Cardinality(Opened) - 1
  BY <1>1, <1>2, OpenedMoves
<1>4. Length \in Nat /\ IsFiniteSet(audit)
  BY LogLength DEF AuditTrue
<1>5. Length' = Length \/ Length' = Length + 1
  BY <1>1, <1>4, FS_AddElement DEF Length
<1> QED
  BY <1>3, <1>4, <1>5, OpenedFinite, WorkspaceAssumption DEF RoomKept

(* A commit charges what was found to fit, or gives back. *)
LEMMA RoomCommits ==
    ASSUME LockInv, BooksTrue, AuditTrue, RoomKept, NEW t \in Txs, Commit(t)
    PROVE  RoomKept'
<1> DEFINE p == tx[t].project
<1>1. PICK K \in SUBSET Kinds : Complete(t, K)
  BY DEF Commit, StoreVersion, MarkForDeletion, PurgeProject, Submitted, Kinds, Writers
<1>2. Finish(t) /\ tx' = [tx EXCEPT ![t] = Closed] /\ verifier' = verifier
  BY DEF Commit, StoreVersion, MarkForDeletion, PurgeProject, Submitted, Finish
<1>3. /\ Open(t) /\ p \in Projects
      /\ tx[t].kind \in Writers \cup {"purge"} => Usage \in tx[t].held
      /\ tx[t].kind \in Writers => tx[t].content \in CorpusContents
      /\ tx[t].kind = "purge" => Current(t).state = "deletion_pending"
      /\ Usage \in tx[t].held => tx[t].used = sentences
      /\ \A u \in Txs : u # t /\ Usage \in tx[t].held => Usage \notin tx[u].held
  <2> HIDE DEF p
  <2> QED
    BY <1>1, CommitHolds DEF p
<1>4. \A u \in Txs : tx'[u] = IF u = t THEN Closed ELSE tx[u]
  BY <1>2 DEF LockInv
<1>5. Closed.held = {} /\ Closed.kind \notin Writers
  BY DEF Closed, Writers
<1>6. Length' + Cardinality(Opened') <= MaxEvents
  BY <1>2, <1>3, EventCounted
<1>7. \A q \in Projects : project'[q].state \in {"active", "deletion_pending", "gone"}
  <2>1. project' = project \/ \E n, s : /\ project' = [project EXCEPT ![p] = [state |-> s, counted |-> n]]
                                        /\ s \in {"deletion_pending", "gone"}
    BY DEF Commit, StoreVersion, MarkForDeletion, PurgeProject, Submitted
  <2>2. ASSUME NEW n, NEW s \in {"deletion_pending", "gone"},
               project' = [project EXCEPT ![p] = [state |-> s, counted |-> n]], NEW q \in Projects
        PROVE  project'[q].state \in {"active", "deletion_pending", "gone"}
    <3>1. project'[q] = IF q = p THEN [state |-> s, counted |-> n] ELSE project[q]
      BY <2>2 DEF LockInv
    <3> QED
      BY <3>1 DEF RoomKept
  <2> QED
    BY <2>1, <2>2 DEF RoomKept
<1>8. sentences \in Nat /\ SentenceLimit \in Nat
  BY CounterNat, WorkspaceAssumption
<1>9. CASE sentences' = sentences
  <2>1. \A u \in Txs : tx'[u].kind \in Writers /\ Usage \in tx'[u].held =>
            sentences + SizeOf[tx'[u].content] <= SentenceLimit
    BY <1>4, <1>5 DEF RoomKept
  <2> QED
    BY <1>2, <1>6, <1>7, <1>9, <2>1 DEF RoomKept
<1>10. ASSUME sentences' <= SentenceLimit, Usage \in tx[t].held PROVE RoomKept'
  <2>1. \A u \in Txs : Usage \notin tx'[u].held
    BY <1>3, <1>4, <1>5, <1>10
  <2> QED
    BY <1>2, <1>6, <1>7, <1>10, <2>1 DEF RoomKept
<1>11. ASSUME StoreVersion(t) PROVE RoomKept'
  <2>1. sentences' = tx[t].used + SizeOf[tx[t].content] /\ tx[t].kind \in Writers
    BY <1>11 DEF StoreVersion, Complete
  <2> QED
    BY <1>3, <1>10, <2>1 DEF RoomKept
<1>12. ASSUME PurgeProject(t) PROVE RoomKept'
  <2>1. sentences' = tx[t].used - project[p].counted /\ tx[t].kind = "purge"
    BY <1>12 DEF PurgeProject, Complete
  <2>2. project[p].counted = Size(versions[p]) /\ Size(versions[p]) \in Nat
    BY <1>3, <2>1, SizesNat DEF BooksTrue, Current
  <2>3. sentences' <= SentenceLimit
    BY <1>3, <1>8, <2>1, <2>2 DEF RoomKept
  <2> QED
    BY <1>3, <1>10, <2>1, <2>3
<1> QED
  BY <1>9, <1>11, <1>12 DEF Commit, MarkForDeletion, Submitted

(* RoomKept is inductive beside the other parts. *)
LEMMA RoomSteps ==
    ASSUME LockInv, BooksTrue, AuditTrue, RoomKept, [WorkspaceNext]_workspaceVars
    PROVE  RoomKept'
<1>1. CASE UNCHANGED <<project, sentences, audit, tx>> /\ verifier'.at \in {"idle", "head", "done"}
  BY <1>1 DEF RoomKept, Length, Opened, Open
<1>2. Closed.kind = "none" /\ Closed.kind \notin Writers
  BY DEF Closed, Writers
<1>3. ASSUME NEW t \in Txs, Rollback(t) \/ DeadlockAbort(t) PROVE RoomKept'
  <2>1. tx' = [tx EXCEPT ![t] = Closed] /\ UNCHANGED <<project, sentences, audit, verifier>>
    BY <1>3 DEF Rollback, DeadlockAbort
  <2> QED
    BY <1>2, <2>1, RoomOpens
<1>4. ASSUME NEW t \in Txs, NEW k, NEW p, NEW c, Begin(t, k, p, c) PROVE RoomKept'
  <2> DEFINE x == [kind |-> k, project |-> p, content |-> c, held |-> {}, todo |-> LockPlan(k, p),
                   used |-> 0, latest |-> 0, counted |-> 0, last |-> [sequence |-> 0, hash |-> Genesis]]
  <2>1. tx' = [tx EXCEPT ![t] = x] /\ UNCHANGED <<project, sentences, audit, verifier>>
        /\ Length + Cardinality(Opened) < MaxEvents
    BY <1>4 DEF Begin, Length, Opened
  <2>2. x.held = {}
    OBVIOUS
  <2> HIDE DEF x
  <2> QED
    BY <2>1, <2>2, RoomOpens
<1>5. ASSUME NEW t \in Txs, Acquire(t) PROVE RoomKept'
  <2>1. UNCHANGED <<project, sentences, audit, verifier>>
    BY <1>5 DEF Acquire
  <2>2. Open(t)
    BY <1>5, Acquired
  <2>3. CASE tx' = [tx EXCEPT ![t] = Closed]
    BY <1>2, <2>1, <2>3, RoomOpens
  <2>4. ASSUME NEW y, Took(tx[t], y), tx' = [tx EXCEPT ![t] = y], ~Refused(t, Head(tx[t].todo))
        PROVE  RoomKept'
    <3>1. y.kind = tx[t].kind /\ y.content = tx[t].content
          /\ y.held = tx[t].held \cup {Head(tx[t].todo)}
      BY <2>4 DEF Took
    <3>2. ASSUME y.kind \in Writers, Usage \in y.held
          PROVE  sentences + SizeOf[y.content] <= SentenceLimit
      <4>1. CASE Usage \in tx[t].held
        BY <3>1, <3>2, <4>1 DEF RoomKept
      <4>2. CASE Usage = Head(tx[t].todo)
        <5>1. ~OverLimit(t)
          BY <2>4, <4>2 DEF Refused
        <5>2. sentences \in Nat /\ SentenceLimit \in Nat
          BY CounterNat, WorkspaceAssumption
        <5>3. SizeOf[tx[t].content] \in Nat
          BY <3>1, <3>2, WorkspaceAssumption DEF BooksTrue, WorkspaceReadTrue
        <5> QED
          BY <3>1, <3>2, <5>1, <5>2, <5>3 DEF OverLimit
      <4> QED
        BY <3>1, <3>2, <4>1, <4>2
    <3> QED
      BY <2>1, <2>2, <2>4, <3>2, RoomOpens
  <2> QED
    BY <1>5, <2>3, <2>4, Acquired
<1>6. CASE ReadPage \/ VerifyHead \/ VerifyEvents \/ VerifyAgain \/ UNCHANGED workspaceVars
  BY <1>1, <1>6 DEF ReadPage, VerifyHead, VerifyEvents, VerifyAgain, workspaceVars, RoomKept
<1> QED
  BY <1>3, <1>4, <1>5, <1>6, RoomCommits DEF WorkspaceNext

(* RoomKept holds at first. *)
LEMMA RoomAtStart ==
    ASSUME WorkspaceInit
    PROVE  RoomKept
<1>1. Length = 0 /\ Opened = {}
  BY FS_EmptySet DEF Length, Opened, Open, Closed, WorkspaceInit
<1>2. Cardinality(Opened) = 0
  BY <1>1, FS_EmptySet
<1>3. \A t \in Txs : tx[t].kind \notin Writers
  BY DEF WorkspaceInit, Closed, Writers
<1> QED
  BY <1>1, <1>2, <1>3, WorkspaceAssumption DEF WorkspaceInit, RoomKept

(* With these the parts of an organization are within their types. *)
LEMMA WorkspaceTypesHold ==
    ASSUME LockInv, BooksTrue, AuditTrue, RoomKept
    PROVE  WorkspaceTypeOK
<1>1. \A p \in Projects : \A i \in DOMAIN versions[p] : versions[p][i].content \in CorpusContents
  <2>1. ASSUME NEW p \in Projects, NEW i \in DOMAIN versions[p]
        PROVE  versions[p][i].content \in CorpusContents
    <3>1. versions[p] \in Seq(VersionRows)
      BY DEF BooksTrue
    <3>2. versions[p][i] \in VersionRows
      BY <3>1
    <3> QED
      BY <3>2 DEF VersionRows
  <2> QED
    BY <2>1
<1>2. sentences \in 0..SentenceLimit
  BY CounterNat, WorkspaceAssumption DEF RoomKept
<1>3. head.sequence \in 0..MaxEvents
  <2>1. head.sequence = Length /\ Length \in Nat
    BY DEF AuditTrue, HeadAt
  <2> QED
    BY <2>1, OpenedFinite, WorkspaceAssumption DEF RoomKept
<1>4. \A t \in Txs : tx[t].kind \in Kinds \cup {"none"}
  BY DEF LockInv, TxTrue, Closed
<1> QED
  BY <1>1, <1>2, <1>3, <1>4 DEF WorkspaceTypeOK, RoomKept

(* For any number of projects, transactions and contents, a project is     *)
(* active, marked or gone, the usage row stays within 0..the limit although *)
(* it is compared and charged in two statements (consume_corpus_sentences, *)
(* _persist_corpus) and given back in a third (_purge_candidate), and every *)
(* stored version is one that was sent.                                    *)
THEOREM WorkspaceTypesKept ==
    WorkspaceInit /\ [][WorkspaceNext]_workspaceVars => []WorkspaceTypeOK
<1> DEFINE Inv == LockInv /\ BooksTrue /\ AuditTrue /\ RoomKept
<1>1. WorkspaceInit => Inv
  BY LockStarts, BooksStart, AuditStarts, RoomAtStart
<1>2. Inv /\ [WorkspaceNext]_workspaceVars => Inv'
  BY LockSteps, BooksSteps, AuditSteps, RoomSteps
<1>3. Inv => WorkspaceTypeOK
  BY WorkspaceTypesHold
<1> HIDE DEF Inv
<1> QED
  BY <1>1, <1>2, <1>3, PTL

-----------------------------------------------------------------------------
(***************************************************************************)
(* Puts, deletes and listings of the object stores (ObjectStores), for any *)
(* keys, limits and page size and any number of processes.                 *)
(***************************************************************************)

ObjectStages == {"idle", "put", "compare", "replace", "describe", "rename", "head", "unlink",
                 "unlink_metadata"}

ObjectUsers == [at : ObjectStages, key : ObjectKeys \cup {0}, alone : BOOLEAN]

StoreTypes ==
    /\ backend \in {"filesystem", "s3"}
    /\ data \subseteq ObjectKeys /\ leftover \subseteq ObjectKeys
    /\ user \in [Users -> ObjectUsers]

(* While a put is alone on its key, what it has stored is there.  Nobody    *)
(* trusts in a key that someone deletes.                                    *)
UserTrue(u) ==
    /\ user[u].at # "idle" => user[u].key \in ObjectKeys
    /\ user[u].at \in {"compare", "replace", "describe", "rename", "unlink_metadata"} =>
          backend = "filesystem"
    /\ user[u].at = "head" => backend = "s3"
    /\ user[u].at \in {"describe", "rename"} /\ user[u].alone => user[u].key \in data
    /\ user[u].at \in {"unlink", "unlink_metadata"} =>
          /\ user[u].key \notin held
          /\ \A v \in Users : user[v].key = user[u].key => ~user[v].alone

(* The keys found so far end where those not found begin. *)
ListingTrue ==
    listing.at = "listing" =>
        /\ listing.limit \in Nat \ {0}
        /\ listing.found \subseteq Int /\ IsFiniteSet(listing.found)
        /\ Cardinality(listing.found) < listing.limit
        /\ listing.steady \subseteq data
        /\ \A k \in listing.steady :
              EntryOf(k) \in listing.found \/ \A e \in listing.found : e < EntryOf(k)
        /\ backend = "filesystem" => listing.found = {}

StoreInv ==
    /\ StoreTypes
    /\ \A u \in Users : UserTrue(u)
    /\ backend = "s3" => data \subseteq meta
    /\ PutHolds
    /\ ListingTrue
    /\ ListingSkipsNone

ObjectsSpec == ObjectsInit /\ [][ObjectsNext]_objectVars

-----------------------------------------------------------------------------
(* Numbers of a listing *)

(* The smaller of two numbers, as the community modules choose it *)
LEMMA SmallerOf ==
    ASSUME NEW a \in Int, NEW b \in Int
    PROVE  Min({a, b}) = IF a <= b THEN a ELSE b
<1>1. \E x \in {a, b} : \A y \in {a, b} : x <= y
  OBVIOUS
<1>2. Min({a, b}) \in {a, b} /\ \A y \in {a, b} : Min({a, b}) <= y
  BY <1>1 DEF Min
<1> QED
  BY <1>2

(* The image of a finite set under a function *)
LEMMA ImageFinite ==
    ASSUME NEW S, NEW f \in [S -> Int], IsFiniteSet(S)
    PROVE  IsFiniteSet({f[x] : x \in S})
<1>1. f \in Surjection(S, {f[x] : x \in S})
  BY DEF Surjection
<1> QED
  BY <1>1, FS_Surjection

(* A directory has finitely many entries, and they are numbers.            *)
LEMMA EntriesFinite ==
    ASSUME ObjectsAssumption, StoreTypes
    PROVE  Entries \subseteq Int /\ IsFiniteSet(Entries)
<1> DEFINE keys == ObjectKeys \cup {0}
           name == [k \in keys |-> EntryOf(k)]
           temporaryName == [k \in keys |-> TemporaryOf(k)]
           named == {EntryOf(k) : k \in keys}
           temporary == {TemporaryOf(k) : k \in keys}
<1>1. IsFiniteSet(keys) /\ keys \subseteq Nat
  <2>1. IsFiniteSet(ObjectKeys) /\ ObjectKeys \subseteq Nat
    BY DEF ObjectsAssumption
  <2> QED
    BY <2>1, FS_AddElement
<1>2. IsFiniteSet(named) /\ named \subseteq Int
  <2>1. name \in [keys -> Int] /\ \A k \in keys : name[k] = EntryOf(k)
    BY <1>1 DEF EntryOf
  <2>2. named = {name[k] : k \in keys} /\ named \subseteq Int
    BY <1>1, <2>1 DEF EntryOf
  <2> HIDE DEF name
  <2>3. IsFiniteSet({name[k] : k \in keys})
    BY <1>1, <2>1, ImageFinite
  <2> QED
    BY <2>2, <2>3
<1>3. IsFiniteSet(temporary) /\ temporary \subseteq Int
  <2>1. temporaryName \in [keys -> Int] /\ \A k \in keys : temporaryName[k] = TemporaryOf(k)
    BY <1>1 DEF TemporaryOf
  <2>2. temporary = {temporaryName[k] : k \in keys} /\ temporary \subseteq Int
    BY <1>1, <2>1 DEF TemporaryOf
  <2> HIDE DEF temporaryName
  <2>3. IsFiniteSet({temporaryName[k] : k \in keys})
    BY <1>1, <2>1, ImageFinite
  <2> QED
    BY <2>2, <2>3
<1>4. IsFiniteSet(named \cup temporary) /\ named \cup temporary \subseteq Int
  BY <1>2, <1>3, FS_Union
<1>5. Entries \subseteq named \cup temporary
  <2>1. \A u \in Users : user[u].key \in keys
    BY DEF StoreTypes, ObjectUsers
  <2>2. data \subseteq keys /\ leftover \subseteq keys
    BY DEF StoreTypes
  <2> QED
    BY <2>1, <2>2 DEF Entries
<1> QED
  BY <1>4, <1>5, FS_Subset

-----------------------------------------------------------------------------
(* The inductive steps *)

(* StoreInv holds at first. *)
LEMMA StoreStarts ==
    ObjectsInit => StoreInv
BY DEF ObjectsInit, StoreInv, StoreTypes, UserTrue, ListingTrue, ListingSkipsNone, PutHolds,
       RestingUser, NoListing, ObjectUsers, ObjectStages

(* BeginPut *)
LEMMA BeginPutKeeps ==
    ASSUME ObjectsAssumption, StoreInv, NEW u \in Users, NEW k \in ObjectKeys, BeginPut(u, k)
    PROVE  StoreInv'
<1> USE DEF BeginPut, UserTo, Ends, Acknowledge, RestingUser, objectVars
<1>1. StoreTypes'
  BY DEF StoreInv, StoreTypes, ObjectUsers, ObjectStages, UserTrue
<1>2. \A v \in Users : UserTrue(v)'
  BY DEF StoreInv, StoreTypes, UserTrue, Deleting
<1>3. (backend = "s3" => data \subseteq meta)' /\ PutHolds'
  BY DEF StoreInv, StoreTypes, UserTrue, PutHolds, Deleting
<1>4. ListingTrue' /\ ListingSkipsNone'
  BY DEF StoreInv, ListingTrue, ListingSkipsNone, EntryOf
<1> QED
  BY <1>1, <1>2, <1>3, <1>4 DEF StoreInv

(* LookForPath *)
LEMMA LookForPathKeeps ==
    ASSUME ObjectsAssumption, StoreInv, NEW u \in Users, LookForPath(u)
    PROVE  StoreInv'
<1> USE DEF LookForPath, UserTo, Ends, Acknowledge, RestingUser, objectVars
<1>1. StoreTypes'
  BY DEF StoreInv, StoreTypes, ObjectUsers, ObjectStages, UserTrue
<1>2. \A v \in Users : UserTrue(v)'
  BY DEF StoreInv, StoreTypes, UserTrue, Deleting
<1>3. (backend = "s3" => data \subseteq meta)' /\ PutHolds'
  BY DEF StoreInv, StoreTypes, UserTrue, PutHolds, Deleting
<1>4. ListingTrue' /\ ListingSkipsNone'
  BY DEF StoreInv, ListingTrue, ListingSkipsNone, EntryOf
<1> QED
  BY <1>1, <1>2, <1>3, <1>4 DEF StoreInv

(* Compare *)
LEMMA CompareKeeps ==
    ASSUME ObjectsAssumption, StoreInv, NEW u \in Users, Compare(u)
    PROVE  StoreInv'
<1> USE DEF Compare, Ends, Acknowledge
<1>1. StoreTypes'
  <2>1. user' = [user EXCEPT ![u] = RestingUser] /\ UNCHANGED <<backend, data, leftover>>
    BY DEF StoreInv
  <2>2. RestingUser \in ObjectUsers
    BY DEF RestingUser, ObjectUsers, ObjectStages
  <2> QED
    BY <2>1, <2>2 DEF StoreInv, StoreTypes
<1> USE DEF RestingUser
<1>2. \A v \in Users : UserTrue(v)'
  <2>1. CASE user[u].key \in data \cap meta
    BY <2>1 DEF StoreInv, StoreTypes, UserTrue, Deleting
  <2>2. CASE ~(user[u].key \in data \cap meta)
    BY <2>2 DEF StoreInv, StoreTypes, UserTrue, Deleting
  <2> QED
    BY <2>1, <2>2
<1>3. (backend = "s3" => data \subseteq meta)' /\ PutHolds'
  BY DEF StoreInv, StoreTypes, UserTrue, PutHolds, Deleting
<1>4. ListingTrue' /\ ListingSkipsNone'
  BY DEF StoreInv, ListingTrue, ListingSkipsNone, EntryOf
<1> QED
  BY <1>1, <1>2, <1>3, <1>4 DEF StoreInv

(* ReplaceData *)
LEMMA ReplaceDataKeeps ==
    ASSUME ObjectsAssumption, StoreInv, NEW u \in Users, ReplaceData(u)
    PROVE  StoreInv'
<1> USE DEF ReplaceData, UserTo, Ends, Acknowledge, RestingUser, objectVars
<1>1. StoreTypes'
  BY DEF StoreInv, StoreTypes, ObjectUsers, ObjectStages, UserTrue
<1>2. \A v \in Users : UserTrue(v)'
  BY DEF StoreInv, StoreTypes, UserTrue, Deleting
<1>3. (backend = "s3" => data \subseteq meta)' /\ PutHolds'
  BY DEF StoreInv, StoreTypes, UserTrue, PutHolds, Deleting
<1>4. ListingTrue' /\ ListingSkipsNone'
  BY DEF StoreInv, ListingTrue, ListingSkipsNone, EntryOf
<1> QED
  BY <1>1, <1>2, <1>3, <1>4 DEF StoreInv

(* OpenMetadata *)
LEMMA OpenMetadataKeeps ==
    ASSUME ObjectsAssumption, StoreInv, NEW u \in Users, OpenMetadata(u)
    PROVE  StoreInv'
<1> USE DEF OpenMetadata, UserTo, Ends, Acknowledge, RestingUser, objectVars
<1>1. StoreTypes'
  BY DEF StoreInv, StoreTypes, ObjectUsers, ObjectStages, UserTrue
<1>2. \A v \in Users : UserTrue(v)'
  BY DEF StoreInv, StoreTypes, UserTrue, Deleting
<1>3. (backend = "s3" => data \subseteq meta)' /\ PutHolds'
  BY DEF StoreInv, StoreTypes, UserTrue, PutHolds, Deleting
<1>4. ListingTrue' /\ ListingSkipsNone'
  BY DEF StoreInv, ListingTrue, ListingSkipsNone, EntryOf
<1> QED
  BY <1>1, <1>2, <1>3, <1>4 DEF StoreInv

(* ReplaceMetadata: what is acknowledged has its bytes since ReplaceData. *)
LEMMA ReplaceMetadataKeeps ==
    ASSUME ObjectsAssumption, StoreInv, NEW u \in Users, ReplaceMetadata(u)
    PROVE  StoreInv'
<1> USE DEF ReplaceMetadata, UserTo, Ends, Acknowledge, RestingUser, objectVars
<1>1. StoreTypes'
  BY DEF StoreInv, StoreTypes, ObjectUsers, ObjectStages, UserTrue
<1>2. \A v \in Users : UserTrue(v)'
  BY DEF StoreInv, StoreTypes, UserTrue, Deleting
<1>3. (backend = "s3" => data \subseteq meta)' /\ PutHolds'
  BY DEF StoreInv, StoreTypes, UserTrue, PutHolds, Deleting
<1>4. ListingTrue' /\ ListingSkipsNone'
  BY DEF StoreInv, ListingTrue, ListingSkipsNone, EntryOf
<1> QED
  BY <1>1, <1>2, <1>3, <1>4 DEF StoreInv

(* PutFails: only the temporary file goes. *)
LEMMA PutFailsKeeps ==
    ASSUME ObjectsAssumption, StoreInv, NEW u \in Users, PutFails(u)
    PROVE  StoreInv'
<1> USE DEF PutFails, DataAfterFailure, UserTo, Ends, Acknowledge, RestingUser, objectVars
<1>1. StoreTypes'
  BY DEF StoreInv, StoreTypes, ObjectUsers, ObjectStages, UserTrue
<1>2. \A v \in Users : UserTrue(v)'
  BY DEF StoreInv, StoreTypes, UserTrue, Deleting
<1>3. (backend = "s3" => data \subseteq meta)' /\ PutHolds'
  BY DEF StoreInv, StoreTypes, UserTrue, PutHolds, Deleting
<1>4. ListingTrue' /\ ListingSkipsNone'
  BY DEF StoreInv, ListingTrue, ListingSkipsNone, EntryOf
<1> QED
  BY <1>1, <1>2, <1>3, <1>4 DEF StoreInv

(* KillUser *)
LEMMA KillUserKeeps ==
    ASSUME ObjectsAssumption, StoreInv, NEW u \in Users, KillUser(u)
    PROVE  StoreInv'
<1> USE DEF KillUser, UserTo, Ends, Acknowledge, RestingUser, objectVars
<1>1. StoreTypes'
  BY DEF StoreInv, StoreTypes, ObjectUsers, ObjectStages, UserTrue
<1>2. \A v \in Users : UserTrue(v)'
  BY DEF StoreInv, StoreTypes, UserTrue, Deleting
<1>3. (backend = "s3" => data \subseteq meta)' /\ PutHolds'
  BY DEF StoreInv, StoreTypes, UserTrue, PutHolds, Deleting
<1>4. ListingTrue' /\ ListingSkipsNone'
  BY DEF StoreInv, ListingTrue, ListingSkipsNone, EntryOf
<1> QED
  BY <1>1, <1>2, <1>3, <1>4 DEF StoreInv

(* PutObject *)
LEMMA PutObjectKeeps ==
    ASSUME ObjectsAssumption, StoreInv, NEW u \in Users, PutObject(u)
    PROVE  StoreInv'
<1> USE DEF PutObject
<1>1. /\ backend = "s3" /\ user[u].at = "put" /\ user[u] \in ObjectUsers
      /\ user[u].key \in ObjectKeys
  BY DEF StoreInv, StoreTypes, UserTrue
<1>2. \E next \in ObjectUsers :
        /\ user' = [user EXCEPT ![u] = next]
        /\ next.at \in {"head", "put", "idle"}
        /\ next.alone => user[u].alone
        /\ next.key = user[u].key \/ (next.at = "idle" /\ ~next.alone)
  <2>1. CASE UserTo(u, "head")
    <3> DEFINE next == [user[u] EXCEPT !.at = "head"]
    <3>1. next \in ObjectUsers /\ user' = [user EXCEPT ![u] = next]
      BY <1>1, <2>1 DEF UserTo, ObjectUsers, ObjectStages
    <3>2. next.at = "head" /\ next.key = user[u].key /\ next.alone = user[u].alone
      BY <1>1 DEF ObjectUsers
    <3> HIDE DEF next
    <3> QED
      BY <3>1, <3>2
  <2>2. CASE UNCHANGED user
    <3>1. user' = [user EXCEPT ![u] = user[u]]
      <4>1. user = [v \in Users |-> user[v]]
        BY DEF StoreInv, StoreTypes
      <4> QED
        BY <2>2, <4>1
    <3>2. PICK next \in ObjectUsers : next = user[u]
      BY <1>1
    <3> QED
      BY <1>1, <3>1, <3>2
  <2>3. CASE Ends(u)
    <3>1. RestingUser \in ObjectUsers
      BY DEF RestingUser, ObjectUsers, ObjectStages
    <3> QED
      BY <2>3, <3>1 DEF Ends, RestingUser
  <2> QED
    BY <2>1, <2>2, <2>3
<1>3. StoreTypes'
  BY <1>1, <1>2 DEF StoreInv, StoreTypes
<1>4. \A v \in Users : UserTrue(v)'
  BY <1>1, <1>2 DEF StoreInv, StoreTypes, UserTrue
<1>5. (backend = "s3" => data \subseteq meta)' /\ PutHolds'
  BY <1>1 DEF StoreInv, PutHolds
<1>6. ListingTrue' /\ ListingSkipsNone'
  BY DEF StoreInv, ListingTrue, ListingSkipsNone, EntryOf
<1> QED
  BY <1>3, <1>4, <1>5, <1>6 DEF StoreInv

(* HeadObject *)
LEMMA HeadObjectKeeps ==
    ASSUME ObjectsAssumption, StoreInv, NEW u \in Users, HeadObject(u)
    PROVE  StoreInv'
<1> USE DEF HeadObject, Ends, Acknowledge
<1>1. StoreTypes'
  <2>1. user' = [user EXCEPT ![u] = RestingUser] /\ UNCHANGED <<backend, data, leftover>>
    BY DEF StoreInv
  <2>2. RestingUser \in ObjectUsers
    BY DEF RestingUser, ObjectUsers, ObjectStages
  <2> QED
    BY <2>1, <2>2 DEF StoreInv, StoreTypes
<1> USE DEF RestingUser
<1>2. \A v \in Users : UserTrue(v)'
  <2>1. CASE user[u].key \in data
    BY <2>1 DEF StoreInv, StoreTypes, UserTrue, Deleting
  <2>2. CASE ~(user[u].key \in data)
    BY <2>2 DEF StoreInv, StoreTypes, UserTrue, Deleting
  <2> QED
    BY <2>1, <2>2
<1>3. (backend = "s3" => data \subseteq meta)' /\ PutHolds'
  BY DEF StoreInv, StoreTypes, UserTrue, PutHolds, Deleting
<1>4. ListingTrue' /\ ListingSkipsNone'
  BY DEF StoreInv, ListingTrue, ListingSkipsNone, EntryOf
<1> QED
  BY <1>1, <1>2, <1>3, <1>4 DEF StoreInv

(* BeginDelete *)
LEMMA BeginDeleteKeeps ==
    ASSUME ObjectsAssumption, StoreInv, NEW u \in Users, NEW k \in ObjectKeys, BeginDelete(u, k)
    PROVE  StoreInv'
<1> USE DEF BeginDelete, UserTo, Ends, Acknowledge, RestingUser, objectVars
<1>1. StoreTypes'
  BY DEF StoreInv, StoreTypes, ObjectUsers, ObjectStages, UserTrue
<1>2. \A v \in Users : UserTrue(v)'
  BY DEF StoreInv, StoreTypes, UserTrue, Deleting
<1>3. (backend = "s3" => data \subseteq meta)' /\ PutHolds'
  BY DEF StoreInv, StoreTypes, UserTrue, PutHolds, Deleting
<1>4. ListingTrue' /\ ListingSkipsNone'
  BY DEF StoreInv, ListingTrue, ListingSkipsNone, EntryOf
<1> QED
  BY <1>1, <1>2, <1>3, <1>4 DEF StoreInv

(* Unlink *)
LEMMA UnlinkKeeps ==
    ASSUME ObjectsAssumption, StoreInv, NEW u \in Users, Unlink(u)
    PROVE  StoreInv'
<1> USE DEF Unlink
<1>1. /\ user[u].at = "unlink" /\ user[u] \in ObjectUsers
      /\ user[u].key \notin held
      /\ \A v \in Users : user[v].key = user[u].key => ~user[v].alone
  BY DEF StoreInv, StoreTypes, UserTrue
<1>2. \E next \in ObjectUsers :
        /\ user' = [user EXCEPT ![u] = next]
        /\ ~next.alone
        /\ \/ next.at = "idle" /\ backend = "s3"
           \/ next.at = "unlink_metadata" /\ next.key = user[u].key /\ backend = "filesystem"
  <2>1. CASE backend = "s3"
    <3>1. RestingUser \in ObjectUsers
      BY DEF RestingUser, ObjectUsers, ObjectStages
    <3> QED
      BY <2>1, <3>1 DEF Ends, RestingUser
  <2>2. CASE backend = "filesystem"
    <3>1. [user[u] EXCEPT !.at = "unlink_metadata"] \in ObjectUsers
      BY <1>1 DEF ObjectUsers, ObjectStages
    <3> QED
      BY <1>1, <2>2, <3>1 DEF UserTo, ObjectUsers
  <2> QED
    BY <2>1, <2>2 DEF StoreInv, StoreTypes
<1>3. StoreTypes'
  BY <1>1, <1>2 DEF StoreInv, StoreTypes
<1>4. \A v \in Users : UserTrue(v)'
  BY <1>1, <1>2 DEF StoreInv, StoreTypes, UserTrue
<1>5. (backend = "s3" => data \subseteq meta)' /\ PutHolds'
  BY <1>1 DEF StoreInv, StoreTypes, PutHolds
<1>6. ListingTrue' /\ ListingSkipsNone'
  BY DEF StoreInv, ListingTrue, ListingSkipsNone, EntryOf
<1> QED
  BY <1>3, <1>4, <1>5, <1>6 DEF StoreInv

(* UnlinkMetadata *)
LEMMA UnlinkMetadataKeeps ==
    ASSUME ObjectsAssumption, StoreInv, NEW u \in Users, UnlinkMetadata(u)
    PROVE  StoreInv'
<1> USE DEF UnlinkMetadata, UserTo, Ends, Acknowledge, RestingUser, objectVars
<1>1. StoreTypes'
  BY DEF StoreInv, StoreTypes, ObjectUsers, ObjectStages, UserTrue
<1>2. \A v \in Users : UserTrue(v)'
  BY DEF StoreInv, StoreTypes, UserTrue, Deleting
<1>3. (backend = "s3" => data \subseteq meta)' /\ PutHolds'
  BY DEF StoreInv, StoreTypes, UserTrue, PutHolds, Deleting
<1>4. ListingTrue' /\ ListingSkipsNone'
  BY DEF StoreInv, ListingTrue, ListingSkipsNone, EntryOf
<1> QED
  BY <1>1, <1>2, <1>3, <1>4 DEF StoreInv

(* BeginList: nothing is found yet. *)
LEMMA BeginListKeeps ==
    ASSUME ObjectsAssumption, StoreInv, NEW limit \in Limits, BeginList(limit)
    PROVE  StoreInv'
<1>1. IsFiniteSet({}) /\ Cardinality({}) = 0
  BY FS_EmptySet
<1>2. limit \in Nat \ {0}
  BY DEF ObjectsAssumption
<1>3. ListingTrue' /\ ListingSkipsNone'
  BY <1>1, <1>2 DEF BeginList, ListingTrue, ListingSkipsNone
<1> QED
  BY <1>3 DEF BeginList, StoreInv, StoreTypes, UserTrue, PutHolds

(* Scan: whatever passes through the directory, the files that stay are    *)
(* among what is sorted and cut.                                           *)
LEMMA ScanKeeps ==
    ASSUME ObjectsAssumption, StoreInv, Scan
    PROVE  StoreInv'
<1> DEFINE kept == {EntryOf(k) : k \in listing.steady} \cup {TemporaryOf(k) : k \in leftover}
<1>1. PICK some, found :
        /\ found \in FirstEntries(kept \cup some, listing.limit)
        /\ listing' = [listing EXCEPT !.at = "listed", !.found = found, !.before = {}]
  BY DEF Scan
<1>2. \A k \in listing.steady : EntryOf(k) \in kept \cup some
  OBVIOUS
<1>3. ListingSkipsNone'
  BY <1>1, <1>2 DEF ListingSkipsNone, FirstEntries
<1>4. ListingTrue'
  BY <1>1 DEF ListingTrue
<1> QED
  BY <1>3, <1>4 DEF Scan, StoreInv, StoreTypes, UserTrue, PutHolds

(* NextPage: a page begins after all that was found, and takes what comes  *)
(* first; the listing ends at its limit or with the last page.             *)
LEMMA NextPageKeeps ==
    ASSUME ObjectsAssumption, StoreInv, NextPage
    PROVE  StoreInv'
<1> DEFINE rest == {e \in Entries : \A earlier \in listing.found : earlier < e}
           left == listing.limit - Cardinality(listing.found)
           size == Min({PageSize, left})
<1>1. /\ listing.at = "listing" /\ listing.limit \in Nat
      /\ listing.found \subseteq Int /\ IsFiniteSet(listing.found)
      /\ Cardinality(listing.found) \in Nat /\ left \in Nat
      /\ listing.steady \subseteq data
      /\ \A k \in listing.steady :
            EntryOf(k) \in listing.found \/ \A e \in listing.found : e < EntryOf(k)
  BY FS_CardinalityType DEF NextPage, StoreInv, ListingTrue
<1>2. rest \subseteq Int /\ IsFiniteSet(rest)
  BY EntriesFinite, FS_Subset DEF StoreInv
<1>3. size \in Int /\ size <= left
  BY <1>1, SmallerOf DEF ObjectsAssumption
<1>4. PICK page \in FirstEntries(rest, size) :
        listing' = [listing EXCEPT
           !.found = listing.found \cup page,
           !.at = IF Cardinality(listing.found \cup page) < listing.limit /\ page # rest
                  THEN "listing" ELSE "listed"]
  BY DEF NextPage
<1> DEFINE found == listing.found \cup page
<1>5. /\ page \subseteq rest /\ Cardinality(page) <= size
      /\ \A e \in page, later \in rest \ page : e < later
  BY <1>4 DEF FirstEntries
<1>6. IsFiniteSet(page) /\ Cardinality(page) \in Nat
  BY <1>2, <1>5, FS_Subset, FS_CardinalityType
<1>7. /\ found \subseteq Int /\ IsFiniteSet(found) /\ Cardinality(found) \in Nat
      /\ Cardinality(found) <= listing.limit
  <2>1. /\ IsFiniteSet(found)
        /\ Cardinality(found) =
              Cardinality(listing.found) + Cardinality(page) - Cardinality(listing.found \cap page)
    BY <1>1, <1>6, FS_Union
  <2>2. listing.found \cap page \subseteq page
    OBVIOUS
  <2>3. Cardinality(listing.found \cap page) \in Nat
    BY <1>6, <2>2, FS_Subset, FS_CardinalityType
  <2> QED
    BY <1>1, <1>2, <1>3, <1>5, <1>6, <2>1, <2>3, FS_CardinalityType
(* A key that was there all along is found, or comes after all that is.    *)
<1>8. ASSUME NEW k \in listing.steady
      PROVE  \/ EntryOf(k) \in found
             \/ EntryOf(k) \in rest \ page /\ \A e \in found : e < EntryOf(k)
  <2>1. EntryOf(k) \in Entries
    BY <1>1 DEF Entries
  <2>2. CASE EntryOf(k) \in listing.found
    BY <2>2
  <2>3. CASE EntryOf(k) \in rest
    BY <1>5, <2>3
  <2> QED
    BY <1>1, <2>1, <2>2, <2>3
<1>9. CASE Cardinality(found) < listing.limit /\ page # rest
  <2>1. listing' = [listing EXCEPT !.found = found, !.at = "listing"]
    BY <1>4, <1>9
  <2>2. \A k \in listing.steady : EntryOf(k) \in found \/ \A e \in found : e < EntryOf(k)
    BY <1>8
  <2>3. ListingSkipsNone'
    BY <1>1, <2>1 DEF ListingSkipsNone
  <2> HIDE DEF found, rest
  <2>4. ListingTrue'
    <3>1. backend' = "s3" /\ data' = data
      BY DEF NextPage
    <3>2. /\ listing'.limit = listing.limit /\ listing'.found = found
          /\ listing'.steady = listing.steady
      BY <2>1, <1>1 DEF StoreInv, ListingTrue
    <3>3. listing'.limit \in Nat \ {0} /\ Cardinality(listing'.found) < listing'.limit
      BY <1>1, <1>7, <1>9, <3>2
    <3>4. listing'.found \subseteq Int /\ IsFiniteSet(listing'.found)
      BY <1>7, <3>2
    <3>5. listing'.steady \subseteq data'
      BY <1>1, <3>1, <3>2
    <3>6. \A k \in listing'.steady :
             EntryOf(k) \in listing'.found \/ \A e \in listing'.found : e < EntryOf(k)
      BY <2>2, <3>2
    <3> QED
      BY <3>1, <3>3, <3>4, <3>5, <3>6 DEF ListingTrue, EntryOf
  <2> QED
    BY <2>3, <2>4 DEF NextPage, StoreInv, StoreTypes, UserTrue, PutHolds
<1>10. CASE Cardinality(found) = listing.limit \/ page = rest
  <2>0. ~(Cardinality(found) < listing.limit /\ page # rest)
    BY <1>1, <1>7, <1>10
  <2>1. listing' = [listing EXCEPT !.found = found, !.at = "listed"]
    BY <1>4, <2>0
  <2>2. ListingSkipsNone'
    BY <1>1, <1>8, <1>10, <2>1 DEF ListingSkipsNone, EntryOf
  <2>3. ListingTrue'
    BY <2>1 DEF ListingTrue
  <2> QED
    BY <2>2, <2>3 DEF NextPage, StoreInv, StoreTypes, UserTrue, PutHolds
<1> QED
  BY <1>1, <1>7, <1>9, <1>10

-----------------------------------------------------------------------------
(* StoreInv is inductive. *)
LEMMA StoreSteps ==
    ASSUME ObjectsAssumption, StoreInv, [ObjectsNext]_objectVars
    PROVE  StoreInv'
<1>1. CASE \E u \in Users, k \in ObjectKeys : BeginPut(u, k) \/ BeginDelete(u, k)
  BY <1>1, BeginPutKeeps, BeginDeleteKeeps
<1>2. CASE \E u \in Users : LookForPath(u) \/ Compare(u) \/ ReplaceData(u) \/ OpenMetadata(u)
                            \/ ReplaceMetadata(u)
  BY <1>2, LookForPathKeeps, CompareKeeps, ReplaceDataKeeps, OpenMetadataKeeps,
     ReplaceMetadataKeeps
<1>3. CASE \E u \in Users : PutFails(u) \/ KillUser(u) \/ PutObject(u) \/ HeadObject(u)
                            \/ Unlink(u) \/ UnlinkMetadata(u)
  BY <1>3, PutFailsKeeps, KillUserKeeps, PutObjectKeeps, HeadObjectKeeps, UnlinkKeeps,
     UnlinkMetadataKeeps
<1>4. CASE \E limit \in Limits : BeginList(limit)
  BY <1>4, BeginListKeeps
<1>5. CASE Scan
  BY <1>5, ScanKeeps
<1>6. CASE NextPage
  BY <1>6, NextPageKeeps
<1>7. CASE UNCHANGED objectVars
  BY <1>7 DEF objectVars, StoreInv, StoreTypes, UserTrue, PutHolds, ListingTrue, ListingSkipsNone
<1> QED
  BY <1>1, <1>2, <1>3, <1>4, <1>5, <1>6, <1>7 DEF ObjectsNext

(* StoreKeepsWord for any keys, processes, limits and page size: an object  *)
(* whose put was acknowledged is there with its metadata until someone      *)
(* starts to delete it (_put_sync, S3ObjectStore.put), and a listing that   *)
(* is cut short or comes in pages passes over no key that was there from    *)
(* its start to its end (list_keys of both stores).                         *)
THEOREM StoresKeepTheirWord ==
    ObjectsSpec => []StoreKeepsWord
<1>1. StoreInv => StoreKeepsWord
  BY DEF StoreInv, StoreKeepsWord
<1>2. StoreInv /\ [ObjectsNext]_objectVars => StoreInv'
  BY StoreSteps, ObjectsAssumption
<1> QED
  BY StoreStarts, <1>1, <1>2, PTL DEF ObjectsSpec

-----------------------------------------------------------------------------
(* Types *)

(* Every file and every leftover is of a key of the store, a user works on *)
(* the key it was called with, and a listing compares with keys of the     *)
(* store (FilesystemObjectStore, S3ObjectStore).                           *)
THEOREM StoreTypesKept == ObjectsSpec => []ObjectsTypeOK
<1>1. ObjectsInit => ObjectsTypeOK
  BY DEF ObjectsInit, ObjectsTypeOK, RestingUser, NoListing
<1>2. ASSUME StoreInv, ObjectsTypeOK, [ObjectsNext]_objectVars PROVE ObjectsTypeOK'
  <2>1. StoreTypes /\ StoreTypes' /\ \A u \in Users : user[u].at # "idle" => user[u].key \in ObjectKeys
    BY <1>2, StoreSteps, ObjectsAssumption DEF StoreInv, UserTrue
  <2>2. \A u \in Users : user'[u] \in [at : {"idle", "put", "compare", "replace", "describe",
            "rename", "head", "unlink", "unlink_metadata"}, key : ObjectKeys \cup {0}, alone : BOOLEAN]
    BY <2>1 DEF StoreTypes, ObjectUsers, ObjectStages
  <2>3. meta' \subseteq ObjectKeys /\ held' \subseteq ObjectKeys
    BY <1>2, <2>1 DEF ObjectsTypeOK, ObjectsNext, BeginPut, BeginDelete, LookForPath, Compare, ReplaceData,
       OpenMetadata, ReplaceMetadata, PutFails, KillUser, PutObject, HeadObject, Unlink, UnlinkMetadata,
       BeginList, Scan, NextPage, Acknowledge, objectVars
  <2> DEFINE ListingTyped == /\ listing.at \in {"idle", "listing", "listed"}
                             /\ listing.limit \in Limits \cup {0}
                             /\ listing.steady \subseteq ObjectKeys
  <2>4. ListingTyped
    BY <1>2 DEF ObjectsTypeOK
  <2>5. ASSUME NEW u \in Users, Unlink(u) PROVE ListingTyped'
    BY <2>4, <2>5 DEF Unlink
  <2>6. ASSUME NEW limit \in Limits, BeginList(limit) PROVE ListingTyped'
    BY <2>1, <2>6 DEF BeginList, StoreTypes
  <2>7. CASE Scan
    <3>1. PICK found : listing' = [listing EXCEPT !.at = "listed", !.found = found, !.before = {}]
      BY <2>7 DEF Scan
    <3>2. ListingTyped'
      BY <2>4, <3>1
    <3> QED
      BY <2>1, <2>2, <2>3, <3>2 DEF StoreTypes, ObjectsTypeOK
  <2>8. CASE NextPage
    <3>1. PICK found, at : /\ listing' = [listing EXCEPT !.found = found, !.at = at]
                           /\ at \in {"listing", "listed"}
      BY <2>8 DEF NextPage
    <3>2. ListingTyped'
      BY <2>4, <3>1
    <3> QED
      BY <2>1, <2>2, <2>3, <3>2 DEF StoreTypes, ObjectsTypeOK
  <2>9. CASE UNCHANGED listing
    BY <2>1, <2>2, <2>3, <2>4, <2>9 DEF StoreTypes, ObjectsTypeOK
  <2>10. ListingTyped' => ObjectsTypeOK'
    BY <2>1, <2>2, <2>3 DEF StoreTypes, ObjectsTypeOK
  <2> QED
    BY <1>2, <2>5, <2>6, <2>7, <2>8, <2>9, <2>10
    DEF ObjectsNext, BeginPut, BeginDelete, LookForPath, Compare, ReplaceData, OpenMetadata,
        ReplaceMetadata, PutFails, KillUser, PutObject, HeadObject, UnlinkMetadata, objectVars
<1>3. StoreInv /\ [ObjectsNext]_objectVars => StoreInv'
  BY StoreSteps, ObjectsAssumption
<1> QED
  BY <1>1, <1>2, <1>3, StoreStarts, PTL DEF ObjectsSpec

-----------------------------------------------------------------------------
(***************************************************************************)
(* Rewards and the messages of a training (PhonRl), for any sentences and  *)
(* sounds, any number of steps and any limit of messages.                  *)
(***************************************************************************)

Commits == [source : Sources, sentence : DOMAIN Sounds]

LabTrue ==
    /\ lab.committed \in Seq(Commits)
    /\ lab.gained \in Nat
    /\ IsFiniteSet(RewardCovered(lab.committed))
    /\ RewardsAddUp

Steps == course.steps
TrainBudget == TrainMessages - TrainReserve

(* Besides the messages before the first step and for the first step, m    *)
(* were sent for steps: for multiples of the stride, and at the end for    *)
(* the last step, which need not be one.                                   *)
StepsTold(m) ==
    /\ course.sent <= 2 + m
    /\ course.seen < Steps => m * TrainStride(Steps) <= course.seen
    /\ m = 0 \/ (m - 1) * TrainStride(Steps) < Steps
    /\ course.seen = 0 => course.sent = 1 /\ m = 0

Courses == [at : {"idle", "training", "staging", "finished", "failed"},
            steps : StepCounts \cup {0}, seen : Nat, sent : Nat, refused : BOOLEAN]

CourseTrue ==
    /\ course \in Courses
    /\ course.refused = FALSE
    /\ course.at \in {"training", "staging"} => course.steps \in StepCounts
    /\ course.at = "training" => \E m \in Nat : StepsTold(m)
    /\ course.at = "idle" => course = IdleCourse
    /\ course.at = "staging" => course.sent <= 3 + TrainBudget

PhonRlInv == LabTrue /\ CourseTrue

PhonRlSpec == PhonRlInit /\ [][PhonRlNext]_phonRlVars

-----------------------------------------------------------------------------
(* Multiplication respects the order of numbers. *)
LEMMA TimesMonotone ==
    ASSUME NEW a \in Int, NEW b \in Int, NEW s \in Nat, a <= b
    PROVE  a * s <= b * s
<1>1. PICK d \in Nat : b = a + d
  BY b - a \in Nat
<1>2. d * s \in Nat
  BY SMT
<1>3. b * s = a * s + d * s
  BY <1>1, SMT
<1> QED
  BY <1>2, <1>3

(* What a quotient and a remainder are *)
LEMMA Quotient ==
    ASSUME NEW n \in Nat, NEW s \in Nat \ {0}
    PROVE  /\ n \div s \in Nat
           /\ n < s * (n \div s) + s
           /\ n % s = 0 => \E q \in Nat : n = q * s
<1>1. n \div s \in Nat
  <2>1. n \div s \in Int /\ n \div s >= 0
    BY SMT
  <2> QED
    BY <2>1
<1>2. n < s * (n \div s) + s
  BY SMT
<1>3. n % s = 0 => \E q \in Nat : n = q * s
  BY SMT
<1> QED
  BY <1>1, <1>2, <1>3

(* As many strides as there are messages for them reach beyond the end. *)
LEMMA StridesReach ==
    ASSUME NEW n \in Nat \ {0}, NEW b \in Nat \ {0}, NEW s \in Int,
           s = (n + b - 1) \div b \/ (s = 1 /\ (n + b - 1) \div b <= 1)
    PROVE  n <= s * b
<1> DEFINE q == (n + b - 1) \div b
<1>1. q \in Nat /\ n + b - 1 < b * q + b
  BY Quotient, n + b - 1 \in Nat
<1>2. n <= b * q
  BY <1>1
<1>3. CASE s = q
  BY <1>1, <1>2, <1>3
<1>4. CASE s = 1 /\ q <= 1
  <2>1. q * b <= s * b
    BY <1>1, <1>4, TimesMonotone
  <2> QED
    BY <1>1, <1>2, <2>1
<1> QED
  BY <1>3, <1>4

(* After m strides the next multiple is at least one stride further. *)
LEMMA NextMultiple ==
    ASSUME NEW s \in Nat \ {0}, NEW m \in Nat, NEW x \in Nat, m * s <= x, (x + 1) % s = 0
    PROVE  (m + 1) * s <= x + 1
<1>1. PICK q \in Nat : x + 1 = q * s
  BY Quotient, x + 1 \in Nat
<1>2. CASE q <= m
  <2>1. q * s <= m * s
    BY <1>1, <1>2, TimesMonotone
  <2> QED
    BY <1>1, <2>1
<1>3. CASE m + 1 <= q
  <2>1. (m + 1) * s <= q * s
    BY <1>1, <1>3, TimesMonotone
  <2> QED
    BY <1>1, <2>1
<1> QED
  BY <1>1, <1>2, <1>3

(* So the strides that begin before the end are as many as b at most. *)
LEMMA StridesBounded ==
    ASSUME NEW s \in Nat, NEW m \in Nat, NEW n \in Nat, NEW b \in Nat,
           (m - 1) * s < n, n <= s * b
    PROVE  m <= b
<1>1. CASE b <= m - 1
  <2>1. b * s <= (m - 1) * s
    BY <1>1, TimesMonotone
  <2> QED
    BY <2>1
<1> QED
  BY <1>1

(* The larger of two numbers, as the community modules choose it *)
LEMMA LargerOf ==
    ASSUME NEW a \in Int, NEW b \in Int
    PROVE  Max({a, b}) = IF a >= b THEN a ELSE b
<1>1. \E x \in {a, b} : \A y \in {a, b} : x >= y
  OBVIOUS
<1>2. Max({a, b}) \in {a, b} /\ \A y \in {a, b} : Max({a, b}) >= y
  BY <1>1 DEF Max
<1> QED
  BY <1>2

(* The stride of a training leaves no more reports than its budget. *)
LEMMA TrainStrideFits ==
    ASSUME PhonRlAssumption, NEW steps \in StepCounts
    PROVE  /\ TrainStride(steps) \in Nat \ {0} /\ TrainBudget \in Nat \ {0}
           /\ steps \in Nat \ {0} /\ steps <= TrainStride(steps) * TrainBudget
<1> DEFINE q == (steps + TrainBudget - 1) \div TrainBudget
<1>1. steps \in Nat \ {0} /\ TrainBudget \in Nat \ {0}
  BY DEF PhonRlAssumption, TrainBudget
<1>2. q \in Nat
  BY <1>1, Quotient, steps + TrainBudget - 1 \in Nat
<1>3. TrainStride(steps) = Max({1, q})
  BY DEF TrainStride, TrainBudget
<1>4. TrainStride(steps) = IF 1 >= q THEN 1 ELSE q
  BY <1>2, <1>3, LargerOf
<1> HIDE DEF TrainBudget
<1>5. TrainStride(steps) = q \/ (TrainStride(steps) = 1 /\ q <= 1)
  BY <1>2, <1>4
<1>6. TrainStride(steps) \in Nat \ {0}
  BY <1>2, <1>4
<1> QED
  BY <1>1, <1>5, <1>6, StridesReach

-----------------------------------------------------------------------------
(* The gains of a chain of commits *)

(* Nothing is committed and nothing gained at first. *)
LEMMA LabStarts ==
    PhonRlInit => LabTrue
<1> SUFFICES ASSUME PhonRlInit PROVE LabTrue
  OBVIOUS
<1>1. lab.committed = <<>> /\ lab.gained = 0 /\ lab.committed \in Seq(Commits)
  BY DEF PhonRlInit
<1>2. RewardCovered(lab.committed) = {}
  BY <1>1 DEF RewardCovered
<1> QED
  BY <1>1, <1>2, FS_EmptySet DEF LabTrue, RewardsAddUp

(* CommitReward: the sentence adds what its targets add. *)
LEMMA CommitRewardKeeps ==
    ASSUME PhonRlAssumption, LabTrue, NEW source \in Sources, NEW sentence \in DOMAIN Sounds,
           CommitReward(source, sentence)
    PROVE  LabTrue'
<1> DEFINE c == lab.committed
           new == [source |-> source, sentence |-> sentence]
           before == RewardCovered(c)
           fresh == Sounds[sentence] \ before
<1>1. /\ c \in Seq(Commits) /\ lab.gained = Cardinality(before) /\ IsFiniteSet(before)
      /\ lab'.committed = c \o <<new>> /\ lab'.gained = lab.gained + Cardinality(fresh)
  BY DEF LabTrue, RewardsAddUp, CommitReward, NewUnits
<1>2. new \in Commits /\ c \o <<new>> \in Seq(Commits)
  BY <1>1 DEF Commits
<1>3. /\ DOMAIN (c \o <<new>>) = DOMAIN c \cup {Len(c) + 1}
      /\ (c \o <<new>>)[Len(c) + 1] = new
      /\ \A i \in DOMAIN c : (c \o <<new>>)[i] = c[i]
  BY <1>1, <1>2
<1>4. RewardCovered(c \o <<new>>) = before \cup fresh
  BY <1>3 DEF RewardCovered
<1>5. IsFiniteSet(fresh)
  BY FS_Subset DEF PhonRlAssumption
<1>6. /\ IsFiniteSet(before \cup fresh)
      /\ Cardinality(before \cup fresh) =
            Cardinality(before) + Cardinality(fresh) - Cardinality(before \cap fresh)
  BY <1>1, <1>5, FS_Union
<1>7. Cardinality(before \cap fresh) = 0
  <2>1. before \cap fresh = {}
    OBVIOUS
  <2> QED
    BY <2>1, FS_EmptySet
<1>8. Cardinality(before) \in Nat /\ Cardinality(fresh) \in Nat
  BY <1>1, <1>5, FS_CardinalityType
<1> HIDE DEF fresh, before
<1>9. Cardinality(before \cup fresh) = Cardinality(before) + Cardinality(fresh)
  BY <1>6, <1>7, <1>8
<1> HIDE DEF new
<1>10. lab'.committed \in Seq(Commits) /\ lab'.gained \in Nat
  BY <1>1, <1>2, <1>8
<1>11. IsFiniteSet(RewardCovered(lab'.committed)) /\ lab'.gained = Cardinality(RewardCovered(lab'.committed))
  BY <1>1, <1>4, <1>6, <1>9
<1> QED
  BY <1>10, <1>11 DEF LabTrue, RewardsAddUp

-----------------------------------------------------------------------------
(* The messages of a training *)

(* While it runs, a training has room for all the messages still to come. *)
LEMMA RoomWhileTraining ==
    ASSUME PhonRlAssumption, CourseTrue, course.at = "training"
    PROVE  course.sent <= 2 + TrainBudget
<1>1. course.steps \in StepCounts /\ course.sent \in Nat
  BY DEF CourseTrue, Courses
<1>2. PICK m \in Nat : StepsTold(m)
  BY DEF CourseTrue
<1>3. course.sent <= 2 + m
  BY <1>2 DEF StepsTold
<1>4. TrainBudget \in Nat
  BY <1>1, TrainStrideFits
<1>5. CASE m = 0
  BY <1>1, <1>3, <1>4, <1>5
<1>6. CASE m # 0
  <2>1. m <= TrainBudget
    BY <1>1, <1>2, <1>6, TrainStrideFits, StridesBounded DEF StepsTold, Steps
  <2> QED
    BY <1>1, <1>3, <1>4, <2>1
<1> QED
  BY <1>5, <1>6

(* A message that fits is sent. *)
LEMMA SaysWithRoom ==
    ASSUME PhonRlAssumption, NEW c \in Courses, c.sent < TrainMessages
    PROVE  /\ Say(c) = [c EXCEPT !.sent = c.sent + 1]
           /\ Say(c) \in Courses /\ Failed(c) \in Courses
           /\ Failed(c).at = "failed" /\ Failed(c).refused = c.refused
<1>1. Say(c) = [c EXCEPT !.sent = c.sent + 1]
  BY DEF Say
<1>2. Say(c) \in Courses /\ Say(c).refused = c.refused
  BY <1>1 DEF Courses
<1>3. Failed(c) = [Say(c) EXCEPT !.at = "failed"]
  BY DEF Failed
<1>4. Failed(c) \in Courses /\ Failed(c).at = "failed" /\ Failed(c).refused = Say(c).refused
  BY <1>2, <1>3 DEF Courses
<1> QED
  BY <1>1, <1>2, <1>4

(* BeginTraining *)
LEMMA BeginTrainingKeeps ==
    ASSUME PhonRlAssumption, CourseTrue, NEW steps \in StepCounts, BeginTraining(steps)
    PROVE  CourseTrue'
<1> DEFINE begun == [IdleCourse EXCEPT !.at = "training", !.steps = steps]
<1>1. begun \in Courses /\ begun.sent = 0 /\ begun.seen = 0 /\ begun.refused = FALSE
      /\ begun.at = "training" /\ begun.steps = steps
  BY DEF IdleCourse, Courses
<1>2. 1 < TrainMessages
  BY DEF PhonRlAssumption
<1> HIDE DEF begun
<1>3. course' = Say(begun) \/ course' = Failed(Say(begun))
  BY DEF BeginTraining, begun
<1>4. /\ Say(begun) \in Courses /\ Say(begun) = [begun EXCEPT !.sent = 1]
  BY <1>1, <1>2, SaysWithRoom
<1>5. /\ Say(begun).at = "training" /\ Say(begun).steps = steps /\ Say(begun).seen = 0
      /\ Say(begun).sent = 1 /\ Say(begun).refused = FALSE
  BY <1>1, <1>4 DEF Courses
<1>6. CASE course' = Failed(Say(begun))
  BY <1>2, <1>4, <1>5, <1>6, SaysWithRoom DEF CourseTrue
<1>7. CASE course' = Say(begun)
  <2>1. StepsTold(0)'
    BY <1>5, <1>7, TrainStrideFits DEF StepsTold, Steps
  <2> QED
    BY <1>4, <1>5, <1>7, <2>1 DEF CourseTrue
<1> QED
  BY <1>3, <1>6, <1>7

(* TrainerStep: a step is told when a stride ends, and at the end. *)
LEMMA TrainerStepKeeps ==
    ASSUME PhonRlAssumption, CourseTrue, NEW step \in 0..(course.steps + 1), TrainerStep(step)
    PROVE  CourseTrue'
<1> DEFINE c == [course EXCEPT !.seen = @ + 1]
           s == TrainStride(Steps)
<1>1. /\ course \in Courses /\ course.at = "training" /\ course.steps \in StepCounts
      /\ course.refused = FALSE /\ course.sent \in Nat /\ course.seen \in Nat
  BY DEF TrainerStep, CourseTrue, Courses
<1>2. /\ s \in Nat \ {0} /\ TrainBudget \in Nat /\ Steps \in Nat \ {0}
      /\ 4 + TrainBudget <= TrainMessages
  <2>1. TrainBudget \in Nat /\ 4 + TrainBudget <= TrainMessages
    BY DEF TrainBudget, PhonRlAssumption
  <2> QED
    BY <1>1, <2>1, TrainStrideFits DEF Steps
<1>3. course.sent <= 2 + TrainBudget /\ course.sent < TrainMessages
  BY <1>1, <1>2, RoomWhileTraining
<1>4. /\ c \in Courses /\ c.sent = course.sent /\ c.refused = FALSE /\ c.at = "training"
      /\ c.steps = Steps /\ c.seen = course.seen + 1
  BY <1>1 DEF Courses, Steps
<1> HIDE DEF c, s
<1>5. \/ course' = Failed(course) \/ course' = Failed(c)
      \/ course' = Say(c) /\ c.seen <= Steps /\ Told(Steps, c.seen)
      \/ course' = c /\ ~Told(Steps, c.seen)
  <2>1. course' = CASE step # course.seen -> Failed(course)
                     [] Told(course.steps, c.seen) ->
                          IF c.seen > c.steps THEN Failed(c) ELSE Say(c)
                     [] OTHER -> c
    BY DEF TrainerStep, c
  <2> QED
    BY <1>1, <1>2, <1>4, <2>1 DEF Steps
<1>6. CASE course' = Failed(course) \/ course' = Failed(c)
  BY <1>1, <1>3, <1>4, <1>6, SaysWithRoom DEF CourseTrue
<1>7. PICK m \in Nat : StepsTold(m)
  BY <1>1 DEF CourseTrue
<1>8. CASE course' = Say(c) /\ c.seen <= Steps /\ Told(Steps, c.seen)
  <2>1. course' = [c EXCEPT !.sent = course.sent + 1] /\ course' \in Courses
    BY <1>3, <1>4, <1>8, SaysWithRoom
  <2>2. /\ course'.at = "training" /\ course'.steps = Steps /\ course'.refused = FALSE
        /\ course'.seen = course.seen + 1 /\ course'.sent = course.sent + 1
    BY <1>4, <2>1 DEF Courses
  <2>3. course.seen < Steps /\ m * s <= course.seen
    BY <1>1, <1>2, <1>4, <1>7, <1>8 DEF StepsTold, s
  <2>4. CASE course.seen = 0
    <3>1. StepsTold(0)'
      BY <1>2, <1>7, <2>2, <2>4 DEF StepsTold, Steps, s
    <3> QED
      BY <1>1, <2>1, <2>2, <3>1 DEF CourseTrue, Steps
  <2>5. CASE course.seen # 0
    <3>1. course.seen + 1 < Steps => (m + 1) * s <= course.seen + 1
      <4> SUFFICES ASSUME course.seen + 1 < Steps PROVE (m + 1) * s <= course.seen + 1
        OBVIOUS
      <4>1. (course.seen + 1) % s = 0
        BY <1>1, <1>2, <1>4, <1>8, <2>5 DEF Told, s
      <4> QED
        BY <1>1, <1>2, <2>3, <4>1, NextMultiple
    <3>2. (m + 1) - 1 = m /\ m * s < Steps
      BY <1>1, <1>2, <2>3
    <3>3. StepsTold(m + 1)'
      BY <1>1, <1>2, <1>7, <2>2, <3>1, <3>2 DEF StepsTold, Steps, s
    <3> QED
      BY <1>1, <2>1, <2>2, <3>3 DEF CourseTrue, Steps
  <2> QED
    BY <2>4, <2>5
<1>9. CASE course' = c /\ ~Told(Steps, c.seen)
  <2>1. course.seen # 0 /\ course.seen + 1 # Steps
    BY <1>1, <1>4, <1>9 DEF Told
  <2>2. StepsTold(m)'
    BY <1>1, <1>2, <1>4, <1>7, <1>9, <2>1 DEF StepsTold, Steps, s
  <2> QED
    BY <1>1, <1>4, <1>9, <2>2 DEF CourseTrue, Steps
<1> QED
  BY <1>5, <1>6, <1>8, <1>9

(* TrainerEnds, StageTraining *)
LEMMA TrainingEndsKeep ==
    ASSUME PhonRlAssumption, CourseTrue, TrainerEnds \/ StageTraining
    PROVE  CourseTrue'
<1>1. /\ course \in Courses /\ course.refused = FALSE /\ course.sent \in Nat
      /\ course.steps \in StepCounts
  BY DEF CourseTrue, Courses, TrainerEnds, StageTraining
<1>2. TrainBudget \in Nat /\ 4 + TrainBudget <= TrainMessages
  BY DEF TrainBudget, PhonRlAssumption
<1>3. /\ course.sent <= 3 + TrainBudget /\ course.sent < TrainMessages
      /\ TrainerEnds => course.sent <= 2 + TrainBudget
  <2>1. CASE course.at = "training"
    BY <1>1, <1>2, <2>1, RoomWhileTraining
  <2>2. CASE course.at = "staging"
    BY <1>1, <1>2, <2>2 DEF CourseTrue, TrainerEnds
  <2> QED
    BY <2>1, <2>2 DEF TrainerEnds, StageTraining
<1>4. \/ course' = Failed(course)
      \/ TrainerEnds /\ course' = [Say(course) EXCEPT !.at = "staging"]
      \/ course' = [Say(course) EXCEPT !.at = "finished"]
  BY DEF TrainerEnds, StageTraining
<1>5. Say(course) = [course EXCEPT !.sent = course.sent + 1] /\ Say(course) \in Courses
  BY <1>1, <1>3, SaysWithRoom
<1>6. CASE course' = Failed(course)
  BY <1>1, <1>3, <1>6, SaysWithRoom DEF CourseTrue
<1>7. CASE TrainerEnds /\ course' = [Say(course) EXCEPT !.at = "staging"]
  <2>1. /\ course' \in Courses /\ course'.at = "staging" /\ course'.refused = FALSE
        /\ course'.sent = course.sent + 1 /\ course'.steps = course.steps
    BY <1>1, <1>5, <1>7 DEF Courses
  <2> QED
    BY <1>1, <1>2, <1>3, <1>7, <2>1 DEF CourseTrue, TrainBudget
<1>8. CASE course' = [Say(course) EXCEPT !.at = "finished"]
  <2>1. course' \in Courses /\ course'.at = "finished" /\ course'.refused = FALSE
    BY <1>1, <1>5, <1>8 DEF Courses
  <2> QED
    BY <2>1 DEF CourseTrue
<1> QED
  BY <1>4, <1>6, <1>7, <1>8

-----------------------------------------------------------------------------
(* PhonRlInv holds at first, and every step keeps it. *)
LEMMA PhonRlStarts ==
    PhonRlInit => PhonRlInv
BY LabStarts DEF PhonRlInit, PhonRlInv, CourseTrue, Courses, IdleCourse

(* PhonRlInv is inductive. *)
LEMMA PhonRlSteps ==
    ASSUME PhonRlAssumption, PhonRlInv, [PhonRlNext]_phonRlVars
    PROVE  PhonRlInv'
<1> USE DEF PhonRlInv
<1>1. CASE \E source \in Sources, sentence \in DOMAIN Sounds : CommitReward(source, sentence)
  <2>1. UNCHANGED course
    BY <1>1 DEF CommitReward
  <2>2. CourseTrue'
    BY <2>1 DEF CourseTrue, StepsTold, Steps
  <2> QED
    BY <1>1, <2>2, CommitRewardKeeps
<1>2. ASSUME UNCHANGED lab PROVE LabTrue'
  BY <1>2 DEF LabTrue, RewardsAddUp
<1>3. CASE \E steps \in StepCounts : BeginTraining(steps)
  <2>1. UNCHANGED lab
    BY <1>3 DEF BeginTraining
  <2> QED
    BY <1>2, <1>3, <2>1, BeginTrainingKeeps
<1>4. CASE \E step \in 0..course.steps + 1 : TrainerStep(step)
  <2>1. UNCHANGED lab
    BY <1>4 DEF TrainerStep
  <2> QED
    BY <1>2, <1>4, <2>1, TrainerStepKeeps
<1>5. CASE TrainerEnds \/ StageTraining
  <2>1. UNCHANGED lab
    BY <1>5 DEF TrainerEnds, StageTraining
  <2> QED
    BY <1>2, <1>5, <2>1, TrainingEndsKeep
<1>6. CASE UNCHANGED phonRlVars
  BY <1>2, <1>6 DEF phonRlVars, CourseTrue, StepsTold, Steps
<1> QED
  BY <1>1, <1>3, <1>4, <1>5, <1>6 DEF PhonRlNext

(* PhonRlSound for any sentences, sounds and limit of the state, and any    *)
(* number of steps and limit of messages that keeps four for the other      *)
(* phases: along a chain of commits, repeated or not, every covered target  *)
(* unit was gained once (_targets, commit_sentence_reward), and a training  *)
(* never runs out of messages (step_stride of                               *)
(* TrainPhonRlDurableHandler._execute), whatever the trainer reports.       *)
THEOREM RewardsStaySound ==
    PhonRlSpec => []PhonRlSound
<1>1. PhonRlInv => RewardsAddUp
  BY DEF PhonRlInv, LabTrue
<1>2. PhonRlInv => TrainingMessagesFit
  BY DEF PhonRlInv, CourseTrue, TrainingMessagesFit
<1>3. PhonRlInv => PhonRlSound
  BY <1>1, <1>2 DEF PhonRlSound
<1>4. PhonRlInv /\ [PhonRlNext]_phonRlVars => PhonRlInv'
  BY PhonRlSteps, PhonRlAssumption
<1> QED
  BY PhonRlStarts, <1>3, <1>4, PTL DEF PhonRlSpec

-----------------------------------------------------------------------------
(* Types *)

(* The laboratory holds commits of the sources it may read, and no message *)
(* of a training is numbered past the limit, whatever steps a trainer      *)
(* reports (commit, TrainPhonRlDurableHandler._execute.publish).           *)
THEOREM LabTypesKept == PhonRlSpec => []PhonRlTypeOK
<1>1. PhonRlInit => PhonRlTypeOK
  BY PhonRlAssumption DEF PhonRlInit, PhonRlTypeOK, IdleCourse
<1>2. ASSUME PhonRlInv, PhonRlTypeOK, [PhonRlNext]_phonRlVars PROVE PhonRlTypeOK'
  <2>1. lab.committed' \in Seq(Commits) /\ lab'.gained \in Nat /\ course' \in Courses
    BY <1>2, PhonRlSteps, PhonRlAssumption DEF PhonRlInv, LabTrue, CourseTrue
  <2>2. \A c \in Courses : c.sent <= TrainMessages =>
            /\ Say(c).sent <= TrainMessages /\ Failed(c).sent <= TrainMessages
            /\ [Say(c) EXCEPT !.at = "staging"].sent <= TrainMessages
            /\ [Say(c) EXCEPT !.at = "finished"].sent <= TrainMessages
    BY PhonRlAssumption DEF Courses, Say, Failed
  <2>3. course \in Courses /\ course.sent <= TrainMessages
    <3>1. course \in Courses
      BY <1>2 DEF PhonRlInv, CourseTrue
    <3>2. course.sent \in 0..TrainMessages
      BY <1>2 DEF PhonRlTypeOK
    <3> QED
      BY <3>1, <3>2, PhonRlAssumption
  <2>4. ASSUME \E steps \in StepCounts : BeginTraining(steps)
        PROVE  course'.sent <= TrainMessages
    <3>1. PICK steps \in StepCounts : BeginTraining(steps)
      BY <2>4
    <3> DEFINE begun == [IdleCourse EXCEPT !.at = "training", !.steps = steps]
    <3>2. begun \in Courses /\ begun.sent = 0
      BY PhonRlAssumption DEF IdleCourse, Courses
    <3> HIDE DEF begun
    <3>3. Say(begun) \in Courses /\ Say(begun).sent <= TrainMessages
      BY <3>2, PhonRlAssumption DEF Courses, Say
    <3> USE DEF begun
    <3> QED
      BY <2>2, <3>1, <3>3 DEF BeginTraining
  <2>5. ASSUME \E step \in 0..course.steps + 1 : TrainerStep(step)
        PROVE  course'.sent <= TrainMessages
    <3>1. [course EXCEPT !.seen = @ + 1] \in Courses /\ [course EXCEPT !.seen = @ + 1].sent = course.sent
      BY <2>3 DEF Courses
    <3> QED
      BY <2>2, <2>3, <2>5, <3>1 DEF TrainerStep
  <2>6. ASSUME TrainerEnds \/ StageTraining
        PROVE  course'.sent <= TrainMessages
    BY <2>2, <2>3, <2>6 DEF TrainerEnds, StageTraining
  <2>7. course'.sent <= TrainMessages
    BY <1>2, <2>2, <2>3, <2>4, <2>5, <2>6 DEF PhonRlNext, CommitReward, phonRlVars
  <2>8. course' \in [at : {"idle", "training", "staging", "finished", "failed"},
                    steps : StepCounts \cup {0}, seen : Nat, sent : 0..TrainMessages,
                    refused : BOOLEAN]
    BY <2>1, <2>7, PhonRlAssumption DEF Courses
  <2> QED
    BY <2>1, <2>8 DEF PhonRlTypeOK, Commits
<1>3. PhonRlInv /\ [PhonRlNext]_phonRlVars => PhonRlInv'
  BY PhonRlSteps, PhonRlAssumption
<1> QED
  BY <1>1, <1>2, <1>3, PhonRlStarts, PTL DEF PhonRlSpec

-----------------------------------------------------------------------------
(***************************************************************************)
(* Repository generation (RepositoryGeneration), for any repository, any   *)
(* request and any choice of the engine.  The induction keeps the engine's *)
(* pool in step with the row ids (PoolTrue), bounds what is accepted by    *)
(* the iterations, and pays progress messages out of the strides that      *)
(* acceptance has passed (MessagesTrue).                                   *)
(***************************************************************************)

GenerationPhases == {"validating", "preparing", "looping", "staging", "finished", "ended"}

RowTexts == {Pool[r] : r \in Rows}

Candidates == {c \in [text : RowTexts, row : Rows] : Pool[c.row] = c.text}

AcceptedRows == [row : Rows, text : RowTexts, gain : Nat]

PoolTrue ==
    /\ pool \in Seq(RowTexts) /\ rowIds \in Seq(Rows) /\ Len(pool) = Len(rowIds)
    /\ \A i \in DOMAIN pool : Pool[rowIds[i]] = pool[i]

RankedTrue ==
    /\ ranked \in Seq(Candidates)
    /\ taken \in Nat /\ taken <= Len(ranked)

GainSum(s) == MapThenSumSet(LAMBDA i : s[i].gain, DOMAIN s)

(* No text is accepted twice, as one that is accepted gains nothing more.  *)
AcceptedTrue ==
    /\ accepted \in Seq(AcceptedRows)
    /\ \A i \in DOMAIN accepted : Pool[accepted[i].row] = accepted[i].text
    /\ \A i, j \in DOMAIN accepted : accepted[i].text = accepted[j].text => i = j
    /\ IsFiniteSet(CoveredUnits) /\ GainSum(accepted) = Cardinality(CoveredUnits)

Bounded == criteria.stop.sentences > 0 \/ criteria.stop.iterations > 0

(* What the engine has accepted is bounded by the request: by its limit,   *)
(* or by the iterations and what one of them may take.                     *)
LoopTrue ==
    /\ phase \in {"validating", "preparing"} => rounds = 0 /\ accepted = <<>>
    /\ phase = "looping" =>
         /\ criteria.stop.sentences > 0 => Len(accepted) <= criteria.stop.sentences
         /\ criteria.stop.iterations > 0 => rounds <= criteria.stop.iterations
         /\ rounds = 0 => accepted = <<>> /\ ranked = <<>>
         /\ rounds > 0 =>
              /\ Len(ranked) <= criteria.draw
              /\ Len(accepted) <= (rounds - 1) * criteria.draw + taken

(* Besides the phases and the first candidate, m candidates were reported.  *)
CandidatesTold(m) ==
    /\ messages <= 4 + m
    /\ accepted = <<>> => messages <= 3
    /\ m * Stride <= Len(accepted)

MessagesTrue ==
    Bounded =>
        /\ ending # "invalid_run_spec"
        /\ phase = "validating" => messages <= 1
        /\ phase = "preparing" => messages <= 2
        /\ phase = "looping" => \E m \in Nat : CandidatesTold(m)
        /\ phase = "staging" => messages <= 5 + Budget

GenerationInv ==
    /\ criteria \in Criteria /\ phase \in GenerationPhases /\ messages \in Nat /\ rounds \in Nat
    /\ PoolTrue /\ RankedTrue /\ AcceptedTrue /\ LoopTrue /\ MessagesTrue

GenerationSpec == GenerationInit /\ [][GenerationNext]_generationVars

-----------------------------------------------------------------------------
(* Numbers of a finite set *)

(* A bounded set of numbers has a largest one. *)
LEMMA LargestNat ==
    ASSUME NEW N \in Nat, NEW S \in SUBSET (0..N), S # {}
    PROVE  \E n \in S : \A m \in S : m <= n
<1> DEFINE T == {N - n : n \in S}
<1>1. \A n \in S : n \in Nat /\ N - n \in Nat
  OBVIOUS
<1>2. T \in SUBSET Nat /\ T # {}
  BY <1>1
<1>3. PICK x \in T : \A y \in T : x <= y
  <2> HIDE DEF T
  <2> QED
    BY <1>2, SmallestNat
<1>4. PICK n \in S : x = N - n
  OBVIOUS
<1>5. ASSUME NEW m \in S PROVE m <= n
  <2>1. N - m \in T
    OBVIOUS
  <2>2. N - n <= N - m
    BY <1>3, <1>4, <2>1
  <2> QED
    BY <1>1, <2>2
<1> QED
  BY <1>5

BelowIn(S, x) == {y \in S : y < x}

(* Numbers below a bound, and those of them below x *)
LEMMA BelowFinite ==
    ASSUME NEW N \in Nat, NEW S \in SUBSET (0..N)
    PROVE  /\ IsFiniteSet(S) /\ Cardinality(S) \in Nat
           /\ \A x : /\ BelowIn(S, x) \in SUBSET (0..N) /\ IsFiniteSet(BelowIn(S, x))
                    /\ Cardinality(BelowIn(S, x)) \in Nat
<1>1. IsFiniteSet(0..N)
  BY FS_Interval
<1>2. ASSUME NEW T \in SUBSET (0..N) PROVE IsFiniteSet(T) /\ Cardinality(T) \in Nat
  BY <1>1, FS_Subset, FS_CardinalityType
<1>3. \A x : BelowIn(S, x) \in SUBSET (0..N)
  BY DEF BelowIn
<1> QED
  BY <1>2, <1>3

(* An element with m smaller ones, for each m that is possible *)
LEMMA ElementOfRank ==
    ASSUME NEW N \in Nat, NEW S \in SUBSET (0..N), NEW m \in Nat, m < Cardinality(S)
    PROVE  \E x \in S : Cardinality({y \in S : y < x}) = m
<1> DEFINE T == {x \in S : Cardinality(BelowIn(S, x)) >= m}
<1>0. S \subseteq Nat
  OBVIOUS
<1>1. IsFiniteSet(S) /\ Cardinality(S) \in Nat /\ S # {}
  <2>1. IsFiniteSet(S) /\ Cardinality(S) \in Nat
    BY BelowFinite
  <2>2. CASE S = {}
    BY <2>2, FS_EmptySet
  <2> QED
    BY <2>1, <2>2
<1>2. PICK top \in S : \A x \in S : x <= top
  BY <1>1, LargestNat
<1>3. Cardinality(BelowIn(S, top)) = Cardinality(S) - 1
  <2>1. BelowIn(S, top) = S \ {top}
    <3>1. \A y \in S : y < top <=> y # top
      BY <1>0, <1>2
    <3> QED
      BY <3>1 DEF BelowIn
  <2> QED
    BY <1>1, <2>1, FS_RemoveElement
<1>4. T \in SUBSET Nat /\ T # {}
  <2>1. Cardinality(BelowIn(S, top)) >= m
    BY <1>1, <1>3
  <2> QED
    BY <1>0, <2>1
<1>5. PICK x \in T : \A y \in T : x <= y
  <2> HIDE DEF T
  <2> QED
    BY <1>4, SmallestNat
<1>6. CASE Cardinality(BelowIn(S, x)) > m
  <2> DEFINE B == BelowIn(S, x)
  <2>1. B \in SUBSET (0..N) /\ IsFiniteSet(B) /\ Cardinality(B) \in Nat /\ Cardinality(B) > m
    BY <1>6, BelowFinite
  <2> HIDE DEF B
  <2>2. B # {}
    BY <2>1, FS_EmptySet
  <2>3. PICK z \in B : \A y \in B : y <= z
    BY <2>1, <2>2, LargestNat
  <2>4. BelowIn(S, z) = B \ {z} /\ z \in S /\ z < x
    <3>1. z \in S /\ z < x
      BY <2>3 DEF B, BelowIn
    <3>2. \A y \in S : y < z => y \in B /\ y # z
      BY <1>0, <3>1 DEF B, BelowIn
    <3>3. \A y \in B : y # z => y < z /\ y \in S
      <4>1. \A y \in B : y \in Nat /\ y <= z /\ y \in S
        BY <1>0, <2>3 DEF B, BelowIn
      <4> QED
        BY <1>0, <3>1, <4>1
    <3> QED
      BY <3>1, <3>2, <3>3 DEF BelowIn
  <2>5. Cardinality(BelowIn(S, z)) = Cardinality(B) - 1
    BY <2>1, <2>3, <2>4, FS_RemoveElement
  <2>6. Cardinality(BelowIn(S, z)) >= m
    BY <2>1, <2>5
  <2>7. z \in T
    BY <2>4, <2>6
  <2> QED
    BY <1>0, <1>5, <2>4, <2>7
<1>7. CASE ~(Cardinality(BelowIn(S, x)) > m)
  <2>1. Cardinality(BelowIn(S, x)) >= m /\ Cardinality(BelowIn(S, x)) \in Nat
    BY <1>5, BelowFinite
  <2>2. Cardinality(BelowIn(S, x)) = m
    BY <1>7, <2>1
  <2> QED
    BY <1>5, <2>2 DEF BelowIn
<1> QED
  BY <1>6, <1>7

-----------------------------------------------------------------------------
(* Strides *)

(* Strides that end within the reach of b strides are b at most. *)
LEMMA StridesFit ==
    ASSUME NEW s \in Nat \ {0}, NEW m \in Nat, NEW n \in Nat, NEW b \in Nat,
           m * s <= n, n <= s * b
    PROVE  m <= b
<1>1. CASE b + 1 <= m
  <2>1. (b + 1) * s <= m * s
    BY <1>1, TimesMonotone
  <2>2. (b + 1) * s = s * b + s
    OBVIOUS
  <2> QED
    BY <2>1, <2>2
<1> QED
  BY <1>1

(* A product with one factor less or more *)
LEMMA OneStrideMore ==
    ASSUME NEW a \in Int, NEW s \in Int
    PROVE  a * s \in Int /\ (a - 1) * s + s = a * s /\ (a + 1) * s = a * s + s
OBVIOUS

(* What a request bounds, and how often its candidates are reported *)
LEMMA CriteriaFacts ==
    ASSUME GenerationAssumption, criteria \in Criteria
    PROVE  /\ criteria.stop.sentences \in Nat /\ criteria.stop.iterations \in Nat
           /\ criteria.draw \in Nat \ {0} /\ criteria.mode \in {"preview", "worker"}
           /\ Ceiling \in Nat \ {0} /\ Budget \in Nat \ {0} /\ Budget + 6 <= MessageLimit
           /\ Stride \in Nat \ {0} /\ Ceiling <= Stride * Budget
<1>1. /\ criteria.stop.sentences \in Nat /\ criteria.stop.iterations \in Nat
      /\ criteria.draw \in Nat \ {0} /\ criteria.mode \in {"preview", "worker"}
  <2>1. PICK m \in {"preview", "worker"}, l \in BOOLEAN, d \in Draws, s \in Stopping :
          criteria = [mode |-> m, listed |-> l, draw |-> d, stop |-> s]
    BY DEF Criteria
  <2> QED
    <3>1. s.sentences \in SentenceCaps /\ s.iterations \in 0..IterationLimit
      BY DEF Stopping
    <3>2. criteria.stop = s /\ criteria.draw = d /\ criteria.mode = m
      BY <2>1
    <3>3. SentenceCaps \subseteq Nat /\ Draws \subseteq Nat \ {0} /\ IterationLimit \in Nat
      BY DEF GenerationAssumption
    <3>4. criteria.stop.sentences \in Nat /\ criteria.stop.iterations \in Nat
      <4>1. s.sentences \in Nat
        BY <3>1, <3>3
      <4>2. s.iterations \in Nat
        BY <3>1, <3>3
      <4> QED
        BY <3>2, <4>1, <4>2, Zenon
    <3>5. criteria.draw \in Nat \ {0}
      BY <3>2, <3>3
    <3>6. criteria.mode \in {"preview", "worker"}
      BY <3>2
    <3> QED
      BY <3>4, <3>5, <3>6
<1>2. Budget \in Nat \ {0} /\ Budget + 6 <= MessageLimit
  BY DEF Budget, GenerationAssumption
<1>3. TotalIterations \in Nat \ {0}
  BY <1>1 DEF TotalIterations, GenerationAssumption
<1>4. Ceiling \in Nat \ {0}
  <2>1. TotalIterations * criteria.draw \in Nat
    BY <1>1, <1>3
  <2>2. 1 * criteria.draw <= TotalIterations * criteria.draw
    BY <1>1, <1>3, TimesMonotone
  <2> QED
    BY <1>1, <2>1, <2>2 DEF Ceiling
<1> DEFINE q == (Ceiling + Budget - 1) \div Budget
<1>5. q \in Nat
  BY <1>2, <1>4, Quotient, Ceiling + Budget - 1 \in Nat
<1>6. Stride = IF q > 1 THEN q ELSE 1
  BY DEF Stride
<1>7. Stride \in Nat \ {0} /\ (Stride = q \/ (Stride = 1 /\ q <= 1))
  BY <1>5, <1>6
<1>8. Ceiling <= Stride * Budget
  BY <1>2, <1>4, <1>7, StridesReach
<1> QED
  BY <1>1, <1>2, <1>4, <1>7, <1>8

(* While candidates are accepted, there is room for all the messages still *)
(* to come.                                                                *)
LEMMA RoomWhileLooping ==
    ASSUME GenerationAssumption, GenerationInv, phase = "looping", Bounded
    PROVE  messages <= 4 + Budget
<1>1. PICK m \in Nat : CandidatesTold(m)
  BY DEF GenerationInv, MessagesTrue
<1>2. Len(accepted) \in Nat /\ messages \in Nat
  BY DEF GenerationInv, AcceptedTrue
<1>3. Len(accepted) <= Ceiling
  <2>1. CASE criteria.stop.sentences > 0
    BY <2>1 DEF GenerationInv, LoopTrue, Ceiling
  <2>2. CASE ~(criteria.stop.sentences > 0)
    <3>1. /\ criteria.stop.iterations > 0 /\ Ceiling = criteria.stop.iterations * criteria.draw
          /\ rounds <= criteria.stop.iterations /\ rounds \in Nat
      BY <2>2 DEF GenerationInv, LoopTrue, Bounded, Ceiling, TotalIterations
    <3>2. criteria.draw \in Nat \ {0} /\ criteria.stop.iterations \in Nat
      BY CriteriaFacts DEF GenerationInv
    <3>3. CASE rounds = 0
      <4>1. accepted = <<>>
        BY <3>3 DEF GenerationInv, LoopTrue
      <4> QED
        BY <4>1, CriteriaFacts DEF GenerationInv
    <3>4. CASE rounds > 0
      <4>1. taken \in Nat /\ taken <= Len(ranked) /\ Len(ranked) \in Nat
        <5>1. ranked \in Seq(Candidates) /\ taken \in Nat /\ taken <= Len(ranked)
          BY DEF GenerationInv, RankedTrue
        <5> QED
          BY <5>1
      <4>2. Len(ranked) <= criteria.draw /\ Len(accepted) <= (rounds - 1) * criteria.draw + taken
        BY <3>4 DEF GenerationInv, LoopTrue
      <4>3. (rounds - 1) * criteria.draw + criteria.draw = rounds * criteria.draw
        <5>1. rounds \in Int /\ criteria.draw \in Int
          BY <3>1, <3>2
        <5> QED
          BY ONLY <5>1, OneStrideMore
      <4>4. rounds * criteria.draw <= criteria.stop.iterations * criteria.draw
        BY <3>1, <3>2, TimesMonotone, rounds \in Int, criteria.stop.iterations \in Int,
           criteria.draw \in Nat
      <4>5. (rounds - 1) * criteria.draw \in Int /\ rounds * criteria.draw \in Int
        BY <3>1, <3>2, OneStrideMore, rounds - 1 \in Int
      <4> QED
        BY <1>2, <3>1, <3>2, <4>1, <4>3, <4>4, <4>5, <4>2
    <3> QED
      BY <3>1, <3>3, <3>4
  <2> QED
    BY <2>1, <2>2
<1>4. m <= Budget
  <2>1. /\ Ceiling \in Nat /\ Stride \in Nat \ {0} /\ Budget \in Nat /\ Ceiling <= Stride * Budget
        /\ m * Stride \in Int /\ m * Stride <= Len(accepted)
    BY <1>1, CriteriaFacts, OneStrideMore DEF GenerationInv, CandidatesTold
  <2>2. m * Stride <= Ceiling
    BY <1>2, <1>3, <2>1
  <2> QED
    BY <2>1, <2>2, StridesFit
<1> QED
  BY <1>1, <1>2, <1>4, CriteriaFacts DEF GenerationInv, CandidatesTold

-----------------------------------------------------------------------------
(* The pool of the engine and its rankings *)

(* The rows of the repository and their texts *)
LEMMA RepositoryFacts ==
    ASSUME GenerationAssumption
    PROVE  /\ Rows = 1..Len(Pool) /\ Len(Pool) \in Nat /\ Pool \in Seq(RowTexts)
           /\ \A text \in RowTexts : IsFiniteSet(UnitsOf[text])
<1>1. Pool \in Seq(DOMAIN UnitsOf) /\ \A text \in DOMAIN UnitsOf : IsFiniteSet(UnitsOf[text])
  BY DEF GenerationAssumption
<1>2. Rows = 1..Len(Pool) /\ Len(Pool) \in Nat /\ \A r \in Rows : Pool[r] \in DOMAIN UnitsOf
  BY <1>1 DEF Rows
<1>3. RowTexts \subseteq DOMAIN UnitsOf
  BY <1>2 DEF RowTexts
<1>4. Pool = [r \in 1..Len(Pool) |-> Pool[r]] /\ \A r \in 1..Len(Pool) : Pool[r] \in RowTexts
  BY <1>1, <1>2 DEF RowTexts
<1>5. Pool \in Seq(RowTexts)
  BY <1>2, <1>4
<1> QED
  BY <1>1, <1>2, <1>3, <1>5

(* Where texts repeat, the candidates of one text are told apart by their  *)
(* ranks: each ranking names a row of the text for each of them.           *)
LEMMA IdentifiedTrue ==
    ASSUME PoolTrue, criteria.draw \in Nat, NEW order \in Rankings
    PROVE  /\ Identified(order) \in Seq(Candidates)
           /\ Len(Identified(order)) <= criteria.draw
<1>1. PICK n \in 0..criteria.draw : order \in [1..n -> DOMAIN pool]
  BY DEF Rankings, BoundedSeq, SeqOf
<1>2. n \in Nat /\ DOMAIN order = 1..n /\ \A i, j \in 1..n : order[i] = order[j] => i = j
  BY <1>1 DEF Rankings, IsInjective
<1>3. /\ DOMAIN pool = 1..Len(pool) /\ Len(pool) \in Nat /\ DOMAIN rowIds = DOMAIN pool
      /\ \A i \in DOMAIN pool : pool[i] \in RowTexts /\ rowIds[i] \in Rows
  BY DEF PoolTrue
<1> DEFINE Same(i) == {j \in DOMAIN order : pool[order[j]] = pool[order[i]]}
           Nth(i) == Cardinality({j \in Same(i) : j <= i})
           Indexes(i) == {order[j] : j \in Same(i)}
           Taken(i) == CHOOSE x \in Indexes(i) :
                         Cardinality({y \in Indexes(i) : y < x}) = Nth(i) - 1
<1>4. ASSUME NEW i \in 1..n PROVE Taken(i) \in Indexes(i)
  <2> DEFINE S == Same(i)
             I == Indexes(i)
             f == [j \in S |-> order[j]]
             upTo == {j \in S : j <= i}
  <2>1. S \in SUBSET (1..n) /\ i \in S
    BY <1>2
  <2>2. IsFiniteSet(1..n)
    BY <1>2, FS_Interval
  <2>3. IsFiniteSet(S) /\ Cardinality(S) \in Nat
    BY <2>1, <2>2, FS_Subset, FS_CardinalityType
  <2>4. f \in Surjection(S, I) /\ f \in Injection(S, I)
    BY <1>2, <2>1 DEF Surjection, Injection, IsInjective
  <2>5. I \in SUBSET (0..Len(pool))
    BY <1>1, <1>2, <1>3, <2>1
  <2> HIDE DEF f, I, S
  <2>6. Cardinality(I) = Cardinality(S)
    BY <2>3, <2>4, FS_Surjection
  <2>7. upTo \in SUBSET S /\ i \in upTo
    BY <1>2, <2>1
  <2> HIDE DEF upTo
  <2>8. /\ Cardinality(upTo) \in Nat /\ Cardinality(upTo) <= Cardinality(S)
        /\ IsFiniteSet(upTo)
    BY <2>3, <2>7, FS_Subset, FS_CardinalityType
  <2>9. Cardinality(upTo) # 0
    BY <2>7, <2>8, FS_EmptySet
  <2>10. Cardinality(upTo) - 1 \in Nat /\ Cardinality(upTo) - 1 < Cardinality(I)
    BY <2>3, <2>6, <2>8, <2>9
  <2>11. \E x \in I : Cardinality({y \in I : y < x}) = Cardinality(upTo) - 1
    BY <1>3, <2>5, <2>10, ElementOfRank
  <2>12. (CHOOSE x \in I : Cardinality({y \in I : y < x}) = Cardinality(upTo) - 1) \in I
    BY <2>11
  <2> QED
    BY <2>12 DEF I, upTo, S
<1> HIDE DEF Taken
<1>5. ASSUME NEW i \in 1..n
      PROVE  [text |-> pool[order[i]], row |-> rowIds[Taken(i)]] \in Candidates
  <2>1. Taken(i) \in DOMAIN pool /\ pool[Taken(i)] = pool[order[i]]
    BY <1>1, <1>2, <1>4, <1>5
  <2>2. Pool[rowIds[Taken(i)]] = pool[Taken(i)]
    BY <2>1 DEF PoolTrue
  <2> QED
    BY <1>3, <2>1, <2>2 DEF Candidates
<1>6. Identified(order) = [i \in 1..n |-> [text |-> pool[order[i]], row |-> rowIds[Taken(i)]]]
  BY <1>2 DEF Identified, Taken
<1> QED
  BY <1>1, <1>2, <1>5, <1>6

InStep(s, t, p, r) ==
    /\ Len(s) = Len(t)
    /\ \A i \in DOMAIN s : \E j \in DOMAIN p : s[i] = p[j] /\ t[i] = r[j]

(* Two sequences that lose the same place stay in step. *)
LEMMA RemovedInStep ==
    ASSUME NEW A, NEW B, NEW p \in Seq(A), NEW r \in Seq(B), Len(p) = Len(r),
           NEW k \in 0..Len(p)
    PROVE  /\ RemoveAt(p, k) \in Seq(A) /\ RemoveAt(r, k) \in Seq(B)
           /\ InStep(RemoveAt(p, k), RemoveAt(r, k), p, r)
<1>1. CASE k = 0
  <2>1. \A C : \A s \in Seq(C) : SubSeq(s, 1, 0 - 1) \o SubSeq(s, 0 + 1, Len(s)) = s
    OBVIOUS
  <2> QED
    BY <1>1, <2>1 DEF RemoveAt, InStep
<1>2. CASE k > 0
  <2>1. ASSUME NEW C, NEW s \in Seq(C), Len(s) = Len(p)
        PROVE  RemoveAt(s, k) = [i \in 1..(Len(p) - 1) |-> IF i < k THEN s[i] ELSE s[i + 1]]
               /\ RemoveAt(s, k) \in Seq(C)
    <3> DEFINE a == SubSeq(s, 1, k - 1)
               b == SubSeq(s, k + 1, Len(s))
    <3>1. a \in Seq(C) /\ Len(a) = k - 1 /\ \A i \in 1..(k - 1) : a[i] = s[i]
      BY <1>2, <2>1
    <3>2. b \in Seq(C) /\ Len(b) = Len(p) - k /\ \A i \in 1..(Len(p) - k) : b[i] = s[k + i]
      BY <1>2, <2>1
    <3> HIDE DEF a, b
    <3>3. a \o b \in Seq(C) /\ Len(a \o b) = Len(p) - 1
      BY <3>1, <3>2
    <3>4. ASSUME NEW i \in 1..(Len(p) - 1)
          PROVE  (a \o b)[i] = IF i < k THEN s[i] ELSE s[i + 1]
      <4>1. CASE i < k
        BY <3>1, <3>2, <4>1
      <4>2. CASE ~(i < k)
        <5>1. (a \o b)[i] = b[i - (k - 1)]
          BY <3>1, <3>2, <3>4, <4>2
        <5>2. i - (k - 1) \in 1..(Len(p) - k) /\ k + (i - (k - 1)) = i + 1
          BY <3>4, <4>2
        <5>3. b[i - (k - 1)] = s[k + (i - (k - 1))]
          BY <3>2, <5>2
        <5> QED
          BY <4>2, <5>1, <5>2, <5>3
      <4> QED
        BY <4>1, <4>2
    <3>5. a \o b = [i \in 1..(Len(p) - 1) |-> (a \o b)[i]]
      <4> DEFINE c == a \o b
      <4>1. c \in Seq(C) /\ Len(c) = Len(p) - 1
        BY <3>3
      <4> HIDE DEF c
      <4>2. c = [i \in 1..(Len(p) - 1) |-> c[i]]
        BY <4>1
      <4> QED
        BY <4>2 DEF c
    <3> QED
      BY <3>3, <3>4, <3>5 DEF RemoveAt, a, b
  <2>2. /\ RemoveAt(p, k) = [i \in 1..(Len(p) - 1) |-> IF i < k THEN p[i] ELSE p[i + 1]]
        /\ RemoveAt(r, k) = [i \in 1..(Len(p) - 1) |-> IF i < k THEN r[i] ELSE r[i + 1]]
        /\ RemoveAt(p, k) \in Seq(A) /\ RemoveAt(r, k) \in Seq(B)
    BY <2>1
  <2>3. Len(RemoveAt(p, k)) = Len(p) - 1 /\ Len(RemoveAt(r, k)) = Len(p) - 1
    BY <1>2, <2>2
  <2>4. ASSUME NEW i \in DOMAIN RemoveAt(p, k)
        PROVE  \E j \in DOMAIN p : RemoveAt(p, k)[i] = p[j] /\ RemoveAt(r, k)[i] = r[j]
    <3>1. i \in 1..(Len(p) - 1)
      BY <2>2, <2>4
    <3>2. CASE i < k
      BY <2>2, <3>1, <3>2, i \in DOMAIN p
    <3>3. CASE ~(i < k)
      BY <2>2, <3>1, <3>3, i + 1 \in DOMAIN p
    <3> QED
      BY <3>2, <3>3
  <2> QED
    BY <2>2, <2>3, <2>4 DEF InStep
<1> QED
  BY <1>1, <1>2

(* The row leaves the pool and the ids at one place, the first that has it. *)
LEMMA MarkUsedKeeps ==
    ASSUME PoolTrue, NEW row, MarkUsed(row)
    PROVE  PoolTrue'
<1> DEFINE I == {i \in 1..Len(rowIds) : rowIds[i] = row}
           index == IF I # {} THEN Min(I) ELSE 0
<1>1. pool \in Seq(RowTexts) /\ rowIds \in Seq(Rows) /\ Len(pool) = Len(rowIds)
      /\ \A i \in DOMAIN pool : Pool[rowIds[i]] = pool[i]
  BY DEF PoolTrue
<1>2. index \in 0..Len(pool)
  <2>1. I \in SUBSET Nat
    OBVIOUS
  <2>2. CASE I # {}
    <3>1. \E i \in I : \A j \in I : i <= j
      <4> HIDE DEF I
      <4> QED
        BY <2>1, <2>2, SmallestNat
    <3>2. Min(I) \in I
      <4> HIDE DEF I
      <4> QED
        BY <3>1 DEF Min
    <3>3. index \in I
      BY <2>2, <3>2
    <3> HIDE DEF index
    <3>4. index \in 1..Len(rowIds) /\ Len(rowIds) = Len(pool) /\ Len(pool) \in Nat
      BY <1>1, <3>3
    <3> QED
      BY <3>4
  <2>3. CASE I = {}
    BY <1>1, <2>3
  <2> QED
    BY <2>2, <2>3
<1>3. pool' = RemoveAt(pool, index) /\ rowIds' = RemoveAt(rowIds, index)
  BY DEF MarkUsed, SelectInSeq
<1> HIDE DEF index
<1>4. /\ pool' \in Seq(RowTexts) /\ rowIds' \in Seq(Rows) /\ Len(pool') = Len(rowIds')
      /\ \A i \in DOMAIN pool' : \E j \in DOMAIN pool : pool'[i] = pool[j] /\ rowIds'[i] = rowIds[j]
  <2>1. /\ RemoveAt(pool, index) \in Seq(RowTexts) /\ RemoveAt(rowIds, index) \in Seq(Rows)
        /\ InStep(RemoveAt(pool, index), RemoveAt(rowIds, index), pool, rowIds)
    BY <1>1, <1>2, RemovedInStep
  <2> QED
    BY <1>3, <2>1 DEF InStep
<1>5. ASSUME NEW i \in DOMAIN pool' PROVE Pool[rowIds'[i]] = pool'[i]
  BY <1>1, <1>4, <1>5
<1>6. RowTexts' = RowTexts /\ Rows' = Rows
  BY DEF RowTexts, Rows
<1> QED
  BY <1>4, <1>5, <1>6 DEF PoolTrue

-----------------------------------------------------------------------------
(* Gains *)

Gains(s) == [i \in DOMAIN s |-> s[i].gain]

(* What is gained, the fold of the community modules, is such a sum. *)
LEMMA GainIsSum ==
    ASSUME NEW s, IsFiniteSet(DOMAIN s)
    PROVE  \E g : Sums(g, Gains(s), DOMAIN s) /\ GainSum(s) = g[DOMAIN s]
<1> DEFINE Iter(f) == f = [u \in SUBSET DOMAIN s |->
                 IF u = {} THEN 0
                 ELSE s[CHOOSE x \in u : TRUE].gain + f[u \ {CHOOSE x \in u : TRUE}]]
           g == CHOOSE f : Iter(f)
<1>1. ASSUME NEW f PROVE Iter(f) <=> Sums(f, Gains(s), DOMAIN s)
  <2>1. ASSUME NEW u \in SUBSET DOMAIN s, u # {}
        PROVE  Gains(s)[Some(u)] = s[CHOOSE x \in u : TRUE].gain
    BY <2>1 DEF Gains, Some
  <2> QED
    BY <2>1 DEF Sums, Some
<1>2. \E f : Iter(f)
  <2> HIDE DEF Iter
  <2> QED
    BY <1>1, SumsExist
<1>3. Iter(g)
  <2> HIDE DEF Iter
  <2> QED
    BY <1>2
<1>4. GainSum(s) = g[DOMAIN s]
  BY DEF GainSum, MapThenSumSet, MapThenFoldSet
<1> QED
  BY <1>1, <1>3, <1>4

(* A sum is what one element weighs and the sum of the others. *)
LEMMA SumWithout ==
    ASSUME NEW T, IsFiniteSet(T), NEW w \in [T -> Int], NEW g, Sums(g, w, T), NEW x \in T
    PROVE  g[T] = w[x] + g[T \ {x}]
<1>1. \A s \in SUBSET T : g[s] \in Int /\ \A y \in s : g[s] = w[y] + g[s \ {y}]
  BY SumsValue
<1> QED
  BY <1>1, T \in SUBSET T

(* One weight more *)
LEMMA SumsGrow ==
    ASSUME NEW D, NEW E, IsFiniteSet(D), IsFiniteSet(E), NEW x \in E, D = E \ {x},
           NEW w \in [D -> Int], NEW v \in [E -> Int], \A i \in D : v[i] = w[i],
           NEW g, Sums(g, w, D), NEW h, Sums(h, v, E)
    PROVE  g[D] \in Int /\ h[E] = g[D] + v[x]
<1>1. g[D] \in Int
  <2>1. \A s \in SUBSET D : g[s] \in Int /\ \A y \in s : g[s] = w[y] + g[s \ {y}]
    BY SumsValue
  <2> QED
    BY <2>1
<1>2. h[E] = v[x] + h[E \ {x}]
  BY SumWithout
<1>3. g[D] = h[D]
  <2>1. D \in SUBSET (D \cap E) /\ \A i \in D : w[i] = v[i]
    OBVIOUS
  <2> QED
    BY <2>1, SumsAgree
<1>4. v[x] \in Int /\ h[E] = v[x] + g[D]
  BY <1>2, <1>3
<1> QED
  BY <1>1, <1>4

(* What nothing gains, and what one row more gains *)
LEMMA GainsAdd ==
    /\ GainSum(<<>>) = 0
    /\ \A s \in Seq(AcceptedRows) : \A a \in AcceptedRows :
          GainSum(Append(s, a)) = GainSum(s) + a.gain
<1>1. GainSum(<<>>) = 0
  <2>1. DOMAIN <<>> = {} /\ IsFiniteSet({})
    BY FS_EmptySet
  <2>2. PICK g : Sums(g, Gains(<<>>), DOMAIN <<>>) /\ GainSum(<<>>) = g[DOMAIN <<>>]
    BY <2>1, GainIsSum
  <2> QED
    BY <2>1, <2>2 DEF Sums
<1>2. ASSUME NEW s \in Seq(AcceptedRows), NEW a \in AcceptedRows
      PROVE  GainSum(Append(s, a)) = GainSum(s) + a.gain
  <2> DEFINE t == Append(s, a)
             n == Len(s)
  <2>1. /\ t \in Seq(AcceptedRows) /\ t[n + 1] = a /\ DOMAIN t = 1..(n + 1)
        /\ n \in Nat /\ DOMAIN s = 1..n /\ \A i \in 1..n : t[i] = s[i]
    OBVIOUS
  <2> HIDE DEF t, n
  <2>2. /\ Gains(s) \in [1..n -> Int] /\ Gains(t) \in [1..(n + 1) -> Int]
        /\ Gains(t)[n + 1] = a.gain /\ \A i \in 1..n : Gains(t)[i] = Gains(s)[i]
    <3>1. \A r \in AcceptedRows : r.gain \in Int
      BY DEF AcceptedRows
    <3>2. (\A i \in 1..n : s[i] \in AcceptedRows) /\ \A i \in 1..(n + 1) : t[i] \in AcceptedRows
      BY <2>1
    <3>3. n + 1 \in 1..(n + 1) /\ \A i \in 1..n : i \in 1..(n + 1)
      BY <2>1
    <3> QED
      BY <2>1, <3>1, <3>2, <3>3 DEF Gains
  <2>3. IsFiniteSet(DOMAIN s) /\ IsFiniteSet(DOMAIN t)
    <3>1. IsFiniteSet(1..n) /\ IsFiniteSet(1..(n + 1))
      BY <2>1, FS_Interval
    <3> QED
      BY <2>1, <3>1
  <2>4. PICK g : Sums(g, Gains(s), DOMAIN s) /\ GainSum(s) = g[DOMAIN s]
    BY <2>3, GainIsSum
  <2>5. PICK h : Sums(h, Gains(t), DOMAIN t) /\ GainSum(t) = h[DOMAIN t]
    BY <2>3, GainIsSum
  <2>6. h[1..(n + 1)] = g[1..n] + Gains(t)[n + 1]
    <3> DEFINE D == 1..n
               E == 1..(n + 1)
               x == n + 1
               w == Gains(s)
               v == Gains(t)
    <3>1. /\ IsFiniteSet(D) /\ IsFiniteSet(E) /\ x \in E /\ D = E \ {x}
          /\ w \in [D -> Int] /\ v \in [E -> Int] /\ \A i \in D : v[i] = w[i]
          /\ Sums(g, w, D) /\ Sums(h, v, E)
      BY <2>1, <2>2, <2>3, <2>4, <2>5
    <3> HIDE DEF D, E, x, w, v
    <3>2. h[E] = g[D] + v[x]
      BY <3>1, SumsGrow
    <3> QED
      BY <3>2 DEF D, E, x, v
  <2> QED
    BY <2>1, <2>2, <2>4, <2>5, <2>6 DEF t
<1> QED
  BY <1>1, <1>2

(* What is covered grows by what is new of it. *)
LEMMA CoverageGrows ==
    ASSUME NEW before, IsFiniteSet(before), NEW more, IsFiniteSet(more)
    PROVE  /\ IsFiniteSet(before \cup more) /\ Cardinality(more \ before) \in Nat
           /\ Cardinality(before \cup more) = Cardinality(before) + Cardinality(more \ before)
           /\ Cardinality(more \ before) > 0 => ~(more \subseteq before)
<1> DEFINE fresh == more \ before
<1>1. IsFiniteSet(fresh) /\ before \cup more = before \cup fresh /\ before \cap fresh = {}
  BY FS_Subset
<1> HIDE DEF fresh
<1>2. /\ IsFiniteSet(before \cup fresh)
      /\ Cardinality(before \cup fresh) =
            Cardinality(before) + Cardinality(fresh) - Cardinality(before \cap fresh)
  BY <1>1, FS_Union
<1>3. Cardinality(before) \in Nat /\ Cardinality(fresh) \in Nat /\ Cardinality(before \cap fresh) = 0
  BY <1>1, FS_CardinalityType, FS_EmptySet
<1>4. Cardinality(before \cup fresh) = Cardinality(before) + Cardinality(fresh)
  BY <1>2, <1>3
<1>5. more \subseteq before => fresh = {}
  BY DEF fresh
<1>6. Cardinality(fresh) > 0 => fresh # {}
  BY FS_EmptySet
<1> QED
  BY <1>1, <1>2, <1>3, <1>4, <1>5, <1>6 DEF fresh

-----------------------------------------------------------------------------
(* Messages *)

(* While a request that bounds its candidates runs, the next message fits. *)
LEMMA RoomForMessages ==
    ASSUME GenerationAssumption, GenerationInv, Bounded,
           phase \in {"validating", "preparing", "looping", "staging"}
    PROVE  messages <= 5 + Budget /\ messages < MessageLimit
<1>1. Budget \in Nat \ {0} /\ Budget + 6 <= MessageLimit /\ messages \in Nat /\ MessageLimit \in Nat
  BY CriteriaFacts DEF GenerationInv, GenerationAssumption
<1>2. CASE phase = "looping"
  BY <1>1, <1>2, RoomWhileLooping
<1>3. CASE phase # "looping"
  BY <1>1, <1>3 DEF GenerationInv, MessagesTrue
<1> QED
  BY <1>2, <1>3

(* publish goes on, or has met the limit. *)
LEMMA Publishes ==
    ASSUME messages \in Nat, NEW next, PublishProgress(next)
    PROVE  /\ messages' \in Nat /\ phase' \in {next, "ended"}
           /\ messages < MessageLimit =>
                phase' = next /\ ending' = ending /\ messages' <= messages + 1
BY DEF PublishProgress

(* A failure is told where there is room, and is final. *)
LEMMA GenerationFails ==
    ASSUME messages \in Nat, criteria.mode \in {"preview", "worker"}, NEW code, FailWith(code)
    PROVE  /\ messages' \in Nat /\ phase' = "ended"
           /\ messages < MessageLimit => ending' = code
BY DEF FailWith

(* What the pool depends on *)
LEMMA PoolKept ==
    PoolTrue /\ UNCHANGED <<pool, rowIds>> => PoolTrue'
<1>1. RowTexts' = RowTexts /\ Rows' = Rows
  BY DEF RowTexts, Rows
<1> QED
  BY <1>1 DEF PoolTrue

(* What the ranking depends on *)
LEMMA RankingKept ==
    RankedTrue /\ UNCHANGED <<ranked, taken>> => RankedTrue'
<1>1. Candidates' = Candidates
  BY DEF Candidates, RowTexts, Rows
<1> QED
  BY <1>1 DEF RankedTrue

(* Release: nothing of the engine is left. *)
LEMMA ReleaseKeeps ==
    Release => PoolTrue' /\ RankedTrue'
BY DEF Release, PoolTrue, RankedTrue

(* What the accepted rows depend on *)
LEMMA AcceptedKept ==
    AcceptedTrue /\ UNCHANGED accepted => AcceptedTrue'
<1> SUFFICES ASSUME AcceptedTrue, UNCHANGED accepted PROVE AcceptedTrue'
  OBVIOUS
<1>1. AcceptedRows' = AcceptedRows /\ CoveredUnits' = CoveredUnits /\ GainSum(accepted)' = GainSum(accepted)
  BY DEF AcceptedRows, CoveredUnits, RowTexts, Rows
<1> QED
  BY <1>1 DEF AcceptedTrue

(* Nothing accepted covers nothing and gains nothing. *)
LEMMA NothingAccepted ==
    /\ accepted = <<>> => AcceptedTrue
    /\ accepted' = <<>> => AcceptedTrue'
<1>1. ASSUME accepted = <<>> PROVE AcceptedTrue
  <2>1. CoveredUnits = {} /\ accepted \in Seq(AcceptedRows)
    BY <1>1 DEF CoveredUnits
  <2>2. GainSum(accepted) = 0
    BY <1>1, GainsAdd
  <2> QED
    BY <1>1, <2>1, <2>2, FS_EmptySet DEF AcceptedTrue
<1>2. ASSUME accepted' = <<>> PROVE AcceptedTrue'
  <2>1. CoveredUnits' = {} /\ accepted' \in Seq(AcceptedRows')
    BY <1>2 DEF CoveredUnits
  <2>2. GainSum(accepted)' = 0
    BY <1>2, GainsAdd
  <2> QED
    BY <1>2, <2>1, <2>2, FS_EmptySet DEF AcceptedTrue
<1> QED
  BY <1>1, <1>2

-----------------------------------------------------------------------------
(* Accept *)

(* A row of the text that gains: the texts accepted before gain nothing, so *)
(* the first ranked row of this one has not been accepted.                  *)
LEMMA AcceptChooses ==
    ASSUME GenerationAssumption, GenerationInv, Accept
    PROVE  \E position \in DOMAIN ranked, row \in Rows, text \in RowTexts :
              /\ position > taken /\ taken' = position
              /\ Pool[row] = text /\ Gain(text) > 0 /\ MarkUsed(row)
              /\ accepted' = Append(accepted, [row |-> row, text |-> text, gain |-> Gain(text)])
<1> DEFINE gaining == {i \in DOMAIN ranked : i > taken /\ Gain(ranked[i].text) > 0}
           position == CHOOSE i \in gaining : \A j \in gaining : i <= j
           text == ranked[position].text
           rows == {ranked[i].row : i \in {j \in DOMAIN ranked : ranked[j].text = text}}
                     \ {accepted[i].row : i \in DOMAIN accepted}
           I == {i \in 1..Len(ranked) : ranked[i].row \in rows}
           place == IF I # {} THEN Min(I) ELSE 0
           row == ranked[place].row
<1>1. /\ gaining # {} /\ taken' = position /\ MarkUsed(row)
      /\ accepted' = Append(accepted, [row |-> row, text |-> text, gain |-> Gain(text)])
  BY DEF Accept, SelectInSeq
<1>2. /\ DOMAIN ranked = 1..Len(ranked) /\ Len(ranked) \in Nat
      /\ \A i \in DOMAIN ranked : ranked[i].row \in Rows /\ ranked[i].text \in RowTexts
                                  /\ Pool[ranked[i].row] = ranked[i].text
  <2>1. ranked \in Seq(Candidates)
    BY DEF GenerationInv, RankedTrue
  <2>2. \A c \in Candidates : c.row \in Rows /\ c.text \in RowTexts /\ Pool[c.row] = c.text
    BY DEF Candidates
  <2>3. DOMAIN ranked = 1..Len(ranked) /\ Len(ranked) \in Nat /\ \A i \in DOMAIN ranked : ranked[i] \in Candidates
    BY <2>1
  <2> QED
    BY <2>2, <2>3
<1>3. position \in gaining
  <2>1. gaining \in SUBSET Nat
    BY <1>2
  <2> HIDE DEF gaining
  <2>2. \E i \in gaining : \A j \in gaining : i <= j
    BY <1>1, <2>1, SmallestNat
  <2> QED
    BY <2>2
<1>4. position \in DOMAIN ranked /\ position > taken /\ Gain(text) > 0
  BY <1>3
<1> HIDE DEF position
<1>5. ranked[position].row \in rows
  <2>1. ASSUME NEW i \in DOMAIN accepted PROVE accepted[i].row # ranked[position].row
    <3>1. CASE accepted[i].text = text
      <4>1. UnitsOf[text] \subseteq CoveredUnits
        BY <3>1 DEF CoveredUnits
      <4>2. UnitsOf[text] \ CoveredUnits = {}
        BY <4>1
      <4>3. Gain(text) = 0
        BY <4>2, FS_EmptySet DEF Gain
      <4> QED
        BY <1>4, <4>3
    <3>2. CASE accepted[i].text # text
      <4>1. Pool[accepted[i].row] = accepted[i].text
        BY DEF GenerationInv, AcceptedTrue
      <4> QED
        BY <1>2, <1>4, <3>2, <4>1
    <3> QED
      BY <3>1, <3>2
  <2> QED
    BY <1>4, <2>1
<1>6. \A r \in rows : r \in Rows /\ Pool[r] = text
  BY <1>2
<1> HIDE DEF rows
<1>7. I \in SUBSET Nat /\ position \in I
  BY <1>2, <1>4, <1>5
<1>8. Min(I) \in I
  <2> HIDE DEF I
  <2>1. \E i \in I : \A j \in I : i <= j
    BY <1>7, SmallestNat
  <2> QED
    BY <2>1 DEF Min
<1>9. place \in I
  <2> HIDE DEF I
  <2> QED
    BY <1>7, <1>8
<1>10. row \in rows
  <2> HIDE DEF place
  <2> QED
    BY <1>9
<1>11. row \in Rows /\ Pool[row] = text /\ text \in RowTexts
  BY <1>2, <1>4, <1>6, <1>10
<1> HIDE DEF row, text
<1> QED
  BY <1>1, <1>4, <1>11

(* The row is true to its text, and its gain is what is covered more. *)
LEMMA AcceptedGrows ==
    ASSUME GenerationAssumption, AcceptedTrue, NEW row \in Rows, NEW text \in RowTexts,
           Pool[row] = text, Gain(text) > 0,
           accepted' = Append(accepted, [row |-> row, text |-> text, gain |-> Gain(text)])
    PROVE  AcceptedTrue' /\ Len(accepted') = Len(accepted) + 1
<1> DEFINE a == [row |-> row, text |-> text, gain |-> Gain(text)]
           n == Len(accepted)
<1>1. /\ accepted \in Seq(AcceptedRows) /\ IsFiniteSet(CoveredUnits)
      /\ GainSum(accepted) = Cardinality(CoveredUnits) /\ IsFiniteSet(UnitsOf[text])
  BY RepositoryFacts DEF AcceptedTrue
<1>2. /\ IsFiniteSet(CoveredUnits \cup UnitsOf[text]) /\ Gain(text) \in Nat
      /\ Cardinality(CoveredUnits \cup UnitsOf[text]) = Cardinality(CoveredUnits) + Gain(text)
      /\ ~(UnitsOf[text] \subseteq CoveredUnits)
  BY <1>1, CoverageGrows DEF Gain
<1>3. a \in AcceptedRows /\ a.row = row /\ a.text = text /\ a.gain = Gain(text)
  BY <1>2 DEF AcceptedRows
<1>4. accepted' = Append(accepted, a)
  OBVIOUS
<1> HIDE DEF a
<1>5. /\ accepted' \in Seq(AcceptedRows) /\ Len(accepted') = n + 1 /\ n \in Nat
      /\ DOMAIN accepted = 1..n /\ DOMAIN accepted' = DOMAIN accepted \cup {n + 1}
      /\ accepted'[n + 1] = a /\ \A i \in DOMAIN accepted : accepted'[i] = accepted[i]
  BY <1>1, <1>3, <1>4
<1>6. CoveredUnits' = CoveredUnits \cup UnitsOf[text]
  BY <1>3, <1>5 DEF CoveredUnits
<1>7. GainSum(accepted)' = GainSum(accepted) + Gain(text)
  BY <1>1, <1>3, <1>4, GainsAdd
<1>8. \A i \in DOMAIN accepted' : Pool[accepted'[i].row] = accepted'[i].text
  BY <1>3, <1>5 DEF AcceptedTrue
<1>9. \A i \in DOMAIN accepted : accepted[i].text # text
  BY <1>2 DEF CoveredUnits
<1>10. \A i, j \in DOMAIN accepted' : accepted'[i].text = accepted'[j].text => i = j
  BY <1>3, <1>5, <1>9 DEF AcceptedTrue
<1>11. AcceptedRows' = AcceptedRows
  BY DEF AcceptedRows, RowTexts, Rows
<1> HIDE DEF n
<1>12. AcceptedTrue'
  BY <1>1, <1>2, <1>5, <1>6, <1>7, <1>8, <1>10, <1>11 DEF AcceptedTrue
<1> QED
  BY <1>5, <1>12 DEF n

(* What depends on the request alone *)
LEMMA SameRequest ==
    ASSUME UNCHANGED criteria
    PROVE  /\ Criteria' = Criteria /\ Bounded' = Bounded /\ Stride' = Stride /\ Budget' = Budget
BY DEF Criteria, Stopping, Bounded, Stride, Budget, Ceiling, TotalIterations

(* A candidate is told of when it is the first, or at the end of a stride. *)
LEMMA CandidateTold ==
    ASSUME GenerationAssumption, GenerationInv, phase = "looping", Bounded, UNCHANGED criteria,
           Len(accepted') = Len(accepted) + 1, accepted' # <<>>,
           messages' \in Nat, messages' <= messages + 1,
           Reported(Len(accepted) + 1) \/ messages' = messages
    PROVE  \E m \in Nat : CandidatesTold(m)'
<1>1. PICK m \in Nat : CandidatesTold(m)
  BY DEF GenerationInv, MessagesTrue
<1>2. /\ Len(accepted) \in Nat /\ messages \in Nat /\ Stride \in Nat \ {0} /\ m * Stride \in Int
      /\ Stride' = Stride
  <2>1. Len(accepted) \in Nat /\ messages \in Nat
    BY DEF GenerationInv, AcceptedTrue
  <2>2. Stride \in Nat \ {0} /\ Stride' = Stride
    BY CriteriaFacts, SameRequest DEF GenerationInv
  <2> QED
    BY <2>1, <2>2, OneStrideMore
<1>3. messages <= 4 + m /\ m * Stride <= Len(accepted) /\ (accepted = <<>> => messages <= 3)
  BY <1>1 DEF CandidatesTold
<1>4. CASE messages' = messages
  <2>1. messages' <= 4 + m /\ m * Stride <= Len(accepted')
    BY <1>2, <1>3, <1>4
  <2> QED
    BY <1>2, <2>1 DEF CandidatesTold
<1>5. CASE Len(accepted) + 1 = 1
  <2>1. accepted = <<>>
    BY <1>5 DEF GenerationInv, AcceptedTrue
  <2>2. messages' <= 4 + 0 /\ 0 * Stride = 0 /\ 0 <= Len(accepted')
    BY <1>2, <1>3, <1>5, <2>1
  <2> QED
    BY <1>2, <2>2 DEF CandidatesTold
<1>6. CASE (Len(accepted) + 1) % Stride = 0
  <2>1. (m + 1) * Stride <= Len(accepted) + 1
    BY <1>2, <1>3, <1>6, NextMultiple
  <2>2. messages' <= 4 + (m + 1) /\ (m + 1) * Stride <= Len(accepted') /\ m + 1 \in Nat
    BY <1>2, <1>3, <2>1
  <2>3. CandidatesTold(m + 1)'
    BY <1>2, <2>2 DEF CandidatesTold
  <2> QED
    BY <2>2, <2>3
<1> QED
  BY <1>4, <1>5, <1>6 DEF Reported

(* Accept: a row more, a place further in the ranking, and a message at most *)
LEMMA AcceptKeeps ==
    ASSUME GenerationAssumption, GenerationInv, Accept
    PROVE  GenerationInv'
<1>1. phase = "looping" /\ UNCHANGED <<criteria, ranked, rounds>> /\ Wanting
  BY DEF Accept
<1>2. PICK position \in DOMAIN ranked, row \in Rows, text \in RowTexts :
        /\ position > taken /\ taken' = position
        /\ Pool[row] = text /\ Gain(text) > 0 /\ MarkUsed(row)
        /\ accepted' = Append(accepted, [row |-> row, text |-> text, gain |-> Gain(text)])
  BY AcceptChooses
<1>3. AcceptedTrue' /\ Len(accepted') = Len(accepted) + 1
  BY <1>2, AcceptedGrows DEF GenerationInv
<1>4. PoolTrue'
  BY <1>2, MarkUsedKeeps DEF GenerationInv
<1>5. RankedTrue' /\ taken' > taken /\ taken \in Nat /\ taken' \in Nat /\ ranked # <<>>
  <2>1. position \in Nat /\ position <= Len(ranked) /\ taken \in Nat /\ ranked # <<>>
    BY <1>2 DEF GenerationInv, RankedTrue
  <2>2. Candidates' = Candidates
    BY DEF Candidates, RowTexts, Rows
  <2> QED
    BY <1>1, <1>2, <2>1, <2>2 DEF GenerationInv, RankedTrue
<1>6. /\ messages' \in Nat /\ phase' \in {"looping", "ended"}
      /\ messages < MessageLimit =>
            /\ phase' = "looping" /\ ending' = ending /\ messages' <= messages + 1
            /\ Reported(Len(accepted) + 1) \/ messages' = messages
  <2>1. messages \in Nat
    BY DEF GenerationInv
  <2>2. PublishProgress("looping") \/ UNCHANGED <<phase, messages, ending>>
    BY DEF Accept
  <2>3. Reported(Len(accepted) + 1) \/ UNCHANGED messages
    BY DEF Accept
  <2> QED
    BY <1>1, <2>1, <2>2, <2>3, Publishes
<1>7. /\ Criteria' = Criteria /\ Bounded' = Bounded /\ Stride' = Stride /\ Budget' = Budget
  BY <1>1, SameRequest
<1>8. Len(accepted) \in Nat /\ accepted' # <<>>
  BY <1>2 DEF GenerationInv, AcceptedTrue
<1>9. LoopTrue'
  <2>1. /\ criteria.stop.sentences > 0 => Len(accepted) < criteria.stop.sentences
        /\ criteria.stop.iterations > 0 => rounds <= criteria.stop.iterations
        /\ rounds # 0 /\ rounds \in Nat
        /\ rounds > 0 => Len(ranked) <= criteria.draw
        /\ rounds > 0 => Len(accepted) <= (rounds - 1) * criteria.draw + taken
    BY <1>1, <1>5 DEF GenerationInv, LoopTrue, Wanting
  <2>2. (rounds - 1) * criteria.draw \in Int
    BY <2>1, CriteriaFacts, OneStrideMore, rounds - 1 \in Int DEF GenerationInv
  <2>3. Len(accepted') <= (rounds - 1) * criteria.draw + taken'
    BY <1>3, <1>5, <1>8, <2>1, <2>2
  <2>4. criteria.stop.sentences \in Nat
    BY CriteriaFacts DEF GenerationInv
  <2>5. criteria.stop.sentences > 0 => Len(accepted') <= criteria.stop.sentences
    BY <1>3, <1>8, <2>1, <2>4
  <2> QED
    BY <1>1, <1>6, <2>1, <2>3, <2>5 DEF LoopTrue
<1>10. MessagesTrue'
  <2>1. ASSUME Bounded PROVE messages < MessageLimit /\ \E m \in Nat : CandidatesTold(m)'
    <3>1. messages < MessageLimit
      BY <1>1, <2>1, RoomForMessages
    <3> QED
      BY <1>1, <1>3, <1>6, <1>8, <2>1, <3>1, CandidateTold
  <2>2. Bounded => ending # "invalid_run_spec"
    BY DEF GenerationInv, MessagesTrue
  <2> QED
    BY <1>6, <1>7, <2>1, <2>2 DEF MessagesTrue
<1> QED
  BY <1>1, <1>3, <1>4, <1>5, <1>6, <1>7, <1>9, <1>10 DEF GenerationInv, GenerationPhases

-----------------------------------------------------------------------------
(* The other steps *)

(* Past the loop only the messages count. *)
LEMMA PastTheLoop ==
    ASSUME criteria' = criteria, criteria \in Criteria, phase' \in {"staging", "finished", "ended"},
           messages' \in Nat, rounds' \in Nat, PoolTrue', RankedTrue', AcceptedTrue',
           Bounded => ending' # "invalid_run_spec" /\ (phase' = "staging" => messages' <= 5 + Budget)
    PROVE  GenerationInv'
<1>1. Criteria' = Criteria /\ Bounded' = Bounded /\ Budget' = Budget
  BY SameRequest
<1>2. LoopTrue'
  BY DEF LoopTrue
<1>3. MessagesTrue'
  BY <1>1 DEF MessagesTrue
<1> QED
  BY <1>1, <1>2, <1>3 DEF GenerationInv, GenerationPhases

(* Request: a new execution *)
LEMMA RequestKeeps ==
    ASSUME GenerationInv, Request
    PROVE  GenerationInv'
<1>1. PoolTrue' /\ RankedTrue' /\ AcceptedTrue'
  BY PoolKept, RankingKept, NothingAccepted DEF Request, GenerationInv
<1>2. Criteria' = Criteria
  BY DEF Criteria, Stopping
<1>3. LoopTrue' /\ MessagesTrue'
  BY DEF Request, LoopTrue, MessagesTrue
<1> QED
  BY <1>1, <1>2, <1>3 DEF Request, GenerationInv, GenerationPhases

(* Refuse, StagingFails *)
LEMMA RefusalsKeep ==
    ASSUME GenerationAssumption, GenerationInv, Refuse \/ StagingFails
    PROVE  GenerationInv'
<1>1. /\ UNCHANGED <<criteria, pool, rowIds, ranked, taken, accepted, rounds>>
      /\ phase \in {"validating", "staging"}
      /\ \E code \in {"invalid_request", "engine_unavailable"} : FailWith(code)
  BY DEF Refuse, StagingFails
<1>2. PoolTrue' /\ RankedTrue' /\ AcceptedTrue'
  BY <1>1, PoolKept, RankingKept, AcceptedKept DEF GenerationInv
<1>3. Bounded => messages < MessageLimit
  BY <1>1, RoomForMessages
<1>4. /\ messages' \in Nat /\ phase' = "ended"
      /\ Bounded => ending' \in {"invalid_request", "engine_unavailable"}
  BY <1>1, <1>3, GenerationFails, CriteriaFacts DEF GenerationInv
<1> QED
  BY <1>1, <1>2, <1>4, PastTheLoop DEF GenerationInv

(* Validate *)
LEMMA ValidateKeeps ==
    ASSUME GenerationAssumption, GenerationInv, Validate
    PROVE  GenerationInv'
<1>1. /\ UNCHANGED <<criteria, pool, rowIds, ranked, taken, accepted, rounds>>
      /\ phase = "validating" /\ PublishProgress("preparing")
  BY DEF Validate
<1>2. PoolTrue' /\ RankedTrue' /\ AcceptedTrue'
  BY <1>1, PoolKept, RankingKept, AcceptedKept DEF GenerationInv
<1>3. /\ messages' \in Nat /\ phase' \in {"preparing", "ended"}
      /\ messages < MessageLimit =>
           phase' = "preparing" /\ ending' = ending /\ messages' <= messages + 1
  BY <1>1, Publishes DEF GenerationInv
<1>4. Bounded => messages < MessageLimit /\ messages <= 1 /\ ending # "invalid_run_spec" /\ messages \in Nat
  BY <1>1, RoomForMessages DEF GenerationInv, MessagesTrue
<1>5. Criteria' = Criteria /\ Bounded' = Bounded
  BY <1>1, SameRequest
<1>6. LoopTrue'
  BY <1>1, <1>3 DEF GenerationInv, LoopTrue
<1>7. MessagesTrue'
  BY <1>3, <1>4, <1>5 DEF MessagesTrue
<1> QED
  BY <1>1, <1>2, <1>3, <1>5, <1>6, <1>7 DEF GenerationInv, GenerationPhases

(* Prepare: the repository as it is, row by row *)
LEMMA PrepareKeeps ==
    ASSUME GenerationAssumption, GenerationInv, Prepare
    PROVE  GenerationInv'
<1>1. /\ UNCHANGED <<criteria, accepted, rounds>> /\ ranked' = <<>> /\ taken' = 0
      /\ pool' = Pool /\ rowIds' = [i \in Rows |-> i]
      /\ phase = "preparing" /\ PublishProgress("looping")
  BY DEF Prepare
<1>2. PoolTrue'
  <2>1. /\ Rows = 1..Len(Pool) /\ Len(Pool) \in Nat /\ Pool \in Seq(RowTexts)
    BY RepositoryFacts
  <2>2. RowTexts' = RowTexts /\ Rows' = Rows
    BY DEF RowTexts, Rows
  <2>3. rowIds' \in Seq(Rows) /\ Len(rowIds') = Len(Pool) /\ DOMAIN Pool = Rows
    BY <1>1, <2>1 DEF Rows
  <2> QED
    BY <1>1, <2>1, <2>2, <2>3 DEF PoolTrue
<1>3. RankedTrue' /\ AcceptedTrue'
  BY <1>1, AcceptedKept DEF GenerationInv, RankedTrue
<1>4. /\ messages' \in Nat /\ phase' \in {"looping", "ended"}
      /\ messages < MessageLimit =>
           phase' = "looping" /\ ending' = ending /\ messages' <= messages + 1
  BY <1>1, Publishes DEF GenerationInv
<1>5. Bounded => messages < MessageLimit /\ messages <= 2 /\ ending # "invalid_run_spec" /\ messages \in Nat
  BY <1>1, RoomForMessages DEF GenerationInv, MessagesTrue
<1>6. Criteria' = Criteria /\ Bounded' = Bounded /\ Stride' = Stride
  BY <1>1, SameRequest
<1>7. rounds = 0 /\ accepted = <<>> /\ rounds' = 0 /\ accepted' = <<>> /\ Len(accepted') = 0
  BY <1>1 DEF GenerationInv, LoopTrue
<1>8. LoopTrue'
  BY <1>1, <1>4, <1>7, CriteriaFacts DEF GenerationInv, LoopTrue
<1>9. Bounded => CandidatesTold(0)'
  <2>1. 0 * Stride = 0 /\ Stride \in Nat
    BY CriteriaFacts DEF GenerationInv
  <2> QED
    BY <1>4, <1>5, <1>6, <1>7, <2>1 DEF CandidatesTold
<1>10. MessagesTrue'
  BY <1>4, <1>5, <1>6, <1>9 DEF MessagesTrue
<1> QED
  BY <1>1, <1>2, <1>3, <1>4, <1>6, <1>7, <1>8, <1>10 DEF GenerationInv, GenerationPhases

(* Draw: an iteration more, and what the last one may have taken *)
LEMMA DrawKeeps ==
    ASSUME GenerationAssumption, GenerationInv, Draw
    PROVE  GenerationInv'
<1>1. PICK order \in Rankings :
        /\ phase = "looping" /\ ranked' = Identified(order) /\ taken' = 0 /\ rounds' = rounds + 1
        /\ criteria.stop.iterations > 0 => rounds < criteria.stop.iterations
        /\ UNCHANGED <<criteria, phase, pool, rowIds, accepted, messages, ending>>
  BY DEF Draw
<1>2. /\ criteria.stop.iterations \in Nat /\ criteria.draw \in Nat \ {0} /\ rounds \in Nat
      /\ Len(accepted) \in Nat
  BY CriteriaFacts DEF GenerationInv, AcceptedTrue
<1>3. Identified(order) \in Seq(Candidates) /\ Len(Identified(order)) <= criteria.draw
  BY <1>2, IdentifiedTrue DEF GenerationInv
<1>4. PoolTrue' /\ AcceptedTrue'
  BY <1>1, PoolKept, AcceptedKept DEF GenerationInv
<1>5. RankedTrue'
  <2>1. Candidates' = Candidates
    BY DEF Candidates, RowTexts, Rows
  <2>2. ranked' \in Seq(Candidates) /\ Len(ranked') \in Nat /\ taken' = 0
    BY <1>1, <1>3
  <2> QED
    BY <2>1, <2>2 DEF RankedTrue
<1>6. Criteria' = Criteria /\ Bounded' = Bounded /\ Stride' = Stride /\ Budget' = Budget
  BY <1>1, SameRequest
<1>7. Len(accepted) <= rounds * criteria.draw
  <2>1. CASE rounds = 0
    BY <1>1, <1>2, <2>1 DEF GenerationInv, LoopTrue
  <2>2. CASE rounds > 0
    <3>1. /\ Len(accepted) <= (rounds - 1) * criteria.draw + taken
          /\ taken <= Len(ranked) /\ Len(ranked) <= criteria.draw /\ taken \in Nat /\ Len(ranked) \in Nat
      BY <1>1, <2>2 DEF GenerationInv, LoopTrue, RankedTrue
    <3>2. /\ (rounds - 1) * criteria.draw + criteria.draw = rounds * criteria.draw
          /\ rounds * criteria.draw \in Int /\ (rounds - 1) * criteria.draw \in Int
      <4>1. rounds \in Int /\ rounds - 1 \in Int /\ criteria.draw \in Int
        BY <1>2
      <4>2. /\ (rounds - 1) * criteria.draw + criteria.draw = rounds * criteria.draw
            /\ rounds * criteria.draw \in Int
        BY <4>1, OneStrideMore
      <4>3. (rounds - 1) * criteria.draw \in Int
        BY <4>1, OneStrideMore
      <4> QED
        BY <4>2, <4>3
    <3> QED
      BY <1>2, <3>1, <3>2
  <2> QED
    BY <1>2, <2>1, <2>2
<1>8. LoopTrue'
  <2>1. rounds' - 1 = rounds /\ rounds * criteria.draw + 0 = rounds * criteria.draw
        /\ rounds * criteria.draw \in Int
    BY <1>1, <1>2
  <2>2. Len(accepted') <= (rounds' - 1) * criteria'.draw + taken'
    BY <1>1, <1>7, <2>1
  <2>3. Len(ranked') <= criteria'.draw
    BY <1>1, <1>3
  <2>4. /\ criteria'.stop.sentences > 0 => Len(accepted') <= criteria'.stop.sentences
        /\ criteria'.stop.iterations > 0 => rounds' <= criteria'.stop.iterations
        /\ rounds' # 0
    BY <1>1, <1>2 DEF GenerationInv, LoopTrue
  <2> QED
    BY <1>1, <2>2, <2>3, <2>4 DEF LoopTrue
<1>9. MessagesTrue'
  <2>1. ASSUME NEW m \in Nat, CandidatesTold(m) PROVE CandidatesTold(m)'
    BY <1>1, <1>6, <2>1 DEF CandidatesTold
  <2> QED
    BY <1>1, <1>6, <2>1 DEF GenerationInv, MessagesTrue
<1> QED
  BY <1>1, <1>2, <1>4, <1>5, <1>6, <1>8, <1>9 DEF GenerationInv

(* LoopEnds: with a result, or without *)
LEMMA LoopEndsKeeps ==
    ASSUME GenerationAssumption, GenerationInv, LoopEnds
    PROVE  GenerationInv'
<1>1. /\ phase = "looping" /\ UNCHANGED <<criteria, accepted, rounds>> /\ Release
      /\ \/ FailWith("engine_contract_violation")
         \/ phase' = "ended" /\ ending' = "ok" /\ UNCHANGED messages
         \/ PublishProgress("staging")
  BY DEF LoopEnds
<1>2. PoolTrue' /\ RankedTrue' /\ AcceptedTrue'
  BY <1>1, ReleaseKeeps, AcceptedKept DEF GenerationInv
<1>3. Bounded => messages < MessageLimit /\ messages <= 4 + Budget /\ ending # "invalid_run_spec"
  BY <1>1, RoomForMessages, RoomWhileLooping DEF GenerationInv, MessagesTrue
<1>4. messages \in Nat /\ Budget \in Nat /\ criteria.mode \in {"preview", "worker"}
  BY CriteriaFacts DEF GenerationInv
<1>5. CASE FailWith("engine_contract_violation")
  <2>1. /\ messages' \in Nat /\ phase' = "ended"
        /\ Bounded => ending' = "engine_contract_violation"
    BY <1>3, <1>4, <1>5, GenerationFails
  <2> QED
    BY <1>1, <1>2, <2>1, PastTheLoop DEF GenerationInv
<1>6. CASE phase' = "ended" /\ ending' = "ok" /\ UNCHANGED messages
  BY <1>1, <1>2, <1>4, <1>6, PastTheLoop DEF GenerationInv
<1>7. CASE PublishProgress("staging")
  <2>1. /\ messages' \in Nat /\ phase' \in {"staging", "ended"}
        /\ Bounded => ending' = ending /\ messages' <= messages + 1
    BY <1>3, <1>4, <1>7, Publishes
  <2>2. Bounded => ending' # "invalid_run_spec" /\ messages' <= 5 + Budget
    BY <1>3, <1>4, <2>1
  <2> QED
    BY <1>1, <1>2, <2>1, <2>2, PastTheLoop DEF GenerationInv
<1> QED
  BY <1>1, <1>5, <1>6, <1>7

(* EngineFails: nothing of the loop is left. *)
LEMMA EngineFailsKeeps ==
    ASSUME GenerationAssumption, GenerationInv, EngineFails
    PROVE  GenerationInv'
<1>1. /\ phase \in {"preparing", "looping"} /\ FailWith("engine_unavailable") /\ Release
      /\ accepted' = <<>> /\ UNCHANGED <<criteria, rounds>>
  BY DEF EngineFails
<1>2. PoolTrue' /\ RankedTrue' /\ AcceptedTrue'
  BY <1>1, ReleaseKeeps, NothingAccepted
<1>3. Bounded => messages < MessageLimit
  BY <1>1, RoomForMessages
<1>4. messages' \in Nat /\ phase' = "ended" /\ (Bounded => ending' = "engine_unavailable")
  BY <1>1, <1>3, GenerationFails, CriteriaFacts DEF GenerationInv
<1> QED
  BY <1>1, <1>2, <1>4, PastTheLoop DEF GenerationInv

(* StageGenerated, ReturnClaim *)
LEMMA StagingKeeps ==
    ASSUME GenerationAssumption, GenerationInv, StageGenerated \/ ReturnClaim
    PROVE  GenerationInv'
<1>1. UNCHANGED <<criteria, pool, rowIds, ranked, taken, accepted, rounds>>
  BY DEF StageGenerated, ReturnClaim
<1>2. PoolTrue' /\ RankedTrue' /\ AcceptedTrue'
  BY <1>1, PoolKept, RankingKept, AcceptedKept DEF GenerationInv
<1>3. /\ messages' \in Nat /\ phase' \in {"finished", "ended"}
      /\ Bounded => ending' # "invalid_run_spec"
  <2>1. CASE StageGenerated
    <3>1. phase = "staging" /\ PublishProgress("finished") /\ messages \in Nat
      BY <2>1 DEF StageGenerated, GenerationInv
    <3>2. Bounded => messages < MessageLimit /\ ending # "invalid_run_spec"
      BY <3>1, RoomForMessages DEF GenerationInv, MessagesTrue
    <3> QED
      BY <3>1, <3>2, Publishes
  <2>2. CASE ReturnClaim
    BY <2>2 DEF ReturnClaim, GenerationInv
  <2> QED
    BY <2>1, <2>2
<1> QED
  BY <1>1, <1>2, <1>3, PastTheLoop DEF GenerationInv

(* DeadlineKills, anywhere *)
LEMMA DeadlineKeeps ==
    ASSUME GenerationInv, DeadlineKills
    PROVE  GenerationInv'
<1>1. PoolTrue' /\ RankedTrue' /\ AcceptedTrue'
  BY ReleaseKeeps, NothingAccepted DEF DeadlineKills
<1> QED
  BY <1>1, PastTheLoop DEF DeadlineKills, GenerationInv

-----------------------------------------------------------------------------
(* GenerationInv holds at first, and every step keeps it. *)
LEMMA GenerationStarts ==
    ASSUME GenerationAssumption, GenerationInit
    PROVE  GenerationInv
<1>1. criteria \in Criteria
  <2>1. PICK d \in Draws : TRUE
    BY DEF GenerationAssumption
  <2>2. PICK n \in SentenceCaps : TRUE
    BY DEF GenerationAssumption
  <2> DEFINE s == [sentences |-> n, iterations |-> 0, timed |-> TRUE]
  <2>3. s \in Stopping /\ s.timed
    BY DEF Stopping, GenerationAssumption
  <2> HIDE DEF s
  <2>4. Criteria # {}
    <3> DEFINE M == {"preview", "worker"}
               B == BOOLEAN
               S == {t \in Stopping : t.sentences > 0 \/ t.iterations > 0 \/ t.timed}
               Asked(m, l, e, u) == [mode |-> m, listed |-> l, draw |-> e, stop |-> u]
               R == {Asked(m, l, e, u) : m \in M, l \in B, e \in Draws, u \in S}
    <3>1. "worker" \in M /\ TRUE \in B /\ s \in S /\ d \in Draws
      BY <2>3
    <3>2. R # {}
      <4> HIDE DEF Asked, S, M, B
      <4>1. ASSUME NEW m \in M, NEW l \in B, NEW e \in Draws, NEW u \in S
            PROVE  Asked(m, l, e, u) \in R
        OBVIOUS
      <4> HIDE DEF R
      <4> QED
        BY <3>1, <4>1
    <3>3. R = Criteria
      BY DEF Criteria
    <3> HIDE DEF Asked, R
    <3> QED
      BY <3>2, <3>3
  <2>5. criteria = CHOOSE c \in Criteria : TRUE
    BY DEF GenerationInit
  <2> QED
    BY <2>4, <2>5
<1>2. PoolTrue /\ RankedTrue
  BY DEF GenerationInit, PoolTrue, RankedTrue
<1>3. AcceptedTrue
  BY NothingAccepted DEF GenerationInit
<1>4. LoopTrue /\ MessagesTrue
  BY DEF GenerationInit, LoopTrue, MessagesTrue
<1> QED
  BY <1>1, <1>2, <1>3, <1>4 DEF GenerationInit, GenerationInv, GenerationPhases

(* GenerationInv is inductive. *)
LEMMA GenerationSteps ==
    ASSUME GenerationAssumption, GenerationInv, [GenerationNext]_generationVars
    PROVE  GenerationInv'
<1>1. CASE UNCHANGED generationVars
  <2>1. PoolTrue' /\ RankedTrue' /\ AcceptedTrue'
    BY <1>1, PoolKept, RankingKept, AcceptedKept DEF generationVars, GenerationInv
  <2>2. Criteria' = Criteria /\ Bounded' = Bounded /\ Stride' = Stride /\ Budget' = Budget
    BY <1>1, SameRequest DEF generationVars
  <2>3. LoopTrue'
    BY <1>1 DEF generationVars, GenerationInv, LoopTrue
  <2>4. ASSUME NEW m \in Nat, CandidatesTold(m) PROVE CandidatesTold(m)'
    BY <1>1, <2>2, <2>4 DEF generationVars, CandidatesTold
  <2>5. MessagesTrue'
    BY <1>1, <2>2, <2>4 DEF generationVars, GenerationInv, MessagesTrue
  <2> QED
    BY <1>1, <2>1, <2>2, <2>3, <2>5 DEF generationVars, GenerationInv
<1>2. CASE GenerationNext
  BY <1>2, RequestKeeps, RefusalsKeep, ValidateKeeps, PrepareKeeps, DrawKeeps, AcceptKeeps,
     LoopEndsKeeps, EngineFailsKeeps, StagingKeeps, DeadlineKeeps DEF GenerationNext
<1> QED
  BY <1>1, <1>2

(* GenerationSound for any repository, whose rows may share texts, any      *)
(* ranking and any limits: the id an accepted sentence carries is of a row  *)
(* with its text, no row is accepted twice, the gains add up to what is     *)
(* covered (mark_source_used, _SourceAwareScorer.rank, score_and_commit),   *)
(* and the stride leaves room for every message of a request that bounds    *)
(* its candidates (candidate_stride and publish of the durable handler).    *)
THEOREM GenerationStaysSound ==
    GenerationSpec => []GenerationSound
<1>1. GenerationInv => SourcesTrue
  <2> SUFFICES ASSUME AcceptedTrue PROVE SourcesTrue
    BY DEF GenerationInv
  <2>1. GainSum(accepted) = Cardinality(CoveredUnits)
    BY DEF AcceptedTrue
  <2>2. MapThenSumSet(LAMBDA i : accepted[i].gain, DOMAIN accepted) = Cardinality(CoveredUnits)
    BY <2>1 DEF GainSum
  <2>3. \A i \in DOMAIN accepted : Pool[accepted[i].row] = accepted[i].text
    BY DEF AcceptedTrue
  <2>4. \A i, j \in DOMAIN accepted : accepted[i].row = accepted[j].row => i = j
    BY DEF AcceptedTrue
  <2>5. IsInjective([i \in DOMAIN accepted |-> accepted[i].row])
    BY <2>4 DEF IsInjective
  <2> QED
    BY <2>2, <2>3, <2>5 DEF SourcesTrue
<1>2. GenerationInv => ProgressFits
  BY DEF GenerationInv, MessagesTrue, Bounded, ProgressFits
<1>3. GenerationInv => GenerationSound
  BY <1>1, <1>2 DEF GenerationSound
<1>4. GenerationInv /\ [GenerationNext]_generationVars => GenerationInv'
  BY GenerationSteps, GenerationAssumption
<1>5. GenerationInit => GenerationInv
  BY GenerationStarts, GenerationAssumption
<1> QED
  BY <1>3, <1>4, <1>5, PTL DEF GenerationSpec

-----------------------------------------------------------------------------
(* Types *)

(* Iterations and messages within the limits of an execution *)
WithinLimits ==
    /\ rounds \in 0..(IterationLimit + IterationBound)
    /\ messages \in 0..MessageLimit

(* No message is numbered past the limit. *)
LEMMA MessagesCounted ==
    ASSUME WithinLimits,
           \/ \E next : PublishProgress(next)
           \/ \E code : FailWith(code)
    PROVE  messages' \in 0..MessageLimit
  BY GenerationAssumption DEF WithinLimits, PublishProgress, FailWith, GenerationAssumption

(* Only a round and a message count, and both below their limits. *)
LEMMA LimitsStep ==
    ASSUME GenerationInv, WithinLimits, [GenerationNext]_generationVars
    PROVE  WithinLimits'
<1>1. CASE UNCHANGED <<rounds, messages>>
  BY <1>1 DEF WithinLimits
<1>2. CASE Request
  BY <1>2, GenerationAssumption DEF Request, WithinLimits, GenerationAssumption
<1>3. CASE Draw
  <2>1. criteria.stop.iterations \in 0..IterationLimit
    BY DEF GenerationInv, Criteria, Stopping
  <2>2. rounds' = rounds + 1 /\ messages' = messages
        /\ rounds < IF criteria.stop.iterations > 0 THEN criteria.stop.iterations ELSE IterationBound
    BY <1>3 DEF Draw
  <2> QED
    BY <2>1, <2>2, GenerationAssumption DEF WithinLimits, GenerationAssumption
<1>4. CASE Accept
  <2>1. rounds' = rounds /\ (PublishProgress("looping") \/ UNCHANGED messages)
    BY <1>4 DEF Accept
  <2> QED
    BY <2>1, MessagesCounted DEF WithinLimits
<1>5. CASE LoopEnds
  <2>1. /\ rounds' = rounds
        /\ \/ FailWith("engine_contract_violation") \/ UNCHANGED messages
           \/ PublishProgress("staging")
    BY <1>5 DEF LoopEnds
  <2> QED
    BY <2>1, MessagesCounted DEF WithinLimits
<1>6. CASE Refuse \/ Validate \/ Prepare \/ EngineFails \/ StageGenerated \/ StagingFails
  <2>1. rounds' = rounds /\ ((\E next : PublishProgress(next)) \/ (\E code : FailWith(code)))
    BY <1>6 DEF Refuse, Validate, Prepare, EngineFails, StageGenerated, StagingFails
  <2> QED
    BY <2>1, MessagesCounted DEF WithinLimits
<1>7. CASE DeadlineKills
  BY <1>7, GenerationAssumption DEF DeadlineKills, WithinLimits, GenerationAssumption
<1>8. CASE ReturnClaim
  BY <1>8, <1>1 DEF ReturnClaim
<1> QED
  BY <1>1, <1>2, <1>3, <1>4, <1>5, <1>6, <1>7, <1>8 DEF GenerationNext, generationVars

(* The engine's pool and the row ids stay of one length, a loop never runs *)
(* more iterations than its request or the limits of the service allow,    *)
(* and no message is numbered past the limit (mark_source_used, publish).  *)
THEOREM GenerationTypesKept == GenerationSpec => []GenerationTypeOK
<1>1. GenerationInit => GenerationInv /\ WithinLimits
  <2>1. GenerationInit => WithinLimits
    BY GenerationAssumption DEF GenerationInit, WithinLimits, GenerationAssumption
  <2> QED
    BY <2>1, GenerationStarts, GenerationAssumption
<1>2. GenerationInv /\ WithinLimits /\ [GenerationNext]_generationVars => GenerationInv' /\ WithinLimits'
  BY GenerationSteps, LimitsStep, GenerationAssumption
<1>3. GenerationInv /\ WithinLimits => GenerationTypeOK
  BY DEF GenerationInv, WithinLimits, GenerationTypeOK, GenerationPhases, PoolTrue
<1> QED
  BY <1>1, <1>2, <1>3, PTL DEF GenerationSpec
=============================================================================
