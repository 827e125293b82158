---------------------------- MODULE WorkerFleet ----------------------------
(***************************************************************************)
(* API replicas and workers of one deployment (services/run_admission.py,  *)
(* worker/routing.py, worker/composition.py, worker/runtime.py): the API   *)
(* admits a run against its own allowlists, the kind decides the queue,    *)
(* and a worker of that queue composes its handlers from its own settings  *)
(* and checks the run again.  Settings are fixed for a process and are     *)
(* rolled out one process at a time, so an admitted run may meet workers   *)
(* that know more, less or something else than the API that admitted it.   *)
(***************************************************************************)
EXTENDS Integers, FiniteSets

CONSTANTS
    Apis, FleetWorkers, Runs,
    ProfileOf,      \* worker_profile of a worker, which is its task queue too
    KindOf,         \* RunKind of a run
    NeedOf,         \* allowlist entry a run selects, or NoPolicy
    Policies,       \* allowlist entries, [cap, id]
    Offered,        \* settings the operators deploy
    NoPolicy

Core == {"phonemize", "evaluate", "distribution", "trajectory", "error-rates", "select"}
RunKinds == Core \cup {"build-datg-index", "generate-repository", "generate-llm", "generate-local",
                    "perplexity", "generate-datg", "train-phon-rl", "export"}
Profiles == {"batch-cpu", "external-provider", "gpu-inference", "gpu-training"}
Capabilities == {"hosted", "repository", "local", "datg", "phon-rl"}

(* capability whose allowlist a kind selects from *)
Capability(kind) ==
    CASE kind = "generate-llm" -> "hosted"
      [] kind = "generate-repository" -> "repository"
      [] kind \in {"generate-local", "perplexity"} -> "local"
      [] kind \in {"build-datg-index", "generate-datg"} -> "datg"
      [] kind = "train-phon-rl" -> "phon-rl"
      [] OTHER -> "none"

(* Only local raw or pre-phonemized repositories need no entry *)
Selects(kind, need) ==
    \/ need # NoPolicy /\ need.cap = Capability(kind)
    \/ need = NoPolicy /\ kind \in Core \cup {"generate-repository", "export"}

ASSUME FleetAssumption ==
    /\ IsFiniteSet(FleetWorkers)
    /\ ProfileOf \in [FleetWorkers -> Profiles]
    /\ \A p \in Policies : p.cap \in Capabilities
    /\ KindOf \in [Runs -> RunKinds]
    /\ \A r \in Runs : Selects(KindOf[r], NeedOf[r]) /\ NeedOf[r] \in Policies \cup {NoPolicy}
    /\ \A s \in Offered : s.policies \subseteq Policies

VARIABLES
    allowlists,     \* entries an API replica was started with
    fleet,         \* settings of a running worker, or Down
    run,            \* state, queue, worker and recorded facts of a run
    met             \* history: settings of the workers a run's queue had since its admission

fleetVars == <<allowlists, fleet, run, met>>

Down == [up |-> FALSE]
NoFacts == [policies |-> {}, roots |-> FALSE, recorded |-> FALSE]
NewRun == [state |-> "new", queue |-> "none", at |-> "none", facts |-> NoFacts, under |-> NoFacts]

FleetInit ==
    /\ \E s \in Offered : allowlists = [a \in Apis |-> s.policies]
    /\ fleet = [w \in FleetWorkers |-> Down]
    /\ run = [r \in Runs |-> NewRun]
    /\ met = [r \in Runs |-> {}]

-----------------------------------------------------------------------------
(* Routing and admission. *)

PROFILE_RUN_KINDS == [p \in Profiles |->
    CASE p = "batch-cpu" -> Core \cup {"build-datg-index"}
      [] p = "external-provider" -> {"generate-repository", "generate-llm"}
      [] p = "gpu-inference" -> {"generate-local", "perplexity", "generate-datg"}
      [] p = "gpu-training" -> {"train-phon-rl"}]

TaskQueueForKind(kind) == CHOOSE p \in Profiles : kind \in PROFILE_RUN_KINDS[p]

(* the policy objects the API and the workers share *)
Permits(policies, r) == NeedOf[r] = NoPolicy \/ NeedOf[r] \in policies

(* ConfiguredRunAdmission.validate *)
Admits(policies, r) == KindOf[r] # "export" /\ Permits(policies, r)

Submit(r, a) ==
    /\ run[r].state = "new" /\ Admits(allowlists[a], r)
    /\ run' = [run EXCEPT ![r].state = "submitted"]
    /\ met' = [met EXCEPT ![r] =
         {fleet[w] : w \in {v \in FleetWorkers : fleet[v].up /\ ProfileOf[v] = TaskQueueForKind(KindOf[r])}}]
    /\ UNCHANGED <<allowlists, fleet>>

(* The dispatcher starts the workflow on the kind's queue *)
Dispatch(r) ==
    /\ run[r].state = "submitted"
    /\ run' = [run EXCEPT ![r].state = "queued", ![r].queue = TaskQueueForKind(KindOf[r])]
    /\ UNCHANGED <<allowlists, fleet, met>>

-----------------------------------------------------------------------------
(* What a worker is composed of. *)

Capable(s) == {p.cap : p \in s.policies}

CoreHandlers == Core
ModelHandlers(profile) ==
    IF profile = "external-provider" THEN {"generate-llm"} ELSE {"generate-local", "perplexity"}
DatgHandlers(profile) ==
    IF profile = "batch-cpu" THEN {"build-datg-index"} ELSE {"generate-datg"}
PhonRlHandlers == {"train-phon-rl"}

(* _reject_irrelevant_policies *)
Relevant(profile) ==
    CASE profile = "batch-cpu" -> {"datg"}
      [] profile = "external-provider" -> {"hosted", "repository"}
      [] profile = "gpu-inference" -> {"local", "datg"}
      [] profile = "gpu-training" -> {"phon-rl"}

(* _read_only_root, _phon_rl_roots: the mounts a model needs *)
RootsProvided(profile, s) ==
    Capable(s) \ {"hosted", "repository"} # {} => s.roots

(* _require_artifact_budget: every result that stages an artifact fits *)
BudgetFits(profile, s) ==
    profile \in {"batch-cpu", "external-provider", "gpu-training"} \/ "datg" \in Capable(s) => s.budget

(* build_profile_handler_registry *)
Handlers(profile, s) ==
    CASE profile = "batch-cpu" ->
           CoreHandlers \cup (IF "datg" \in Capable(s) THEN DatgHandlers(profile) ELSE {})
      [] profile = "external-provider" ->
           {"generate-repository"} \cup (IF "hosted" \in Capable(s) THEN ModelHandlers(profile) ELSE {})
      [] profile = "gpu-inference" ->
           (IF "local" \in Capable(s) THEN ModelHandlers(profile) ELSE {})
             \cup (IF "datg" \in Capable(s) THEN DatgHandlers(profile) ELSE {})
      [] profile = "gpu-training" -> PhonRlHandlers

(* every profile but the batch one is for something *)
Composes(profile, s) ==
    /\ Capable(s) \subseteq Relevant(profile)
    /\ profile = "batch-cpu" \/ Capable(s) # {}
    /\ RootsProvided(profile, s) /\ BudgetFits(profile, s)

(* Mutant: the image may stay unknown. *)
ImageIdentified_Any(s) == TRUE

(* _validate_image_identity *)
ImageIdentified(s) == s.deployed => s.image

(* Settings and _adoption_database: results are adopted under another role *)
AdoptionSeparate(s) == s.deployed => s.adoption

(* _datg_index_publisher *)
PublishesWhereBuilt(profile, s) ==
    s.publish <=> profile = "batch-cpu" /\ "datg" \in Capable(s)

(* corpuskit-worker: a process that fails a check does not start *)
Start(w, s) ==
    /\ ~fleet[w].up
    /\ Composes(ProfileOf[w], s) /\ ImageIdentified(s) /\ AdoptionSeparate(s)
    /\ PublishesWhereBuilt(ProfileOf[w], s)
    /\ fleet' = [fleet EXCEPT ![w] = [up |-> TRUE, s |-> s]]
    /\ met' = [r \in Runs |->
         IF run[r].state \notin {"new", "succeeded", "failed"} /\ TaskQueueForKind(KindOf[r]) = ProfileOf[w]
         THEN met[r] \cup {[up |-> TRUE, s |-> s]} ELSE met[r]]
    /\ UNCHANGED <<allowlists, run>>

(* A stopped or killed worker's runs are tried again *)
Stop(w) ==
    /\ fleet[w].up
    /\ fleet' = [fleet EXCEPT ![w] = Down]
    /\ run' = [r \in Runs |-> IF run[r].at = w /\ run[r].state = "running"
                              THEN [run[r] EXCEPT !.state = "queued", !.at = "none"] ELSE run[r]]
    /\ UNCHANGED <<allowlists, met>>

(* An API replica is replaced *)
Replace(a, s) ==
    /\ allowlists' = [allowlists EXCEPT ![a] = s.policies]
    /\ UNCHANGED <<fleet, run, met>>

-----------------------------------------------------------------------------
(* Execution. *)

(* worker_policy_sha256 *)
Facts(s) == [policies |-> s.policies, roots |-> s.roots, recorded |-> TRUE]

(* _operation_facts applies the worker's own policy, record_execution       *)
(* refuses facts other than those an earlier attempt recorded               *)
Recordable(r, s) ==
    Permits(s.policies, r) /\ run[r].facts \in {NoFacts, Facts(s)}

Finished(r, at, s) ==
    [run EXCEPT ![r].state = at, ![r].at = "none",
                ![r].under = IF at = "succeeded" THEN Facts(s) ELSE NoFacts]

BeginRun(r, w) ==
    LET s == fleet[w].s
    IN  /\ run[r].state = "queued" /\ fleet[w].up /\ ProfileOf[w] = run[r].queue
        /\ run' = IF s.image /\ ~Recordable(r, s) THEN Finished(r, "failed", s)
                  ELSE [run EXCEPT ![r].state = "running", ![r].at = w,
                                   ![r].facts = IF s.image THEN Facts(s) ELSE @]
        /\ UNCHANGED <<allowlists, fleet, met>>

(* The child: HandlerRegistry.execute and the coordinator's own policy *)
Compute(r) ==
    LET w == run[r].at  s == fleet[w].s
        handled == KindOf[r] \in Handlers(ProfileOf[w], s) /\ Permits(s.policies, r)
    IN  /\ run[r].state = "running"
        /\ run' = Finished(r, IF handled THEN "succeeded" ELSE "failed", s)
        /\ UNCHANGED <<allowlists, fleet, met>>

FleetNext ==
    \/ \E r \in Runs, a \in Apis : Submit(r, a)
    \/ \E r \in Runs : Dispatch(r) \/ Compute(r)
    \/ \E r \in Runs, w \in FleetWorkers : BeginRun(r, w)
    \/ \E w \in FleetWorkers, s \in Offered : Start(w, s)
    \/ \E w \in FleetWorkers : Stop(w)
    \/ \E a \in Apis, s \in Offered : Replace(a, s)

-----------------------------------------------------------------------------
(* Properties. *)

FleetTypeOK ==
    /\ \A a \in Apis : allowlists[a] \subseteq Policies
    /\ \A w \in FleetWorkers : fleet[w] = Down \/ (fleet[w].up /\ fleet[w].s \in Offered)
    /\ \A r \in Runs :
          /\ run[r].state \in {"new", "submitted", "queued", "running", "succeeded", "failed"}
          /\ run[r].queue \in Profiles \cup {"none"} /\ run[r].at \in FleetWorkers \cup {"none"}
          /\ run[r].facts.policies \subseteq Policies /\ run[r].under.policies \subseteq Policies
          /\ \A m \in met[r] : m.s \in Offered

(* Admission, routing and composition agree: a run that an API admitted and *)
(* whose queue, since then, only had workers of one settings that hold the  *)
(* entry it selects, is never refused by them (ConfiguredRunAdmission,      *)
(* PROFILE_RUN_KINDS, build_profile_handler_registry, _operation_facts; ADR *)
(* 0006).                                                                   *)
AdmittedRunsExecute ==
    \A r \in Runs : run[r].state = "failed" =>
        \/ Cardinality(met[r]) > 1
        \/ \E m \in met[r] : ~Permits(m.s.policies, r)

(* A result a deployed worker computed is one whose facts were recorded     *)
(* first, and the recorded policy is the policy it was computed under,      *)
(* however many workers with other settings tried the run in between        *)
(* (_validate_image_identity, build_worker, _record_execution).             *)
ResultsHaveFacts ==
    \A r \in Runs : run[r].state = "succeeded" /\ (\A m \in met[r] : m.s.deployed) =>
        run[r].facts = run[r].under

(* The configuration of a fleet does not decide a run behind its owner's    *)
(* back: what was admitted executes, and what was computed is on record.    *)
FleetServes == AdmittedRunsExecute /\ ResultsHaveFacts
=============================================================================
