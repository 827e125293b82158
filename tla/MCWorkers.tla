------------------------------ MODULE MCWorkers ------------------------------
(***************************************************************************)
(* Instances of the components of a worker for TLC.  They share no state:  *)
(* a behaviour exercises one of them, and one run visits them all.         *)
(***************************************************************************)
EXTENDS ModelRuntime, DatgIndexes, ChildProcess, RepositoryGeneration,
        TrustedInputs, PhonRl, WorkerFleet, TLC

CONSTANTS
    x1, x2,                     \* ModelRuntime
    t1, t2, t3, g1, p1, h1, h2, \* TrustedInputs
    w1, w2, w3, u1, u2          \* WorkerFleet

Asked(kind, adapter, prompt, requests, tokens, retries, iterations) ==
    [kind |-> kind, adapter |-> adapter, prompt |-> prompt, calls |-> requests,
     tokens |-> tokens, retries |-> retries, iterations |-> iterations]
MCHosted == Asked("hosted", FALSE, 1, 3, 4, 1, 1)
MCRequests == {MCHosted, Asked("hosted", FALSE, 1, 2, 9, 0, 0), Asked("hosted", FALSE, 2, 1, 2, 0, 1),
               Asked("local", TRUE, 1, 1, 2, 0, 1), Asked("analysis", FALSE, 1, 1, 2, 0, 0)}
MCCovers == x1 :> {1} @@ x2 :> {1, 2}

MCHome == [b1 |-> "p1", b2 |-> "p2"]
MCKey == [b1 |-> "k1", b2 |-> "k1"]
MCRuntime == [b1 |-> "r1", b2 |-> "r2"]
MCRaw == {[t1 |-> {"a", "a-b"}, t2 |-> {"a", "b"}], [t1 |-> {"a-b"}, t2 |-> {"b"}]}
MCLevel == "a" :> 0 @@ "b" :> 0 @@ "a-b" :> 1
MCKeyLevel == [k1 |-> 0]

MCPool == <<"a", "b", "a", "c", "d", "e">>
MCUnits == [a |-> {1}, b |-> {1, 2}, c |-> {3}, d |-> {3, 4}, e |-> {5}]

MCProject == t1 :> "A" @@ t2 :> "B" @@ t3 :> "A" @@ g1 :> "A" @@ p1 :> "A"
MCPin == t1 :> "m" @@ t2 :> "m" @@ t3 :> "m" @@ g1 :> "m"
MCPrompts == t1 :> p1 @@ t2 :> p1 @@ t3 :> p1
MCDigest == <<("m" :> "d1"), ("m" :> "d1")>>
MCAllowed == <<{"m"}, {"m"}>>

MCSteps == 1..14
MCSounds == <<{1, 2}, {2, 3}, {3}>>

MCProfile == w1 :> "external-provider" @@ w2 :> "gpu-inference" @@ w3 :> "batch-cpu"
Entry(cap) == [cap |-> cap, id |-> 1]
MCPolicies == {Entry("hosted"), Entry("repository"), Entry("local"), Entry("datg")}
MCNoPolicy == [cap |-> "none", id |-> 0]
Deployed(entries) ==
    [policies |-> entries, roots |-> entries \cap {Entry("local"), Entry("datg")} # {},
     budget |-> TRUE, image |-> TRUE, adoption |-> TRUE, deployed |-> TRUE, publish |-> FALSE]
MCOffered == {Deployed({}), Deployed(MCPolicies), Deployed({Entry("hosted")}),
              Deployed({Entry("hosted"), Entry("repository")}), Deployed({Entry("local")}),
              [Deployed({Entry("datg")}) EXCEPT !.publish = TRUE],
              [Deployed({Entry("hosted"), Entry("repository")}) EXCEPT !.image = FALSE],
              [Deployed({Entry("local"), Entry("datg")}) EXCEPT !.image = FALSE, !.deployed = FALSE]}
MCKind == u1 :> "generate-llm" @@ u2 :> "perplexity"
MCNeed == u1 :> Entry("hosted") @@ u2 :> Entry("local")

VARIABLE service   \* the component that is exercised

Services == {"models", "datg", "child", "generation", "inputs",
             "training", "fleet"}

suiteVars == <<service, runtimeVars, datgVars, childVars, generationVars,
              trustedVars, phonRlVars, fleetVars>>

(* Components that are not exercised stay in one initial state. *)
Init ==
    /\ service \in Services
    /\ RuntimeInit /\ (service = "models" \/ (wanted = MCHosted))
    /\ DatgInit
    /\ ChildInit
    /\ GenerationInit
    /\ TrustedInit
    /\ PhonRlInit
    /\ FleetInit /\ (service = "fleet" \/ (allowlists = [a \in Apis |-> {}]))

(* Variables the components of a suite do not share *)
ModelsStep ==
    /\ service = "models" /\ RuntimeNext
    /\ UNCHANGED <<service, datgVars, childVars, generationVars, trustedVars,
                        phonRlVars, fleetVars>>

DatgStep ==
    /\ service = "datg" /\ DatgNext
    /\ UNCHANGED <<service, runtimeVars, childVars, generationVars,
                        trustedVars, phonRlVars, fleetVars>>

ChildStep ==
    /\ service = "child" /\ ChildNext
    /\ UNCHANGED <<service, runtimeVars, datgVars, generationVars,
                        trustedVars, phonRlVars, fleetVars>>

GenerationStep ==
    /\ service = "generation" /\ GenerationNext
    /\ UNCHANGED <<service, runtimeVars, datgVars, childVars, trustedVars,
                        phonRlVars, fleetVars>>

InputsStep ==
    /\ service = "inputs" /\ TrustedNext
    /\ UNCHANGED <<service, runtimeVars, datgVars, childVars, generationVars,
                        phonRlVars, fleetVars>>

TrainingStep ==
    /\ service = "training" /\ PhonRlNext
    /\ UNCHANGED <<service, runtimeVars, datgVars, childVars, generationVars,
                        trustedVars, fleetVars>>

FleetStep ==
    /\ service = "fleet" /\ FleetNext
    /\ UNCHANGED <<service, runtimeVars, datgVars, childVars, generationVars,
                        trustedVars, phonRlVars>>

Next ==
    \/ ModelsStep
    \/ DatgStep
    \/ ChildStep
    \/ GenerationStep
    \/ InputsStep
    \/ TrainingStep
    \/ FleetStep

Spec == Init /\ [][Next]_suiteVars

(* The component that is exercised keeps its types. *)
WorkerTypeOK ==
    CASE service = "models" -> RuntimeTypeOK [] service = "datg" -> DatgTypeOK
      [] service = "child" -> ChildTypeOK    [] service = "generation" -> GenerationTypeOK
      [] service = "inputs" -> TrustedTypeOK [] service = "training" -> PhonRlTypeOK
      [] service = "fleet" -> FleetTypeOK

(* Hosts are interchangeable: no definition chooses one. *)
MCSymmetry == Permutations({h1, h2})
=============================================================================
