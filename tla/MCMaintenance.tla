---------------------------- MODULE MCMaintenance ----------------------------
(***************************************************************************)
(* What the maintenance job must bring about, for TLC: the artifacts and   *)
(* objects of a project, and the scan of the staging area.  The two share  *)
(* no state: a behaviour exercises one of them.                            *)
(***************************************************************************)
EXTENDS ArtifactStorage, MaintenanceBatch

CONSTANTS u, r, w1

VARIABLE service   \* the part that is exercised

MCUploads == {u}
MCResults == {r}
MCOneWriter == {w1}

maintenanceVars == <<service, vars, batchVars>>

MCInit == service \in {"artifacts", "staging"} /\ Init /\ BatchInit

OnArtifacts(A) == service = "artifacts" /\ A /\ UNCHANGED <<service, batchVars>>
OnStaging(A) == service = "staging" /\ A /\ UNCHANGED <<service, vars>>

MCNext == OnArtifacts(Next) \/ OnStaging(BatchNext)

(* The fairness of the two parts (Fairness of ArtifactStorage, the batch   *)
(* that is scheduled and whose steps cease to fail).                       *)
MCFairness ==
    /\ \A w \in Writers : WF_maintenanceVars(OnArtifacts(WriterStep(w)))
    /\ \A k \in Keys : /\ SF_maintenanceVars(OnArtifacts(Age(k)))
                       /\ SF_maintenanceVars(OnArtifacts(EndRetention(k)))
    /\ SF_maintenanceVars(OnArtifacts(EndProjectRetention))
    /\ WF_maintenanceVars(OnArtifacts(JobStep)) /\ WF_maintenanceVars(OnArtifacts(TroubleEnds))
    /\ \A j \in Jobs : WF_maintenanceVars(OnStaging(JobStepOf(j)))
    /\ WF_maintenanceVars(OnStaging(FailuresEnd))

MCSpec == MCInit /\ [][MCNext]_maintenanceVars /\ MCFairness
=============================================================================
