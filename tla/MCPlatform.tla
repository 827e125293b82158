----------------------------- MODULE MCPlatform -----------------------------
(***************************************************************************)
(* Instances of the components behind the API and of the operators'        *)
(* commands for TLC.  They share no state: a behaviour exercises one of    *)
(* them, and one run visits them all.                                      *)
(***************************************************************************)
EXTENDS RateLimits, Workspaces, Reproducibility, Authentication, HttpApi,
        ObjectStores, PostgresContinuity, Migrations, PhoibleSnapshot,
        MaintenanceBatch, WebSession, TLC

CONSTANTS
    r1, r2, s1,                 \* RateLimits
    t1, t2, c1, c2,             \* Workspaces
    i1, i2, w1, w2,             \* Reproducibility
    e1, e2,                     \* HttpApi
    u1, u2,                     \* ObjectStores
    m1, m2,                     \* Migrations
    p1, p2,                     \* PhoibleSnapshot
    q1, q2                      \* WebSession

MCLimit == s1 :> 1
MCSize == c1 :> 1 @@ c2 :> 2
MCVersion == i1 :> "v1" @@ i2 :> "v1"
MCClass == i1 :> "exact" @@ i2 :> "best_effort"
MCImage == w1 :> i1 @@ w2 :> i2
MCRelations == [b1 |-> {"alembic_version", "runs"}, b2 |-> {"alembic_version", "runs", "audit"}]
MCOffers == [kind : {"file"}, length : 1..3, right : BOOLEAN]

VARIABLE service   \* the component that is exercised

Services == {"rates", "workspaces", "manifests", "authentication",
             "http", "objects", "continuity", "migrations", "phoible",
             "maintenance", "sessions"}

suiteVars == <<service, rateVars, workspaceVars, reproVars, authVars, httpVars,
              objectVars, continuityVars, migrationVars, snapshotVars,
              batchVars, webVars>>

(* Components that are not exercised stay in one initial state. *)
Init ==
    /\ service \in Services
    /\ RateInit
    /\ WorkspaceInit
    /\ ReproInit
    /\ AuthInit /\ (service = "authentication" \/ (~provider.planned))
    /\ HttpInit /\ (service = "http" \/ (\A c \in Checks : machine[c]))
    /\ ObjectsInit /\ (service = "objects" \/ (backend = "s3"))
    /\ ContinuityInit /\ (service = "continuity" \/ (target = {}))
    /\ MigrationsInit /\ (service = "migrations" \/ (catalog.revision = 0 /\ ownerSees))
    /\ SnapshotInit /\ (service = "phoible" \/ (snapshot = Pinned))
    /\ BatchInit
    /\ WebInit

(* Variables the components of a suite do not share *)
RatesStep ==
    /\ service = "rates" /\ RateNext
    /\ UNCHANGED <<service, workspaceVars, reproVars, authVars, httpVars,
                        objectVars, continuityVars, migrationVars,
                        snapshotVars, batchVars, webVars>>

WorkspacesStep ==
    /\ service = "workspaces" /\ WorkspaceNext
    /\ UNCHANGED <<service, rateVars, reproVars, authVars, httpVars,
                        objectVars, continuityVars, migrationVars,
                        snapshotVars, batchVars, webVars>>

ManifestsStep ==
    /\ service = "manifests" /\ ReproNext
    /\ UNCHANGED <<service, rateVars, workspaceVars, authVars, httpVars,
                        objectVars, continuityVars, migrationVars,
                        snapshotVars, batchVars, webVars>>

AuthenticationStep ==
    /\ service = "authentication" /\ AuthNext
    /\ UNCHANGED <<service, rateVars, workspaceVars, reproVars, httpVars,
                        objectVars, continuityVars, migrationVars,
                        snapshotVars, batchVars, webVars>>

HttpStep ==
    /\ service = "http" /\ HttpNext
    /\ UNCHANGED <<service, rateVars, workspaceVars, reproVars, authVars,
                        objectVars, continuityVars, migrationVars,
                        snapshotVars, batchVars, webVars>>

ObjectsStep ==
    /\ service = "objects" /\ ObjectsNext
    /\ UNCHANGED <<service, rateVars, workspaceVars, reproVars, authVars,
                        httpVars, continuityVars, migrationVars,
                        snapshotVars, batchVars, webVars>>

ContinuityStep ==
    /\ service = "continuity" /\ ContinuityNext
    /\ UNCHANGED <<service, rateVars, workspaceVars, reproVars, authVars,
                        httpVars, objectVars, migrationVars,
                        snapshotVars, batchVars, webVars>>

MigrationsStep ==
    /\ service = "migrations" /\ MigrationsNext
    /\ UNCHANGED <<service, rateVars, workspaceVars, reproVars, authVars,
                        httpVars, objectVars, continuityVars,
                        snapshotVars, batchVars, webVars>>

PhoibleStep ==
    /\ service = "phoible" /\ SnapshotNext
    /\ UNCHANGED <<service, rateVars, workspaceVars, reproVars, authVars,
                        httpVars, objectVars, continuityVars,
                        migrationVars, batchVars, webVars>>

MaintenanceStep ==
    /\ service = "maintenance" /\ BatchNext
    /\ UNCHANGED <<service, rateVars, workspaceVars, reproVars, authVars,
                        httpVars, objectVars, continuityVars,
                        migrationVars, snapshotVars, webVars>>

SessionsStep ==
    /\ service = "sessions" /\ WebNext
    /\ UNCHANGED <<service, rateVars, workspaceVars, reproVars, authVars,
                        httpVars, objectVars, continuityVars,
                        migrationVars, snapshotVars, batchVars>>

Next ==
    \/ RatesStep
    \/ WorkspacesStep
    \/ ManifestsStep
    \/ AuthenticationStep
    \/ HttpStep
    \/ ObjectsStep
    \/ ContinuityStep
    \/ MigrationsStep
    \/ PhoibleStep
    \/ MaintenanceStep
    \/ SessionsStep

Spec == Init /\ [][Next]_suiteVars

(* The component that is exercised keeps its types. *)
PlatformTypeOK ==
    CASE service = "rates" -> RateTypeOK           [] service = "workspaces" -> WorkspaceTypeOK
      [] service = "manifests" -> ReproTypeOK      [] service = "authentication" -> AuthTypeOK
      [] service = "http" -> HttpTypeOK            [] service = "objects" -> ObjectsTypeOK
      [] service = "continuity" -> ContinuityTypeOK
      [] service = "migrations" -> MigrationsTypeOK
      [] service = "phoible" -> SnapshotTypeOK     [] service = "maintenance" -> BatchTypeOK
      [] service = "sessions" -> WebTypeOK

(* Bound: one listing, with one user of the object store beside it; without  *)
(* a listing, all users at once.                                            *)
MCBound ==
    service = "objects" =>
        /\ listing.at # "listed"
        /\ listing.at = "idle" \/ Cardinality({u \in Users : user[u].at # "idle"}) < 2
=============================================================================
