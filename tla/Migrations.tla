----------------------------- MODULE Migrations -----------------------------
(***************************************************************************)
(* The database schema and the commands that change it on PostgreSQL       *)
(* (persistence/alembic, persistence/migration_cli.py, persistence/        *)
(* models.py).                                                             *)
(*                                                                         *)
(* A schema object is a triple <<kind, table, name>>.  Every command runs  *)
(* in one transaction under an advisory lock that it gives back before it  *)
(* commits; artifacts are written beside it.  A revision is one step: the  *)
(* locks its statements take are held to the end of the command.           *)
(***************************************************************************)
EXTENDS Integers, Sequences, FiniteSets

CONSTANTS
    Migrators,      \* processes that run migration commands
    Targets,        \* revisions an operator may downgrade to
    OwnedScopes          \* project scopes that may hold an artifact of one digest

LatestRevision == 9

ASSUME MigrationsAssumption == Targets \subseteq 0 .. LatestRevision - 1 /\ IsFiniteSet(OwnedScopes)

VARIABLES
    catalog,        \* the committed revision, its objects, and quota_usages
    holders,        \* scopes holding a committed artifact of the digest
    ownerSees,      \* the schema owner is exempt from row-level security
    lockedBy,       \* the session that holds the advisory lock
    migrator        \* the commands and what they have not committed

migrationVars == <<catalog, holders, ownerSees, lockedBy, migrator>>

-----------------------------------------------------------------------------
(* The revisions: what each upgrade creates and each downgrade drops. *)

Table(names) == {<<"table", t, "rows">> : t \in names}
Columns(t, names) == {<<"columns", t, n>> : n \in names}
Policies(names, operations) ==
    {<<"security", t, "forced">> : t \in names}
        \cup {<<"policy", t, o>> : t \in names, o \in operations}
OfTables(names, objects) == {o \in objects : o[2] \in names}

TenancyTables == {"organizations", "users", "memberships", "projects", "corpora",
                  "corpus_versions"}
RunTables == {"runs", "sentences", "artifacts", "run_events"}
Baseline ==
    Table(TenancyTables \cup RunTables) \cup {<<"key", "artifacts", "organization">>}

JobOutbox == Table({"outbox_messages"}) \cup Columns("runs", {"lineage"})

ArtifactIntegrity ==
    Columns("artifacts", {"lifecycle"}) \cup {<<"key", "artifacts", "scope">>}

QuotaTables == {"quota_policies", "quota_usages", "quota_reservations"}
AuditTables == {"audit_heads", "audit_events"}
AuditImmutable ==
    {<<"function", "database", n>> : n \in {"is_current_member", "reject_audit_mutation"}}
        \cup {<<"trigger", "audit_events", "immutable">>}
UserPolicies == Policies({"users"}, {"select", "insert", "update"})
MembershipPolicies == Policies({"memberships"}, {"select", "insert", "update"})
OrganizationTables ==
    {"organizations", "projects", "corpora", "corpus_versions", "sentences", "runs",
     "run_events", "quota_usages", "quota_reservations", "outbox_messages", "artifacts"}
OrganizationPolicies == Policies(OrganizationTables, {"select", "insert", "update", "delete"})
PlatformPolicies == Policies({"quota_policies", "audit_heads"}, {"select", "insert", "update"})
EvidencePolicies == Policies({"audit_events"}, {"select", "insert"})
TenantControls ==
    UNION {Table(QuotaTables \cup AuditTables), AuditImmutable, UserPolicies,
           MembershipPolicies, OrganizationPolicies, PlatformPolicies, EvidencePolicies}

FactTables == {"run_execution_facts", "run_replays"}
FactTriggers ==
    {<<"function", "database", n>> : n \in {"guard_execution_fact", "guard_replay"}}
        \cup {<<"trigger", t, "immutable">> : t \in FactTables}
FactPolicies == Policies(FactTables, {"select", "insert", "update"})
ReproducibilityTables == UNION {Table(FactTables), FactTriggers, FactPolicies}

MaintenanceCursors ==
    Table({"maintenance_cursors"}) \cup Policies({"maintenance_cursors"}, {"all"})

DeletionPolicies ==
    {<<"policy", "projects", "maintenance_global_select">>}
        \cup {<<"policy", t, "maintenance_delete">> : t \in FactTables}
ProjectDeletion == Columns("projects", {"deletion"}) \cup DeletionPolicies

PublicationPolicies == Policies({"datg_index_publications"}, {"select", "insert", "delete"})
DatgPublications == Table({"datg_index_publications"}) \cup PublicationPolicies

WindowPolicies ==
    Policies({"api_rate_limit_windows"},
             {"api_select", "api_insert", "api_update", "maintenance_select",
              "maintenance_delete"})
RateLimitWindows == Table({"api_rate_limit_windows"}) \cup WindowPolicies

Creates == <<Baseline, JobOutbox, ArtifactIntegrity, TenantControls, ReproducibilityTables,
             MaintenanceCursors, ProjectDeletion, DatgPublications, RateLimitWindows>>

(* The unique key of artifacts is replaced; nothing else is dropped on the way up. *)
Replaces(r) == IF r = 3 THEN {<<"key", "artifacts", "organization">>} ELSE {}

DropBaseline(objects) == OfTables(TenancyTables \cup RunTables, objects)
DropOutbox(objects) == OfTables({"outbox_messages"}, objects) \cup Columns("runs", {"lineage"})
DropControls(objects) ==
    UNION {OfTables(QuotaTables \cup AuditTables, objects), AuditImmutable,
           {o \in OfTables(OrganizationTables \cup {"users", "memberships"}, objects) :
                \/ o[1] = "security"
                \/ o[1] = "policy" /\ o[3] \in {"select", "insert", "update", "delete"}}}
DropFacts(objects) ==
    OfTables(FactTables, objects) \cup {o \in FactTriggers : o[1] = "function"}
DropCursors(objects) == OfTables({"maintenance_cursors"}, objects)
DropDeletion(objects) == DeletionPolicies \cup Columns("projects", {"deletion"})
DropPublications(objects) == OfTables({"datg_index_publications"}, objects)
DropWindows(objects) == OfTables({"api_rate_limit_windows"}, objects)

Drops(objects, r) ==
    CASE r = 1 -> DropBaseline(objects)
      [] r = 2 -> DropOutbox(objects)
      [] r = 3 -> ArtifactIntegrity
      [] r = 4 -> DropControls(objects)
      [] r = 5 -> DropFacts(objects)
      [] r = 6 -> DropCursors(objects)
      [] r = 7 -> DropDeletion(objects)
      [] r = 8 -> DropPublications(objects)
      [] r = 9 -> DropWindows(objects)

(* The schema a database gets that is upgraded from nothing *)
Fresh[r \in 0 .. LatestRevision] ==
    IF r = 0 THEN {} ELSE (Fresh[r - 1] \ Replaces(r)) \cup Creates[r]

(* The tables of SQLAlchemy's metadata *)
RateLimitModel == {"api_rate_limit_windows"}
TenancyModels == {"organizations", "users", "memberships", "projects"}
CorpusModels == {"corpora", "corpus_versions", "sentences"}
RunModels == {"runs", "run_events", "outbox_messages", "artifacts"}
PublicationModels == {"datg_index_publications", "run_execution_facts", "run_replays"}
PlatformModels == {"quota_policies", "quota_usages", "quota_reservations", "audit_heads"}
EvidenceModels == {"audit_events", "maintenance_cursors"}
ModelTables ==
    UNION {RateLimitModel, TenancyModels, CorpusModels, RunModels, PublicationModels,
           PlatformModels, EvidenceModels}

TablesOf(objects) == {o[2] : o \in {p \in objects : p[1] = "table"}}

-----------------------------------------------------------------------------
IdleCommand == [at |-> "idle", kind |-> "none", to |-> 0, base |-> 0,
                view |-> [revision |-> 0, objects |-> {}, usage |-> 0]]

MigrationsInit ==
    /\ \E r \in {0, LatestRevision} : catalog = [revision |-> r, objects |-> Fresh[r], usage |-> 0]
    /\ holders = {}
    /\ ownerSees \in BOOLEAN
    /\ lockedBy = "none"
    /\ migrator = [p \in Migrators |-> IdleCommand]

OnlyMigrator(p, next) ==
    /\ migrator' = [migrator EXCEPT ![p] = next]
    /\ UNCHANGED <<holders, ownerSees>>

At(p, phase) == migrator[p].at = phase
Changed(p) == migrator[p].at \in {"stepping", "unlocked"}
              /\ migrator[p].view.revision # migrator[p].base

(* The two rows of one organization, digest and kind that revision 2 cannot hold *)
Collision == Cardinality(holders) > 1

(* Rows the schema owner's own query returns under forced security *)
RowsSeenAt(r) == r < 4 \/ ownerSees

(* run, _run_migrations: a transaction, then the lock or an error *)
BeginCommand(p) ==
    /\ At(p, "idle") /\ lockedBy = "none"
    /\ \E kind \in {"upgrade", "downgrade", "check", "current"}, to \in Targets \cup {LatestRevision} :
        /\ (kind = "downgrade") <=> (to # LatestRevision)
        /\ OnlyMigrator(p, [IdleCommand EXCEPT !.at = "locked", !.kind = kind, !.to = to])
    /\ lockedBy' = p
    /\ UNCHANGED catalog

(* Every error rolls the transaction back and frees the lock with the connection. *)
Abandon(p) ==
    /\ lockedBy' = IF lockedBy = p THEN "none" ELSE lockedBy
    /\ OnlyMigrator(p, IdleCommand)
    /\ UNCHANGED catalog

CrossesIdentity(p) ==
    migrator[p].kind = "downgrade" /\ catalog.revision >= 3 /\ migrator[p].to < 3

(* _preflight_downgrade: as the schema owner, before any revision *)
PreflightPasses(p) ==
    ~(CrossesIdentity(p) /\ Collision /\ RowsSeenAt(catalog.revision))

Preflight(p) ==
    /\ At(p, "locked")
    /\ IF PreflightPasses(p)
       THEN OnlyMigrator(p, [migrator[p] EXCEPT !.at = "checked"])
            /\ UNCHANGED <<catalog, lockedBy>>
       ELSE Abandon(p)

(* run_migrations reads the revision again; check fails behind head or on drift. *)
Answers(kind) ==
    kind = "check" =>
        catalog.revision = LatestRevision /\ TablesOf(catalog.objects) = ModelTables

PlanSteps(p) ==
    /\ At(p, "checked")
    /\ IF /\ Answers(migrator[p].kind)
          /\ migrator[p].kind = "downgrade" => migrator[p].to <= catalog.revision
       THEN /\ OnlyMigrator(p, [migrator[p] EXCEPT
                    !.at = "stepping", !.base = catalog.revision, !.view = catalog])
            /\ UNCHANGED <<catalog, lockedBy>>
       ELSE Abandon(p)

(* Schema locks are held to the end of a transaction. *)
WaitsForOther(p) == \E q \in Migrators \ {p} : Changed(q)

(* The backfill of revision 4 counts the rows as it finds them. *)
Upgraded(view) ==
    LET r == view.revision + 1 IN
    [revision |-> r,
     objects |-> (view.objects \ Replaces(r)) \cup Creates[r],
     usage |-> IF r = 4 THEN Cardinality(holders) ELSE view.usage]

(* Revision 3 gives the artifacts their old key back. *)
Downgraded(view) ==
    LET r == view.revision
        key == IF r = 3 THEN {<<"key", "artifacts", "organization">>} ELSE {} IN
    [revision |-> r - 1,
     objects |-> (view.objects \ Drops(view.objects, r)) \cup key,
     usage |-> IF r = 4 THEN 0 ELSE view.usage]

(* A statement fails on an object that is there already, and the revision   *)
(* table refuses a step from a revision that is no longer the committed one. *)
UpgradeAccepted(p) ==
    /\ migrator[p].base = catalog.revision
    /\ Creates[migrator[p].view.revision + 1] \cap migrator[p].view.objects = {}

(* A defect: the preflight alone guards the legacy key. *)
DowngradeAccepted_NoRepeat(p) == migrator[p].base = catalog.revision

(* downgrade of revision 3 looks for collisions again before its own statements. *)
DowngradeAccepted(p) ==
    /\ migrator[p].base = catalog.revision
    /\ migrator[p].view.revision = 3 => ~Collision

ApplyRevision(p) ==
    /\ At(p, "stepping") /\ ~WaitsForOther(p)
    /\ migrator[p].view.revision # migrator[p].to
    /\ \/ /\ migrator[p].kind = "upgrade"
          /\ IF UpgradeAccepted(p)
             THEN OnlyMigrator(p, [migrator[p] EXCEPT !.view = Upgraded(@)])
                  /\ UNCHANGED <<catalog, lockedBy>>
             ELSE Abandon(p)
       \/ /\ migrator[p].kind = "downgrade"
          /\ IF DowngradeAccepted(p)
             THEN OnlyMigrator(p, [migrator[p] EXCEPT !.view = Downgraded(@)])
                  /\ UNCHANGED <<catalog, lockedBy>>
             ELSE Abandon(p)

(* The finally clause runs inside the transaction. *)
Unlock(p) ==
    /\ At(p, "stepping")
    /\ migrator[p].kind \in {"upgrade", "downgrade"} => migrator[p].view.revision = migrator[p].to
    /\ lockedBy' = "none"
    /\ OnlyMigrator(p, [migrator[p] EXCEPT !.at = "unlocked"])
    /\ UNCHANGED catalog

(* Rows counted by others while quota_usages was not this command's to change stay; *)
(* revision 0 has no artifacts table.                                               *)
CommitCommand(p) ==
    /\ At(p, "unlocked")
    /\ catalog' = IF Changed(p)
                  THEN [migrator[p].view EXCEPT !.usage =
                            IF migrator[p].view.revision < 4 \/ migrator[p].base < 4
                            THEN @ ELSE catalog.usage]
                  ELSE catalog
    /\ holders' = IF Changed(p) /\ migrator[p].view.revision = 0 THEN {} ELSE holders
    /\ migrator' = [migrator EXCEPT ![p] = IdleCommand]
    /\ UNCHANGED <<ownerSees, lockedBy>>

(* The process or its connection is lost. *)
LoseMigrator(p) == ~At(p, "idle") /\ Abandon(p)

(* Revisions whose statements make a writer of artifacts wait: they lock artifacts, *)
(* or a table the new row refers to, against its foreign-key check.                 *)
BlocksWriters(p) ==
    \E r \in 1 .. LatestRevision :
        \/ migrator[p].base < r /\ r <= migrator[p].view.revision /\ r \in {1, 3, 4, 5, 7}
        \/ migrator[p].view.revision < r /\ r <= migrator[p].base /\ r # 6

(* An application writes an artifact, and from revision 4 on its usage too. *)
StoreArtifact(s) ==
    /\ s \notin holders /\ catalog.revision >= 1
    /\ catalog.revision < 3 => holders = {}
    /\ \A p \in Migrators : ~(Changed(p) /\ BlocksWriters(p))
    /\ holders' = holders \cup {s}
    /\ catalog' = IF catalog.revision >= 4 THEN [catalog EXCEPT !.usage = @ + 1] ELSE catalog
    /\ UNCHANGED <<ownerSees, lockedBy, migrator>>

MigrationsNext ==
    \/ \E p \in Migrators :
        \/ BeginCommand(p) \/ Preflight(p) \/ PlanSteps(p) \/ ApplyRevision(p)
        \/ Unlock(p) \/ CommitCommand(p) \/ LoseMigrator(p)
    \/ \E s \in OwnedScopes : StoreArtifact(s)

MigrationsSpec == MigrationsInit /\ [][MigrationsNext]_migrationVars

-----------------------------------------------------------------------------
MigrationsTypeOK ==
    /\ catalog.revision \in 0 .. LatestRevision /\ catalog.objects \subseteq UNION {Fresh[r] : r \in 0 .. LatestRevision}
    /\ catalog.usage \in 0 .. Cardinality(OwnedScopes)
    /\ holders \subseteq OwnedScopes
    /\ ownerSees \in BOOLEAN
    /\ lockedBy \in Migrators \cup {"none"}
    /\ \A p \in Migrators : migrator[p].at \in {"idle", "locked", "checked", "stepping", "unlocked"}

(* Whatever commands ran, were refused or were lost, and in whatever order  *)
(* they overlapped, the committed schema is the one a new database has at   *)
(* that revision, the rows fit its unique key, quota usage counts them, and *)
(* the head's tables are the models' (persistence/alembic/env.py,           *)
(* _run_migrations; 0003's repeated check; 0004's backfill).                *)
SchemaTrue ==
    /\ catalog.objects = Fresh[catalog.revision]
    /\ catalog.revision < 3 => ~Collision
    /\ catalog.usage = IF catalog.revision < 4 THEN 0 ELSE Cardinality(holders)
    /\ catalog.revision = LatestRevision => TablesOf(catalog.objects) = ModelTables

(* docs/operations/database-migrations.md:15: migration and drift-check     *)
(* processes "take the same advisory lock and fail rather than running      *)
(* concurrently" (persistence/alembic/env.py: the lock is given back before *)
(* the transaction commits).                                                *)
CommandsExclusive ==
    \A p, q \in Migrators : ~At(p, "idle") /\ ~At(q, "idle") => p = q
=============================================================================
