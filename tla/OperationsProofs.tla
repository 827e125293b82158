-------------------------- MODULE OperationsProofs ---------------------------
(***************************************************************************)
(* Proofs about what operators run: the installation of a reference        *)
(* snapshot (PhoibleSnapshot), migrations of the schema (Migrations),      *)
(* backups with their restore drills (PostgresContinuity), and the         *)
(* scheduled maintenance (MaintenanceBatch); and, with ApiProofs and       *)
(* RecordsProofs, about all components behind the API and the commands     *)
(* (MCPlatform).                                                           *)
(***************************************************************************)
EXTENDS MCPlatform, ApiProofs, RecordsProofs,
        FiniteSetTheorems, WellFoundedInduction, TLAPS

-----------------------------------------------------------------------------
(***************************************************************************)
(* A healthy snapshot stays, for any number of provisioning commands, any  *)
(* pinned length and whatever the sources offer.                           *)
(***************************************************************************)

Phases == {"idle", "sizing", "hashing", "opening", "writing", "checking", "replacing", "syncing"}
SnapshotCommands == [at : Phases, look : {"none", "status", "before", "after"}, force : BOOLEAN,
             offer : AnyFile, temp : AnyFile, synced : BOOLEAN]

(* A temporary file is synced before it is checked, and only the pinned    *)
(* bytes pass the check.                                                   *)
InstallOK(c) ==
    /\ c.at \in {"checking", "replacing", "syncing"} => c.synced
    /\ c.at \in {"replacing", "syncing"} => c.temp = Pinned
    /\ c.temp.length \in 0 .. PinnedLength

OrderlyCommands == {c \in SnapshotCommands : InstallOK(c)}

(* The inductive invariant; the file that is there is one that a power     *)
(* failure may leave.                                                      *)
SnapshotInv ==
    /\ command \in [Provisioners -> OrderlyCommands]
    /\ snapshot \in mayBe
    /\ mayBe \in SUBSET SnapshotFiles

-----------------------------------------------------------------------------
(* An idle command is in order. *)
LEMMA IdleInOrder == NoCommand \in OrderlyCommands
  BY SnapshotAssumption
  DEF NoCommand, OrderlyCommands, SnapshotCommands, Phases, AnyFile, InstallOK, Missing

(* Initially no command runs. *)
LEMMA SnapshotStart == SnapshotInit => SnapshotInv
  BY IdleInOrder DEF SnapshotInit, SnapshotInv, SnapshotFiles

(* A step of one command keeps the invariant of the commands if what it    *)
(* makes of the command is in order.                                       *)
LEMMA CommandKeepsOrder ==
    ASSUME SnapshotInv, NEW p \in Provisioners, NEW c \in OrderlyCommands, CommandTo(p, c)
    PROVE  command' \in [Provisioners -> OrderlyCommands]
  BY DEF SnapshotInv, CommandTo

(* The steps that only look and download leave the files alone, and none   *)
(* lets an unsynced or another file through to the replacement.            *)
LEMMA QuietStepsKeepInv ==
    ASSUME SnapshotInv, NEW p \in Provisioners,
           \/ StartCommand(p) \/ LookAtSize(p) \/ LookAtBytes(p) \/ OpenTemporary(p)
           \/ ReceiveChunk(p) \/ SyncTemporary(p) \/ CheckTemporary(p) \/ CommandFails(p)
    PROVE  SnapshotInv' /\ mayBe' = mayBe
<1> DEFINE was == command[p]
<1>1. was \in OrderlyCommands
  BY DEF SnapshotInv
<1>2. SUFFICES ASSUME NEW c \in OrderlyCommands, CommandTo(p, c), FilesStay
               PROVE  SnapshotInv' /\ mayBe' = mayBe
  <2>1. CASE StartCommand(p)
    BY <2>1, <1>2, IdleInOrder, SnapshotAssumption
    DEF StartCommand, OrderlyCommands, SnapshotCommands, Phases, InstallOK, NoCommand, AnyFile
  <2>2. ASSUME NEW ready \in BOOLEAN, AfterLook(p, ready), was.at \in {"sizing", "hashing"}
        PROVE  SnapshotInv' /\ mayBe' = mayBe
    <3>1. [was EXCEPT !.at = "opening"] \in OrderlyCommands
      BY <1>1 DEF OrderlyCommands, SnapshotCommands, Phases, InstallOK
    <3> QED
      BY <2>2, <3>1, <1>2, IdleInOrder DEF AfterLook
  <2>3. CASE LookAtSize(p)
    <3>1. was.at = "sizing" => [was EXCEPT !.at = "hashing"] \in OrderlyCommands
      BY <1>1 DEF OrderlyCommands, SnapshotCommands, Phases, InstallOK
    <3> QED
      BY <2>3, <2>2, <3>1, <1>2 DEF LookAtSize, CommandAt
  <2>4. CASE LookAtBytes(p)
    BY <2>4, <2>2 DEF LookAtBytes, CommandAt
  <2>5. CASE OpenTemporary(p)
    <3> DEFINE empty == [kind |-> "file", length |-> 0, right |-> TRUE]
               c == [was EXCEPT !.at = "writing", !.temp = empty]
    <3>1. empty \in AnyFile /\ empty.length \in 0 .. PinnedLength
      BY SnapshotAssumption DEF AnyFile
    <3>2. c \in OrderlyCommands
      <4> HIDE DEF empty
      <4> QED
        BY <3>1, <1>1 DEF OrderlyCommands, SnapshotCommands, Phases, InstallOK
    <3> QED
      BY <2>5, <3>2, <1>2 DEF OpenTemporary, CommandAt
  <2>6. CASE ReceiveChunk(p)
    <3>1. CASE was.temp.length >= PinnedLength
      BY <2>6, <3>1, <1>2, IdleInOrder DEF ReceiveChunk, EndCommand
    <3>2. CASE ~(was.temp.length >= PinnedLength)
      <4> DEFINE grown == Longer(was.temp, was.offer)
                 c == [was EXCEPT !.temp = grown]
      <4>1. was.at = "writing" /\ CommandTo(p, c) /\ FilesStay
        BY <2>6, <3>2 DEF ReceiveChunk, CommandAt
      <4>2. grown \in AnyFile /\ grown.length \in 0 .. PinnedLength
        BY <1>1, <3>2, SnapshotAssumption DEF OrderlyCommands, SnapshotCommands, InstallOK, AnyFile, Longer
      <4>3. c \in OrderlyCommands
        <5> HIDE DEF grown
        <5> QED
          BY <4>1, <4>2, <1>1 DEF OrderlyCommands, SnapshotCommands, Phases, InstallOK
      <4> QED
        BY <4>1, <4>3, <1>2
    <3> QED
      BY <3>1, <3>2
  <2>7. CASE SyncTemporary(p)
    BY <2>7, <1>1, <1>2 DEF SyncTemporary, CommandAt, OrderlyCommands, SnapshotCommands, Phases, InstallOK
  <2>8. CASE CheckTemporary(p)
    <3>1. was.at = "checking" /\ Accepted(p) => [was EXCEPT !.at = "replacing"] \in OrderlyCommands
      BY <1>1 DEF OrderlyCommands, SnapshotCommands, Phases, InstallOK, Accepted
    <3> QED
      BY <2>8, <3>1, <1>2, IdleInOrder DEF CheckTemporary, CommandAt, EndCommand
  <2>9. CASE CommandFails(p)
    BY <2>9, <1>2, IdleInOrder DEF CommandFails, EndCommand
  <2> QED
    BY <2>1, <2>3, <2>4, <2>5, <2>6, <2>7, <2>8, <2>9
<1>3. command' \in [Provisioners -> OrderlyCommands]
  BY <1>2, CommandKeepsOrder
<1> QED
  BY <1>2, <1>3 DEF SnapshotInv, FilesStay

(* Every step keeps the invariant, and none of them leaves a healthy       *)
(* snapshot in doubt: what replaces it is the pinned file, synced.         *)
LEMMA SnapshotStep ==
    ASSUME SnapshotInv, [SnapshotNext]_snapshotVars
    PROVE  SnapshotInv' /\ (mayBe = {Pinned} => mayBe' = {Pinned})
<1>1. CASE UNCHANGED snapshotVars
  BY <1>1 DEF SnapshotInv, snapshotVars
<1>2. CASE PowerLoss
  BY <1>2, IdleInOrder DEF PowerLoss, SnapshotInv
<1>3. ASSUME NEW p \in Provisioners, ReplaceSnapshot(p)
      PROVE  SnapshotInv' /\ (mayBe = {Pinned} => mayBe' = {Pinned})
  <2>1. /\ command[p] \in OrderlyCommands /\ command[p].at = "replacing"
        /\ command[p].temp = Pinned /\ command[p].synced
    BY <1>3 DEF ReplaceSnapshot, CommandAt, SnapshotInv, OrderlyCommands, InstallOK
  <2>2. [command[p] EXCEPT !.at = "syncing"] \in OrderlyCommands
    BY <2>1 DEF OrderlyCommands, SnapshotCommands, Phases, InstallOK
  <2>3. command' \in [Provisioners -> OrderlyCommands]
    BY <1>3, <2>2, CommandKeepsOrder DEF ReplaceSnapshot
  <2>4. snapshot' = Pinned /\ mayBe' = mayBe \cup {Pinned}
    BY <1>3, <2>1 DEF ReplaceSnapshot
  <2> QED
    BY <2>3, <2>4 DEF SnapshotInv, SnapshotFiles
<1>4. ASSUME NEW p \in Provisioners, SyncDirectory(p)
      PROVE  SnapshotInv' /\ (mayBe = {Pinned} => mayBe' = {Pinned})
  <2>1. command[p].synced
    BY <1>4 DEF SyncDirectory, CommandAt, SnapshotInv, OrderlyCommands, InstallOK
  <2>2. [NoCommand EXCEPT !.at = "sizing", !.look = "after"] \in OrderlyCommands
    BY IdleInOrder DEF NoCommand, OrderlyCommands, SnapshotCommands, Phases, InstallOK
  <2>3. command' \in [Provisioners -> OrderlyCommands]
    BY <1>4, <2>2, CommandKeepsOrder DEF SyncDirectory
  <2>4. snapshot' = snapshot /\ mayBe' \in {{snapshot}, mayBe}
    BY <1>4, <2>1 DEF SyncDirectory
  <2> QED
    BY <2>3, <2>4 DEF SnapshotInv
<1> QED
  BY <1>1, <1>2, <1>3, <1>4, QuietStepsKeepInv DEF SnapshotNext

-----------------------------------------------------------------------------
(* The type invariant of the model: phases, and a temporary file that      *)
(* never grows beyond the pinned length (_atomic_install).                 *)
THEOREM SnapshotTyped == SnapshotSpec => []SnapshotTypeOK
<1>1. SnapshotInv => SnapshotTypeOK
  BY DEF SnapshotInv, SnapshotTypeOK, OrderlyCommands, SnapshotCommands, Phases, InstallOK, SnapshotFiles
<1> QED
  BY <1>1, SnapshotStart, SnapshotStep, PTL DEF SnapshotSpec

(* Once only the pinned bytes can be left, no command, concurrent, failing, *)
(* killed or fed with wrong bytes, changes that (_atomic_install: sync,     *)
(* check, replace, in this order).                                          *)
THEOREM HealthySnapshotStays == SnapshotSpec => HealthyStays
<1>1. SnapshotInv /\ [SnapshotNext]_snapshotVars
      => [mayBe = {Pinned} => mayBe' = {Pinned}]_snapshotVars
  BY SnapshotStep
<1> QED
  BY <1>1, SnapshotStart, SnapshotStep, PTL DEF SnapshotSpec, HealthyStays

-----------------------------------------------------------------------------
(***************************************************************************)
(* The database schema and the commands that change it (Migrations), for   *)
(* any number of commands and artifacts.                                   *)
(***************************************************************************)

-----------------------------------------------------------------------------
(* The schema of each revision *)

Revisions == 0 .. LatestRevision

Built(f) ==
    f = [r \in Revisions |-> IF r = 0 THEN {} ELSE (f[r - 1] \ Replaces(r)) \cup Creates[r]]

Revised(S, r) == (S \ Replaces(r)) \cup Creates[r]

(* The schemas are built one revision after the other. *)
LEMMA FreshSteps ==
    /\ Fresh[0] = {}
    /\ \A r \in 1 .. LatestRevision : Fresh[r] = Revised(Fresh[r - 1], r)
<1> DEFINE F1 == Revised({}, 1)
           F2 == Revised(F1, 2)
           F3 == Revised(F2, 3)
           F4 == Revised(F3, 4)
           F5 == Revised(F4, 5)
           F6 == Revised(F5, 6)
           F7 == Revised(F6, 7)
           F8 == Revised(F7, 8)
           F9 == Revised(F8, 9)
           e(r) == CASE r = 0 -> {} [] r = 1 -> F1 [] r = 2 -> F2 [] r = 3 -> F3 [] r = 4 -> F4
                     [] r = 5 -> F5 [] r = 6 -> F6 [] r = 7 -> F7 [] r = 8 -> F8 [] r = 9 -> F9
           g == [r \in Revisions |-> e(r)]
           f == CHOOSE h : Built(h)
<1>1. /\ F1 = Revised({}, 1) /\ F2 = Revised(F1, 2) /\ F3 = Revised(F2, 3) /\ F4 = Revised(F3, 4)
      /\ F5 = Revised(F4, 5) /\ F6 = Revised(F5, 6) /\ F7 = Revised(F6, 7) /\ F8 = Revised(F7, 8)
      /\ F9 = Revised(F8, 9)
  OBVIOUS
<1> HIDE DEF F1, F2, F3, F4, F5, F6, F7, F8, F9
<1>2. Revisions = {0, 1, 2, 3, 4, 5, 6, 7, 8, 9} /\ LatestRevision = 9
  BY DEF Revisions, LatestRevision
<1>3. ASSUME NEW r \in Revisions
      PROVE  g[r] = IF r = 0 THEN {} ELSE Revised(g[r - 1], r)
  BY <1>1, <1>2
<1>4. Built(g)
  <2> HIDE DEF e
  <2>1. g = [r \in Revisions |-> g[r]]
    OBVIOUS
  <2> HIDE DEF g
  <2> QED
    BY <1>3, <2>1 DEF Built, Revised
<1>5. Built(f)
  <2> HIDE DEF g
  <2> QED
    BY <1>4
<1>6. Fresh = f
  BY DEF Fresh, Built, Revisions
<1> HIDE DEF f
<1>7. \A r \in Revisions : f[r] = IF r = 0 THEN {} ELSE Revised(f[r - 1], r)
  BY <1>5 DEF Built, Revised
<1> QED
  BY <1>2, <1>6, <1>7

Baselines == TenancyTables \cup RunTables
Controlled == OrganizationTables \cup QuotaTables \cup AuditTables \cup {"users", "memberships"}
RowOperations == {"select", "insert", "update", "delete"}

(* What the objects of a revision are about. *)
LEMMA TableObjects ==
    ASSUME NEW S, NEW o
    PROVE  o \in Table(S) <=> \E t \in S : o = <<"table", t, "rows">>
  BY DEF Table

(* A policy is of its table, and one of the operations asked for. *)
LEMMA PolicyObjects ==
    ASSUME NEW S, NEW O, NEW o \in Policies(S, O)
    PROVE  /\ o[2] \in S
           /\ (o[1] = "security" /\ o[3] = "forced") \/ (o[1] = "policy" /\ o[3] \in O)
<1>1. CASE o \in {<<"security", t, "forced">> : t \in S}
  BY <1>1
<1>2. CASE o \in {<<"policy", t, q>> : t \in S, q \in O}
  BY <1>2
<1> QED
  BY <1>1, <1>2 DEF Policies

(* Revision 1: the first tables and the key of artifacts *)
LEMMA Layer1 ==
    ASSUME NEW o \in Creates[1]
    PROVE  o[1] \in {"table", "key"} /\ o[2] \in Baselines
<1>1. o \in Table(Baselines) \/ o = <<"key", "artifacts", "organization">>
  BY DEF Creates, Baseline, Baselines
<1> QED
  BY <1>1, TableObjects DEF Baselines, RunTables

(* Revision 2: the outbox and the lineage of runs *)
LEMMA Layer2 ==
    ASSUME NEW o \in Creates[2]
    PROVE  o = <<"table", "outbox_messages", "rows">> \/ o = <<"columns", "runs", "lineage">>
  BY TableObjects DEF Creates, JobOutbox, Columns

(* Revision 3: what an artifact's lifecycle needs *)
LEMMA Layer3 ==
    ASSUME NEW o
    PROVE  o \in Creates[3] <=> o = <<"columns", "artifacts", "lifecycle">> \/ o = <<"key", "artifacts", "scope">>
  BY DEF Creates, ArtifactIntegrity, Columns

(* Revision 4: quotas, the audit chain and the policies of tenants *)
LEMMA Layer4 ==
    ASSUME NEW o \in Creates[4]
    PROVE  \/ o[1] = "table" /\ o[2] \in QuotaTables \cup AuditTables
           \/ o \in AuditImmutable
           \/ o[1] = "security" /\ o[2] \in Controlled
           \/ o[1] = "policy" /\ o[2] \in Controlled /\ o[3] \in RowOperations
<1>1. \/ o \in Table(QuotaTables \cup AuditTables) \/ o \in AuditImmutable
      \/ o \in UserPolicies \/ o \in MembershipPolicies \/ o \in OrganizationPolicies
      \/ o \in PlatformPolicies \/ o \in EvidencePolicies
  BY DEF Creates, TenantControls
<1>2. CASE o \in Table(QuotaTables \cup AuditTables)
  BY <1>2, TableObjects
<1>3. CASE o \in UserPolicies
  BY <1>3, PolicyObjects DEF UserPolicies, Controlled, RowOperations
<1>4. CASE o \in MembershipPolicies
  BY <1>4, PolicyObjects DEF MembershipPolicies, Controlled, RowOperations
<1>5. CASE o \in OrganizationPolicies
  BY <1>5, PolicyObjects DEF OrganizationPolicies, Controlled, RowOperations
<1>6. CASE o \in PlatformPolicies
  BY <1>6, PolicyObjects DEF PlatformPolicies, Controlled, RowOperations, QuotaTables, AuditTables
<1>7. CASE o \in EvidencePolicies
  BY <1>7, PolicyObjects DEF EvidencePolicies, Controlled, RowOperations, AuditTables
<1> QED
  BY <1>1, <1>2, <1>3, <1>4, <1>5, <1>6, <1>7

(* Revision 5: the facts of runs and their guards *)
LEMMA Layer5 ==
    ASSUME NEW o \in Creates[5]
    PROVE  \/ o[1] \in {"table", "trigger", "security"} /\ o[2] \in FactTables
           \/ o[1] = "function" /\ o[2] = "database" /\ o[3] \in {"guard_execution_fact", "guard_replay"}
              /\ o \in FactTriggers
           \/ o[1] = "policy" /\ o[2] \in FactTables /\ o[3] \in RowOperations
<1>1. o \in Table(FactTables) \/ o \in FactTriggers \/ o \in FactPolicies
  BY DEF Creates, ReproducibilityTables
<1>2. CASE o \in Table(FactTables)
  BY <1>2, TableObjects
<1>3. CASE o \in FactTriggers
  BY <1>3 DEF FactTriggers
<1>4. CASE o \in FactPolicies
  BY <1>4, PolicyObjects DEF FactPolicies, RowOperations
<1> QED
  BY <1>1, <1>2, <1>3, <1>4

(* Revision 6: the cursors of maintenance *)
LEMMA Layer6 ==
    ASSUME NEW o \in Creates[6]
    PROVE  o[2] = "maintenance_cursors" /\ o[1] \in {"table", "security", "policy"}
<1>1. o \in Table({"maintenance_cursors"}) \/ o \in Policies({"maintenance_cursors"}, {"all"})
  BY DEF Creates, MaintenanceCursors
<1> QED
  BY <1>1, TableObjects, PolicyObjects

(* Revision 7: what the deletion of projects needs, and no more *)
LEMMA Layer7 ==
    /\ Creates[7] = DropDeletion({})
    /\ \A o \in Creates[7] :
          \/ o[1] = "columns" /\ o[2] = "projects" /\ o[3] = "deletion"
          \/ o[1] = "policy" /\ o[2] \in FactTables \cup {"projects"}
             /\ o[3] \in {"maintenance_global_select", "maintenance_delete"}
<1>1. Creates[7] = Columns("projects", {"deletion"}) \cup DeletionPolicies
  BY DEF Creates, ProjectDeletion
<1>2. ASSUME NEW o \in Creates[7]
      PROVE  \/ o[1] = "columns" /\ o[2] = "projects" /\ o[3] = "deletion"
             \/ o[1] = "policy" /\ o[2] \in FactTables \cup {"projects"}
                /\ o[3] \in {"maintenance_global_select", "maintenance_delete"}
  BY <1>1 DEF Columns, DeletionPolicies
<1> QED
  BY <1>1, <1>2 DEF DropDeletion

(* Revision 8: the publications of DATG indexes *)
LEMMA Layer8 ==
    ASSUME NEW o \in Creates[8]
    PROVE  o[2] = "datg_index_publications" /\ o[1] \in {"table", "security", "policy"}
<1>1. o \in Table({"datg_index_publications"}) \/ o \in PublicationPolicies
  BY DEF Creates, DatgPublications
<1> QED
  BY <1>1, TableObjects, PolicyObjects DEF PublicationPolicies

(* Revision 9: the windows of the rate limits *)
LEMMA Layer9 ==
    ASSUME NEW o \in Creates[9]
    PROVE  o[2] = "api_rate_limit_windows" /\ o[1] \in {"table", "security", "policy"}
<1>1. o \in Table({"api_rate_limit_windows"}) \/ o \in WindowPolicies
  BY DEF Creates, RateLimitWindows
<1> QED
  BY <1>1, TableObjects, PolicyObjects DEF WindowPolicies

(* What the schemas before a revision hold. *)
LEMMA Schema2 ==
    ASSUME NEW o \in Fresh[2]
    PROVE  \/ o[1] = "table" /\ o[2] \in Baselines \cup {"outbox_messages"}
           \/ o[1] = "key" /\ o[2] \in Baselines
           \/ o = <<"columns", "runs", "lineage">>
  BY FreshSteps, Layer1, Layer2 DEF LatestRevision, Revised

(* Up to revision 3 there is no policy and nothing of deletion. *)
LEMMA Schema3 ==
    ASSUME NEW o \in Fresh[3]
    PROVE  /\ o[1] \in {"table", "key", "columns"} /\ o[2] \in Baselines \cup {"outbox_messages"}
           /\ o[1] = "columns" => o[3] # "deletion"
<1>1. o \in Fresh[2] \/ o \in Creates[3]
  BY FreshSteps DEF LatestRevision, Revised
<1>2. CASE o \in Fresh[2]
  BY <1>2, Schema2 DEF Baselines, RunTables
<1>3. CASE o \in Creates[3]
  BY <1>3, Layer3 DEF Baselines, RunTables
<1> QED
  BY <1>1, <1>2, <1>3

Owned == Controlled \cup {"outbox_messages", "database"}

(* Up to revision 4 there is nothing of facts, cursors or deletion. *)
LEMMA Schema4 ==
    ASSUME NEW o \in Fresh[4]
    PROVE  /\ o[2] \in Baselines \cup Owned
           /\ o[1] \in {"table", "key", "columns", "function", "trigger", "security", "policy"}
           /\ o[1] = "columns" => o[3] # "deletion"
           /\ o[1] = "function" => o[3] \in {"is_current_member", "reject_audit_mutation"}
           /\ o[1] = "policy" => o[3] \in RowOperations
<1>1. o \in Fresh[3] \/ o \in Creates[4]
  BY FreshSteps DEF LatestRevision, Revised
<1>2. CASE o \in Fresh[3]
  BY <1>2, Schema3 DEF Owned
<1>3. CASE o \in Creates[4]
  BY <1>3, Layer4 DEF Owned, Controlled, AuditImmutable, AuditTables
<1> QED
  BY <1>1, <1>2, <1>3

(* Up to revision 6 there is nothing of deletion, and only the cursors have policies of their own. *)
LEMMA Schema6 ==
    ASSUME NEW r \in {5, 6}, NEW o \in Fresh[r]
    PROVE  /\ o[2] \in Baselines \cup Owned \cup FactTables \cup {"maintenance_cursors"}
           /\ o[1] = "columns" => o[3] # "deletion"
           /\ o[1] = "policy" => o[3] \in RowOperations \/ o[2] = "maintenance_cursors"
           /\ r = 5 => o[2] # "maintenance_cursors"
<1>1. ASSUME NEW p \in Fresh[5]
      PROVE  /\ p[2] \in Baselines \cup Owned \cup FactTables
             /\ p[1] = "columns" => p[3] # "deletion"
             /\ p[1] = "policy" => p[3] \in RowOperations
  <2>1. p \in Fresh[4] \/ p \in Creates[5]
    BY FreshSteps DEF LatestRevision, Revised
  <2>2. CASE p \in Fresh[4]
    BY <2>2, Schema4
  <2>3. CASE p \in Creates[5]
    BY <2>3, Layer5 DEF Owned
  <2> QED
    BY <2>1, <2>2, <2>3
<1>2. "maintenance_cursors" \notin Baselines \cup Owned \cup FactTables
  BY DEF Baselines, TenancyTables, RunTables, Owned, Controlled, OrganizationTables, QuotaTables,
         AuditTables, FactTables
<1>3. r = 6 => o \in Fresh[5] \/ o \in Creates[6]
  BY FreshSteps DEF LatestRevision, Revised
<1>4. CASE o \in Fresh[5]
  BY <1>1, <1>2, <1>4
<1>5. CASE r = 6 /\ o \in Creates[6]
  BY <1>5, Layer6
<1> QED
  BY <1>3, <1>4, <1>5

(* Up to revision 8 there are no windows. *)
LEMMA Schema8 ==
    ASSUME NEW r \in {7, 8}, NEW o \in Fresh[r]
    PROVE  /\ o[2] \in Baselines \cup Owned \cup FactTables
                 \cup {"maintenance_cursors", "projects", "datg_index_publications"}
           /\ r = 7 => o[2] # "datg_index_publications"
           /\ o[2] # "api_rate_limit_windows"
<1>1. ASSUME NEW p \in Fresh[7]
      PROVE  p[2] \in Baselines \cup Owned \cup FactTables \cup {"maintenance_cursors", "projects"}
  <2>1. p \in Fresh[6] \/ p \in Creates[7]
    BY FreshSteps DEF LatestRevision, Revised
  <2>2. CASE p \in Fresh[6]
    BY <2>2, Schema6
  <2>3. CASE p \in Creates[7]
    BY <2>3, Layer7
  <2> QED
    BY <2>1, <2>2, <2>3
<1>2. "datg_index_publications" \notin
          Baselines \cup Owned \cup FactTables \cup {"maintenance_cursors", "projects"}
  BY DEF Baselines, TenancyTables, RunTables, Owned, Controlled, OrganizationTables, QuotaTables,
         AuditTables, FactTables
<1>3. "api_rate_limit_windows" \notin Baselines \cup Owned \cup FactTables
                 \cup {"maintenance_cursors", "projects", "datg_index_publications"}
  BY DEF Baselines, TenancyTables, RunTables, Owned, Controlled, OrganizationTables, QuotaTables,
         AuditTables, FactTables
<1>4. r = 8 => o \in Fresh[7] \/ o \in Creates[8]
  BY FreshSteps DEF LatestRevision, Revised
<1>5. CASE o \in Fresh[7]
  BY <1>1, <1>2, <1>3, <1>5
<1>6. CASE r = 8 /\ o \in Creates[8]
  BY <1>6, Layer8
<1> QED
  BY <1>4, <1>5, <1>6

(* What a downgrade leaves is what an upgrade stopped at before. *)
OldKey(r) == IF r = 3 THEN {<<"key", "artifacts", "organization">>} ELSE {}

(* A downgrade takes away exactly what its upgrade laid down. *)
LEMMA Undone ==
    ASSUME NEW r \in 1 .. LatestRevision
    PROVE  (Fresh[r] \ Drops(Fresh[r], r)) \cup OldKey(r) = Fresh[r - 1]
<1>1. Fresh[r] = Revised(Fresh[r - 1], r) /\ Fresh[0] = {}
  BY FreshSteps
<1>2. ASSUME NEW D, D = Drops(Fresh[r], r), r # 3,
             \A o \in Fresh[r - 1] : o \notin D, \A o \in Creates[r] : o \in D
      PROVE  (Fresh[r] \ Drops(Fresh[r], r)) \cup OldKey(r) = Fresh[r - 1]
  BY <1>1, <1>2 DEF Revised, Replaces, OldKey
<1>10. CASE r = 1
  <2> DEFINE D == Drops(Fresh[r], r)
  <2>1. D = {o \in Fresh[1] : o[2] \in Baselines}
    BY <1>10 DEF Drops, DropBaseline, OfTables, Baselines
  <2> HIDE DEF D
  <2>2. (\A o \in Fresh[r - 1] : o \notin D) /\ \A o \in Creates[r] : o \in D
    BY <1>1, <1>10, <2>1, Layer1 DEF Revised, Replaces
  <2> QED
    BY <1>2, <1>10, <2>2 DEF D
<1>20. CASE r = 2
  <2> DEFINE D == Drops(Fresh[r], r)
  <2>1. D = {o \in Fresh[2] : o[2] = "outbox_messages"} \cup {<<"columns", "runs", "lineage">>}
    BY <1>20 DEF Drops, DropOutbox, OfTables, Columns
  <2> HIDE DEF D
  <2>2. \A o \in Fresh[1] : o[1] \in {"table", "key"} /\ o[2] \in Baselines
    BY FreshSteps, Layer1 DEF LatestRevision, Revised
  <2>3. "outbox_messages" \notin Baselines
    BY DEF Baselines, TenancyTables, RunTables
  <2>4. (\A o \in Fresh[r - 1] : o \notin D) /\ \A o \in Creates[r] : o \in D
    BY <1>1, <1>20, <2>1, <2>2, <2>3, Layer2 DEF Revised, Replaces
  <2> QED
    BY <1>2, <1>20, <2>4 DEF D
<1>30. CASE r = 3
  <2>1. Drops(Fresh[r], r) = Creates[3]
    BY <1>30 DEF Drops, Creates
  <2>2. <<"key", "artifacts", "organization">> \in Fresh[2]
    <3>1. <<"key", "artifacts", "organization">> \in Creates[1]
      BY DEF Creates, Baseline
    <3> QED
      BY <3>1, FreshSteps DEF LatestRevision, Revised, Replaces
  <2>3. \A o \in Fresh[2] : o \notin Creates[3]
    <3>1. \A o \in Fresh[2] : o # <<"columns", "artifacts", "lifecycle">>
      BY Schema2
    <3>2. <<"key", "artifacts", "scope">> \notin Fresh[2]
      <4>1. <<"key", "artifacts", "scope">> \notin Creates[1] \cup Creates[2]
        BY Layer2, TableObjects DEF Creates, Baseline
      <4> QED
        BY <4>1, FreshSteps DEF LatestRevision, Revised
    <3> QED
      BY <3>1, <3>2, Layer3
  <2> QED
    BY <1>1, <1>30, <2>1, <2>2, <2>3 DEF Revised, Replaces, OldKey
<1>40. CASE r = 4
  <2> DEFINE D == Drops(Fresh[r], r)
             P == OrganizationTables \cup {"users", "memberships"}
  <2>1. \A o : o \in D <=> \/ o \in Fresh[4] /\ o[2] \in QuotaTables \cup AuditTables
                           \/ o \in AuditImmutable
                           \/ o \in Fresh[4] /\ o[2] \in P /\ (o[1] = "security" \/
                                 (o[1] = "policy" /\ o[3] \in RowOperations))
    BY <1>40 DEF Drops, DropControls, OfTables, RowOperations
  <2> HIDE DEF D
  <2>2. (Baselines \cup {"outbox_messages"}) \cap (QuotaTables \cup AuditTables) = {}
    BY DEF Baselines, TenancyTables, RunTables, QuotaTables, AuditTables
  <2>3. \A o \in AuditImmutable : o[1] \in {"function", "trigger"}
    BY DEF AuditImmutable
  <2>4. \A o \in Fresh[3] : o \notin D
    BY <2>1, <2>2, <2>3, Schema3
  <2>5. \A o \in Creates[4] : o \in D
    BY <1>1, <1>40, <2>1, Layer4 DEF Revised, Controlled
  <2> QED
    BY <1>2, <1>40, <2>4, <2>5 DEF D
<1>50. CASE r = 5
  <2> DEFINE D == Drops(Fresh[r], r)
  <2>1. \A o : o \in D <=> (o \in Fresh[5] /\ o[2] \in FactTables) \/ (o \in FactTriggers /\ o[1] = "function")
    BY <1>50 DEF Drops, DropFacts, OfTables
  <2> HIDE DEF D
  <2>2. (Baselines \cup Owned) \cap FactTables = {}
    BY DEF Baselines, TenancyTables, RunTables, Owned, Controlled, OrganizationTables, QuotaTables,
           AuditTables, FactTables
  <2>3. \A o \in FactTriggers : o[1] = "function" => o[3] \in {"guard_execution_fact", "guard_replay"}
    BY DEF FactTriggers
  <2>4. \A o \in Fresh[4] : o \notin D
    BY <2>1, <2>2, <2>3, Schema4
  <2>5. \A o \in Creates[5] : o \in D
    BY <1>1, <1>50, <2>1, Layer5 DEF Revised
  <2> QED
    BY <1>2, <1>50, <2>4, <2>5 DEF D
<1>60. CASE r = 6
  <2> DEFINE D == Drops(Fresh[r], r)
  <2>1. D = {o \in Fresh[6] : o[2] = "maintenance_cursors"}
    BY <1>60 DEF Drops, DropCursors, OfTables
  <2> HIDE DEF D
  <2>2. (\A o \in Fresh[5] : o \notin D) /\ \A o \in Creates[6] : o \in D
    BY <1>1, <1>60, <2>1, Schema6, Layer6 DEF Revised
  <2> QED
    BY <1>2, <1>60, <2>2 DEF D
<1>70. CASE r = 7
  <2> DEFINE D == Drops(Fresh[r], r)
  <2>1. D = Creates[7]
    BY <1>70, Layer7 DEF Drops, DropDeletion
  <2> HIDE DEF D
  <2>2. "maintenance_cursors" \notin FactTables \cup {"projects"}
        /\ {"maintenance_global_select", "maintenance_delete"} \cap RowOperations = {}
    BY DEF FactTables, RowOperations
  <2>3. \A o \in Fresh[6] : o \notin D
    BY <2>1, <2>2, Schema6, Layer7
  <2> QED
    BY <1>2, <1>70, <2>1, <2>3 DEF D
<1>80. CASE r = 8
  <2> DEFINE D == Drops(Fresh[r], r)
  <2>1. D = {o \in Fresh[8] : o[2] = "datg_index_publications"}
    BY <1>80 DEF Drops, DropPublications, OfTables
  <2> HIDE DEF D
  <2>2. (\A o \in Fresh[7] : o \notin D) /\ \A o \in Creates[8] : o \in D
    BY <1>1, <1>80, <2>1, Schema8, Layer8 DEF Revised
  <2> QED
    BY <1>2, <1>80, <2>2 DEF D
<1>90. CASE r = 9
  <2> DEFINE D == Drops(Fresh[r], r)
  <2>1. D = {o \in Fresh[9] : o[2] = "api_rate_limit_windows"}
    BY <1>90 DEF Drops, DropWindows, OfTables
  <2> HIDE DEF D
  <2>2. (\A o \in Fresh[8] : o \notin D) /\ \A o \in Creates[9] : o \in D
    BY <1>1, <1>90, <2>1, Schema8, Layer9 DEF Revised
  <2> QED
    BY <1>2, <1>90, <2>2 DEF D
<1> QED
  BY <1>10, <1>20, <1>30, <1>40, <1>50, <1>60, <1>70, <1>80, <1>90 DEF LatestRevision

AllTables ==
    Baselines \cup QuotaTables \cup AuditTables \cup FactTables
        \cup {"outbox_messages", "maintenance_cursors", "datg_index_publications", "api_rate_limit_windows"}

(* The tables of the last revision are those of the models. *)
LEMMA LatestTables ==
    TablesOf(Fresh[LatestRevision]) = ModelTables
<1>1. ModelTables = AllTables
  <2>1. ModelTables \subseteq AllTables
    BY DEF AllTables, Baselines, TenancyTables, RunTables, QuotaTables, AuditTables, FactTables,
           ModelTables, RateLimitModel, TenancyModels, CorpusModels, RunModels, PublicationModels,
           PlatformModels, EvidenceModels
  <2>2. AllTables \subseteq ModelTables
    BY DEF AllTables, Baselines, TenancyTables, RunTables, QuotaTables, AuditTables, FactTables,
           ModelTables, RateLimitModel, TenancyModels, CorpusModels, RunModels, PublicationModels,
           PlatformModels, EvidenceModels
  <2> QED
    BY <2>1, <2>2
<1>2. /\ Fresh[3] = (Fresh[2] \ {<<"key", "artifacts", "organization">>}) \cup Creates[3]
      /\ Fresh[4] = Fresh[3] \cup Creates[4] /\ Fresh[5] = Fresh[4] \cup Creates[5]
      /\ Fresh[6] = Fresh[5] \cup Creates[6] /\ Fresh[7] = Fresh[6] \cup Creates[7]
      /\ Fresh[8] = Fresh[7] \cup Creates[8] /\ Fresh[9] = Fresh[8] \cup Creates[9]
      /\ Fresh[2] = Fresh[1] \cup Creates[2] /\ Fresh[1] = Creates[1]
  <2>1. ASSUME NEW r \in 1 .. 9, r # 3 PROVE Fresh[r] = Fresh[r - 1] \cup Creates[r]
    <3>1. Fresh[r] = Revised(Fresh[r - 1], r) /\ Replaces(r) = {}
      BY <2>1, FreshSteps DEF LatestRevision, Replaces
    <3> QED
      BY <3>1 DEF Revised
  <2>2. Fresh[3] = Revised(Fresh[2], 3)
    BY FreshSteps DEF LatestRevision
  <2>3. Fresh[1] = Fresh[0] \cup Creates[1] /\ Fresh[0] = {}
    <3>1. 1 - 1 = 0 /\ 1 \in 1 .. 9 /\ 1 # 3
      OBVIOUS
    <3>2. Fresh[1 - 1] = Fresh[0]
      BY <3>1
    <3> QED
      BY <2>1, <3>1, <3>2, FreshSteps
  <2>4. Fresh[3] = (Fresh[2] \ {<<"key", "artifacts", "organization">>}) \cup Creates[3]
    BY <2>2 DEF Revised, Replaces
  <2>5. Fresh[2] = Fresh[1] \cup Creates[2] /\ Fresh[4] = Fresh[3] \cup Creates[4]
    <3>1. 2 - 1 = 1 /\ 4 - 1 = 3 /\ 2 \in 1 .. 9 /\ 4 \in 1 .. 9
      OBVIOUS
    <3> QED
      BY <2>1, <3>1
  <2>6. Fresh[5] = Fresh[4] \cup Creates[5] /\ Fresh[6] = Fresh[5] \cup Creates[6]
    <3>1. 5 - 1 = 4 /\ 6 - 1 = 5 /\ 5 \in 1 .. 9 /\ 6 \in 1 .. 9
      OBVIOUS
    <3> QED
      BY <2>1, <3>1
  <2>7. Fresh[7] = Fresh[6] \cup Creates[7] /\ Fresh[8] = Fresh[7] \cup Creates[8]
    <3>1. 7 - 1 = 6 /\ 8 - 1 = 7 /\ 7 \in 1 .. 9 /\ 8 \in 1 .. 9
      OBVIOUS
    <3> QED
      BY <2>1, <3>1
  <2>8. Fresh[9] = Fresh[8] \cup Creates[9]
    <3>1. 9 - 1 = 8 /\ 9 \in 1 .. 9
      OBVIOUS
    <3> QED
      BY <2>1, <3>1
  <2>9. Fresh[1] = Creates[1]
    BY <2>3
  <2> QED
    BY <2>4, <2>5, <2>6, <2>7, <2>8, <2>9
<1>3. ASSUME NEW o \in Fresh[9], o[1] = "table" PROVE o[2] \in AllTables
  <2>1. \/ o \in Fresh[2] \/ o \in Creates[3] \/ o \in Creates[4] \/ o \in Creates[5]
        \/ o \in Creates[6] \/ o \in Creates[7] \/ o \in Creates[8] \/ o \in Creates[9]
    BY <1>2
  <2>2. CASE o \in Fresh[2]
    BY <1>3, <2>2, Schema2 DEF AllTables
  <2>3. CASE o \in Creates[3]
    BY <1>3, <2>3, Layer3
  <2>4. CASE o \in Creates[4]
    BY <1>3, <2>4, Layer4 DEF AllTables, AuditImmutable
  <2>5. CASE o \in Creates[5]
    BY <1>3, <2>5, Layer5 DEF AllTables
  <2>6. CASE o \in Creates[6] \/ o \in Creates[8] \/ o \in Creates[9]
    BY <1>3, <2>6, Layer6, Layer8, Layer9 DEF AllTables
  <2>7. CASE o \in Creates[7]
    BY <1>3, <2>7, Layer7
  <2> QED
    BY <2>1, <2>2, <2>3, <2>4, <2>5, <2>6, <2>7
<1>4. ASSUME NEW t \in AllTables PROVE \E o \in Fresh[9] : o[1] = "table" /\ o[2] = t
  <2> DEFINE o == <<"table", t, "rows">>
  <2>1. o[1] = "table" /\ o[2] = t /\ o # <<"key", "artifacts", "organization">>
    OBVIOUS
  <2>2. t \in Baselines => o \in Creates[1]
    BY TableObjects DEF Creates, Baseline, Baselines
  <2>3. t = "outbox_messages" => o \in Creates[2]
    BY TableObjects DEF Creates, JobOutbox
  <2>4. t \in QuotaTables \cup AuditTables => o \in Creates[4]
    <3>1. t \in QuotaTables \cup AuditTables => o \in Table(QuotaTables \cup AuditTables)
      BY TableObjects
    <3> QED
      BY <3>1 DEF Creates, TenantControls
  <2>5. t \in FactTables => o \in Creates[5]
    <3>1. t \in FactTables => o \in Table(FactTables)
      BY TableObjects
    <3> QED
      BY <3>1 DEF Creates, ReproducibilityTables
  <2>6. t = "maintenance_cursors" => o \in Creates[6]
    BY TableObjects DEF Creates, MaintenanceCursors
  <2>7. t = "datg_index_publications" => o \in Creates[8]
    BY TableObjects DEF Creates, DatgPublications
  <2>8. t = "api_rate_limit_windows" => o \in Creates[9]
    BY TableObjects DEF Creates, RateLimitWindows
  <2> HIDE DEF o
  <2>9. o \in Fresh[9]
    BY <1>2, <2>1, <2>2, <2>3, <2>4, <2>5, <2>6, <2>7, <2>8 DEF AllTables
  <2> QED
    BY <2>1, <2>9
<1>5. TablesOf(Fresh[9]) \subseteq AllTables
  BY <1>3 DEF TablesOf
<1>6. AllTables \subseteq TablesOf(Fresh[9])
  BY <1>4 DEF TablesOf
<1> QED
  BY <1>1, <1>5, <1>6 DEF LatestRevision

-----------------------------------------------------------------------------
(* SchemaCommands *)

CommandKinds == {"none", "upgrade", "downgrade", "check", "current"}
CommandStages == {"idle", "locked", "checked", "stepping", "unlocked"}
SchemaStates == [revision : Revisions, objects : {Fresh[r] : r \in Revisions}, usage : Nat]
SchemaCommands == [at : CommandStages, kind : CommandKinds, to : Revisions, base : Revisions, view : SchemaStates]

(* A command at work on the schema, and the rows as it counts them *)
ViewTrue(x) ==
    /\ x.kind = "upgrade" => x.base <= x.view.revision
    /\ x.kind = "downgrade" => x.to <= x.view.revision /\ x.view.revision <= x.base
    /\ x.kind \notin {"upgrade", "downgrade"} => x.view.revision = x.base
    /\ x.view.objects = Fresh[x.view.revision]
    /\ x.view.revision < 4 => x.view.usage = 0

Working == {"stepping", "unlocked"}

(* What a command x that has changed something knows: nobody else commits,  *)
(* and where its revisions need it nobody writes artifacts.                 *)
ChangeTrue(x) ==
    /\ x.base = catalog.revision
    /\ x.base < 4 /\ x.view.revision >= 4 => x.view.usage = Cardinality(holders)
    /\ x.view.revision < 3 => ~Collision

HasChanged(x) == x.at \in Working /\ x.view.revision # x.base

CommandTrue(x) ==
    /\ x \in SchemaCommands
    /\ x.kind = "upgrade" => x.to = LatestRevision
    /\ x.at \in Working => ViewTrue(x)
    /\ HasChanged(x) => ChangeTrue(x)

CatalogTrue ==
    /\ catalog \in SchemaStates /\ catalog.objects = Fresh[catalog.revision]
    /\ IsFiniteSet(holders)
    /\ catalog.revision < 3 => ~Collision
    /\ catalog.usage = IF catalog.revision < 4 THEN 0 ELSE Cardinality(holders)

OneChanges == \A p, q \in Migrators : HasChanged(migrator[p]) /\ HasChanged(migrator[q]) => p = q

MigrationsInv ==
    /\ CatalogTrue
    /\ migrator = [p \in Migrators |-> migrator[p]]
    /\ \A p \in Migrators : CommandTrue(migrator[p])
    /\ OneChanges

(* The revisions by number *)
LEMMA NumbersOfRevisions ==
    /\ LatestRevision = 9 /\ Revisions = 0 .. 9
    /\ \A r \in Revisions : Fresh[r] \in {Fresh[q] : q \in Revisions}
BY DEF LatestRevision, Revisions

(* The empty command *)
LEMMA IdleIsTrue ==
    ASSUME CatalogTrue
    PROVE  CommandTrue(IdleCommand) /\ ~HasChanged(IdleCommand)
<1>1. Fresh[0] = {}
  BY FreshSteps
<1>2. IdleCommand \in SchemaCommands
  BY <1>1, NumbersOfRevisions DEF IdleCommand, SchemaCommands, CommandStages, CommandKinds, SchemaStates
<1> QED
  BY <1>2 DEF IdleCommand, CommandTrue, HasChanged, Working

(* MigrationsInit *)
LEMMA MigrationsStart ==
    MigrationsInit => MigrationsInv
<1> SUFFICES ASSUME MigrationsInit PROVE MigrationsInv
  OBVIOUS
<1>1. IsFiniteSet(holders) /\ Cardinality(holders) = 0
  BY FS_EmptySet DEF MigrationsInit
<1>2. CatalogTrue
  <2> PICK r \in {0, 9} : catalog = [revision |-> r, objects |-> Fresh[r], usage |-> 0]
    BY DEF MigrationsInit, LatestRevision
  <2> QED
    BY <1>1, NumbersOfRevisions DEF CatalogTrue, SchemaStates, Collision
<1>3. \A p \in Migrators : migrator[p] = IdleCommand
  BY DEF MigrationsInit
<1>4. migrator = [p \in Migrators |-> migrator[p]]
  BY DEF MigrationsInit
<1> QED
  BY <1>2, <1>3, <1>4, IdleIsTrue DEF MigrationsInv, OneChanges

(* A command writes its own record; the others' facts stay where the catalog and the holders do. *)
LEMMA OneSchemaCommand ==
    ASSUME MigrationsInv, NEW p \in Migrators, NEW n,
           migrator' = [migrator EXCEPT ![p] = n], UNCHANGED <<catalog, holders>>,
           CommandTrue(n), HasChanged(n) => \A q \in Migrators \ {p} : ~HasChanged(migrator[q])
    PROVE  MigrationsInv'
<1>1. CatalogTrue'
  BY DEF MigrationsInv, CatalogTrue, Collision
<1>2. \A q \in Migrators : migrator'[q] = IF q = p THEN n ELSE migrator[q]
  BY DEF MigrationsInv
<1>3. migrator' = [q \in Migrators |-> migrator'[q]]
  BY DEF MigrationsInv
<1>4. ASSUME NEW x, CommandTrue(x) PROVE CommandTrue(x)'
  BY <1>4 DEF CommandTrue, ChangeTrue, Collision
<1>5. \A q \in Migrators : CommandTrue(migrator[q])'
  BY <1>2, <1>4 DEF MigrationsInv, CommandTrue, ViewTrue, ChangeTrue, HasChanged, Collision
<1>6. OneChanges'
  BY <1>2 DEF MigrationsInv, OneChanges, HasChanged
<1> QED
  BY <1>1, <1>3, <1>5, <1>6 DEF MigrationsInv

(* BeginCommand *)
LEMMA BeginKeepsSchema ==
    ASSUME MigrationsInv, NEW p \in Migrators, BeginCommand(p)
    PROVE  MigrationsInv'
<1> PICK kind \in {"upgrade", "downgrade", "check", "current"}, to \in Targets \cup {LatestRevision} :
        /\ (kind = "downgrade") <=> (to # LatestRevision)
        /\ OnlyMigrator(p, [IdleCommand EXCEPT !.at = "locked", !.kind = kind, !.to = to])
  BY DEF BeginCommand
<1> DEFINE n == [IdleCommand EXCEPT !.at = "locked", !.kind = kind, !.to = to]
<1>1. IdleCommand \in SchemaCommands
  BY IdleIsTrue DEF MigrationsInv, CommandTrue
<1>2. to \in Revisions /\ n \in SchemaCommands
  <2>1. to \in Revisions
    BY MigrationsAssumption DEF Revisions, LatestRevision
  <2>2. "locked" \in CommandStages /\ kind \in CommandKinds
    BY DEF CommandStages, CommandKinds
  <2> QED
    BY <1>1, <2>1, <2>2 DEF SchemaCommands
<1>3. n.at = "locked" /\ n.kind = kind /\ n.to = to
  BY DEF IdleCommand
<1>4. migrator' = [migrator EXCEPT ![p] = n] /\ UNCHANGED <<catalog, holders>>
  BY DEF BeginCommand, OnlyMigrator
<1> HIDE DEF n
<1>5. CommandTrue(n) /\ ~HasChanged(n)
  BY <1>2, <1>3 DEF CommandTrue, HasChanged, Working
<1> QED
  BY <1>4, <1>5, OneSchemaCommand

(* Abandon, for every refusal, failed statement and lost process *)
LEMMA AbandonKeepsSchema ==
    ASSUME MigrationsInv, NEW p \in Migrators, Abandon(p)
    PROVE  MigrationsInv'
  BY IdleIsTrue, OneSchemaCommand DEF Abandon, OnlyMigrator, MigrationsInv

(* Preflight *)
LEMMA PreflightKeepsSchema ==
    ASSUME MigrationsInv, NEW p \in Migrators, Preflight(p)
    PROVE  MigrationsInv'
<1>1. CASE Abandon(p)
  BY <1>1, AbandonKeepsSchema
<1>2. CASE OnlyMigrator(p, [migrator[p] EXCEPT !.at = "checked"]) /\ UNCHANGED catalog
  <2> DEFINE n == [migrator[p] EXCEPT !.at = "checked"]
  <2>1. CommandTrue(migrator[p])
    BY DEF MigrationsInv
  <2>2. n \in SchemaCommands /\ n.at = "checked" /\ n.kind = migrator[p].kind /\ n.to = migrator[p].to
    BY <2>1 DEF CommandTrue, SchemaCommands, CommandStages
  <2>3. migrator' = [migrator EXCEPT ![p] = n] /\ UNCHANGED <<catalog, holders>>
    BY <1>2 DEF OnlyMigrator
  <2> HIDE DEF n
  <2>4. CommandTrue(n) /\ ~HasChanged(n)
    BY <2>1, <2>2 DEF CommandTrue, HasChanged, Working
  <2> QED
    BY <2>3, <2>4, OneSchemaCommand
<1> QED
  BY <1>1, <1>2 DEF Preflight

(* PlanSteps: the revision and the schema it starts from are the committed ones. *)
LEMMA PlanKeepsSchema ==
    ASSUME MigrationsInv, NEW p \in Migrators, PlanSteps(p)
    PROVE  MigrationsInv'
<1>1. CASE Abandon(p)
  BY <1>1, AbandonKeepsSchema
<1>2. CASE /\ OnlyMigrator(p, [migrator[p] EXCEPT
                   !.at = "stepping", !.base = catalog.revision, !.view = catalog])
           /\ UNCHANGED catalog
           /\ migrator[p].kind = "downgrade" => migrator[p].to <= catalog.revision
  <2> DEFINE n == [migrator[p] EXCEPT !.at = "stepping", !.base = catalog.revision, !.view = catalog]
  <2>1. CommandTrue(migrator[p]) /\ CatalogTrue
    BY DEF MigrationsInv
  <2>2. catalog \in SchemaStates /\ catalog.revision \in Revisions
    BY <2>1 DEF CatalogTrue, SchemaStates
  <2>3. n \in SchemaCommands
    BY <2>1, <2>2 DEF CommandTrue, SchemaCommands, CommandStages
  <2>4. /\ n.at = "stepping" /\ n.kind = migrator[p].kind /\ n.to = migrator[p].to
        /\ n.base = catalog.revision /\ n.view = catalog
    BY <2>1 DEF CommandTrue, SchemaCommands
  <2>5. migrator' = [migrator EXCEPT ![p] = n] /\ UNCHANGED <<catalog, holders>>
    BY <1>2 DEF OnlyMigrator
  <2> HIDE DEF n
  <2>6. ViewTrue(n)
    BY <1>2, <2>1, <2>2, <2>4, NumbersOfRevisions DEF ViewTrue, CatalogTrue
  <2>7. CommandTrue(n) /\ ~HasChanged(n)
    BY <2>1, <2>3, <2>4, <2>6 DEF CommandTrue, HasChanged, Working
  <2> QED
    BY <2>5, <2>7, OneSchemaCommand
<1> QED
  BY <1>1, <1>2 DEF PlanSteps

(* Unlock gives the lock back before the transaction ends. *)
LEMMA UnlockKeepsSchema ==
    ASSUME MigrationsInv, NEW p \in Migrators, Unlock(p)
    PROVE  MigrationsInv'
<1> DEFINE n == [migrator[p] EXCEPT !.at = "unlocked"]
<1>1. CommandTrue(migrator[p]) /\ migrator[p].at = "stepping"
  BY DEF MigrationsInv, Unlock, At
<1>2. /\ n \in SchemaCommands /\ n.at = "unlocked" /\ n.kind = migrator[p].kind /\ n.to = migrator[p].to
      /\ n.base = migrator[p].base /\ n.view = migrator[p].view
  BY <1>1 DEF CommandTrue, SchemaCommands, CommandStages
<1>3. migrator' = [migrator EXCEPT ![p] = n] /\ UNCHANGED <<catalog, holders>>
  BY DEF Unlock, OnlyMigrator
<1> HIDE DEF n
<1>4. HasChanged(n) = HasChanged(migrator[p])
  BY <1>1, <1>2 DEF HasChanged, Working
<1>5. CommandTrue(n)
  BY <1>1, <1>2, <1>4 DEF CommandTrue, ViewTrue, ChangeTrue, Working
<1>6. HasChanged(n) => \A q \in Migrators \ {p} : ~HasChanged(migrator[q])
  BY <1>4 DEF MigrationsInv, OneChanges
<1> QED
  BY <1>3, <1>5, <1>6, OneSchemaCommand

(* ApplyRevision: one revision up lays its own objects on the ones before it. *)
LEMMA UpKeepsCommand ==
    ASSUME MigrationsInv, NEW x, CommandTrue(x), x.at = "stepping", x.kind = "upgrade",
           x.view.revision # x.to, x.base = catalog.revision
    PROVE  CommandTrue([x EXCEPT !.view = Upgraded(@)])
<1> DEFINE r == x.view.revision + 1
           u == [revision |-> r, objects |-> Revised(x.view.objects, r),
                 usage |-> IF r = 4 THEN Cardinality(holders) ELSE x.view.usage]
           n == [x EXCEPT !.view = Upgraded(@)]
<1>1. /\ x \in SchemaCommands /\ x.view \in SchemaStates /\ x.to = 9 /\ x.base \in 0 .. 9
      /\ x.view.revision \in 0 .. 9 /\ x.view.usage \in Nat
      /\ x.base <= x.view.revision /\ x.view.objects = Fresh[x.view.revision]
      /\ x.view.revision < 4 => x.view.usage = 0
  BY NumbersOfRevisions DEF CommandTrue, SchemaCommands, SchemaStates, ViewTrue, Working
<1>2. x.view.revision \in 0 .. 8 /\ r \in 1 .. 9 /\ r - 1 = x.view.revision
  BY <1>1
<1>3. Revised(x.view.objects, r) = Fresh[r]
  BY <1>1, <1>2, FreshSteps, NumbersOfRevisions
<1>4. Cardinality(holders) \in Nat
  BY FS_CardinalityType DEF MigrationsInv, CatalogTrue
<1>5. u.usage \in Nat /\ (r < 4 => u.usage = 0) /\ (r = 4 => u.usage = Cardinality(holders))
      /\ (r > 4 => u.usage = x.view.usage)
  BY <1>1, <1>2, <1>4
<1>6. u \in SchemaStates /\ u.revision = r /\ u.objects = Fresh[r]
  <2>1. r \in Revisions /\ Fresh[r] \in {Fresh[q] : q \in Revisions}
    BY <1>2, NumbersOfRevisions
  <2> QED
    BY <1>3, <1>5, <2>1 DEF SchemaStates
<1>7. Upgraded(x.view) = u
  BY DEF Upgraded, Revised
<1> HIDE DEF u, r
<1>8. /\ n \in SchemaCommands /\ n.at = "stepping" /\ n.kind = "upgrade" /\ n.to = x.to /\ n.base = x.base
      /\ n.view = u
  BY <1>1, <1>6, <1>7 DEF SchemaCommands
<1> HIDE DEF n
<1>9. ViewTrue(n)
  BY <1>1, <1>2, <1>5, <1>6, <1>8 DEF ViewTrue
<1>10. ChangeTrue(n)
  <2>1. r > 4 /\ x.base < 4 => HasChanged(x)
    BY <1>1, <1>2 DEF HasChanged, Working
  <2>2. r > 4 /\ x.base < 4 => x.view.usage = Cardinality(holders)
    BY <1>1, <1>2, <2>1 DEF CommandTrue, ChangeTrue
  <2>3. r >= 4 /\ x.base < 4 => u.usage = Cardinality(holders)
    BY <1>2, <1>5, <2>2
  <2>4. r < 3 => ~Collision
    BY <1>1, <1>2 DEF MigrationsInv, CatalogTrue
  <2> QED
    BY <1>6, <1>8, <2>3, <2>4 DEF ChangeTrue
<1>11. CommandTrue(n)
  BY <1>1, <1>8, <1>9, <1>10 DEF CommandTrue, LatestRevision
<1> QED
  BY <1>11 DEF n

(* One revision down takes away what that revision laid down. *)
LEMMA DownKeepsCommand ==
    ASSUME MigrationsInv, NEW x, CommandTrue(x), x.at = "stepping", x.kind = "downgrade",
           x.view.revision # x.to, x.base = catalog.revision,
           x.view.revision = 3 => ~Collision
    PROVE  CommandTrue([x EXCEPT !.view = Downgraded(@)])
<1> DEFINE r == x.view.revision
           u == [revision |-> r - 1, objects |-> (x.view.objects \ Drops(x.view.objects, r)) \cup OldKey(r),
                 usage |-> IF r = 4 THEN 0 ELSE x.view.usage]
           n == [x EXCEPT !.view = Downgraded(@)]
<1>1. /\ x \in SchemaCommands /\ x.view \in SchemaStates /\ x.to \in 0 .. 9 /\ x.base \in 0 .. 9
      /\ x.view.revision \in 0 .. 9 /\ x.view.usage \in Nat
      /\ x.to <= x.view.revision /\ x.view.revision <= x.base
      /\ x.view.objects = Fresh[x.view.revision]
      /\ x.view.revision < 4 => x.view.usage = 0
  BY NumbersOfRevisions DEF CommandTrue, SchemaCommands, SchemaStates, ViewTrue, Working
<1>2. r \in 1 .. 9 /\ r - 1 \in 0 .. 8 /\ x.to <= r - 1
  BY <1>1
<1>3. (x.view.objects \ Drops(x.view.objects, r)) \cup OldKey(r) = Fresh[r - 1]
  <2>1. r \in 1 .. LatestRevision
    BY <1>2, NumbersOfRevisions
  <2> HIDE DEF r
  <2>2. (Fresh[r] \ Drops(Fresh[r], r)) \cup OldKey(r) = Fresh[r - 1]
    BY <2>1, Undone
  <2>3. x.view.objects = Fresh[r]
    BY <1>1 DEF r
  <2> QED
    BY <2>2, <2>3
<1>5. u.usage \in Nat /\ (r - 1 < 4 => u.usage = 0)
  BY <1>1, <1>2
<1>6. u \in SchemaStates /\ u.revision = r - 1 /\ u.objects = Fresh[r - 1]
  <2>1. r - 1 \in Revisions /\ Fresh[r - 1] \in {Fresh[q] : q \in Revisions}
    BY <1>2, NumbersOfRevisions
  <2> QED
    BY <1>3, <1>5, <2>1 DEF SchemaStates
<1>7. Downgraded(x.view) = u
  BY DEF Downgraded, OldKey
<1> HIDE DEF u, r
<1>8. /\ n \in SchemaCommands /\ n.at = "stepping" /\ n.kind = "downgrade" /\ n.to = x.to /\ n.base = x.base
      /\ n.view = u
  BY <1>1, <1>6, <1>7 DEF SchemaCommands
<1> HIDE DEF n
<1>9. ViewTrue(n)
  BY <1>1, <1>2, <1>5, <1>6, <1>8 DEF ViewTrue, r
<1>10. ChangeTrue(n)
  <2>1. r - 1 < 3 => ~Collision
    <3>1. r - 1 < 3 => r <= 3
      BY <1>2
    <3>2. CASE r = 3
      BY <3>2 DEF r
    <3>3. CASE r < 3 /\ r = x.base
      BY <3>3 DEF r, MigrationsInv, CatalogTrue
    <3>4. CASE r < 3 /\ r # x.base
      BY <3>4 DEF r, CommandTrue, HasChanged, Working, ChangeTrue
    <3> QED
      BY <1>2, <3>1, <3>2, <3>3, <3>4
  <2>2. ~(x.base < 4 /\ r - 1 >= 4)
    BY <1>1, <1>2 DEF r
  <2> QED
    BY <1>6, <1>8, <2>1, <2>2 DEF ChangeTrue
<1>11. CommandTrue(n)
  BY <1>1, <1>8, <1>9, <1>10 DEF CommandTrue, LatestRevision
<1> QED
  BY <1>11 DEF n

(* ApplyRevision: while it changes something, no other command has. *)
LEMMA ApplyKeepsSchema ==
    ASSUME MigrationsInv, NEW p \in Migrators, ApplyRevision(p)
    PROVE  MigrationsInv'
<1>1. CommandTrue(migrator[p]) /\ migrator[p].at = "stepping" /\ migrator[p].view.revision # migrator[p].to
  BY DEF MigrationsInv, ApplyRevision, At
<1>2. \A q \in Migrators \ {p} : ~HasChanged(migrator[q])
  BY DEF ApplyRevision, WaitsForOther, Changed, HasChanged, Working
<1>3. CASE Abandon(p)
  BY <1>3, AbandonKeepsSchema
<1>4. CASE /\ migrator[p].kind = "upgrade" /\ UpgradeAccepted(p) /\ UNCHANGED catalog
           /\ OnlyMigrator(p, [migrator[p] EXCEPT !.view = Upgraded(@)])
  <2> DEFINE n == [migrator[p] EXCEPT !.view = Upgraded(@)]
  <2>1. CommandTrue(n)
    BY <1>1, <1>4, UpKeepsCommand DEF UpgradeAccepted
  <2>2. migrator' = [migrator EXCEPT ![p] = n] /\ UNCHANGED <<catalog, holders>>
    BY <1>4 DEF OnlyMigrator
  <2> HIDE DEF n
  <2> QED
    BY <1>2, <2>1, <2>2, OneSchemaCommand
<1>5. CASE /\ migrator[p].kind = "downgrade" /\ DowngradeAccepted(p) /\ UNCHANGED catalog
           /\ OnlyMigrator(p, [migrator[p] EXCEPT !.view = Downgraded(@)])
  <2> DEFINE n == [migrator[p] EXCEPT !.view = Downgraded(@)]
  <2>1. CommandTrue(n)
    BY <1>1, <1>5, DownKeepsCommand DEF DowngradeAccepted
  <2>2. migrator' = [migrator EXCEPT ![p] = n] /\ UNCHANGED <<catalog, holders>>
    BY <1>5 DEF OnlyMigrator
  <2> HIDE DEF n
  <2> QED
    BY <1>2, <2>1, <2>2, OneSchemaCommand
<1> QED
  BY <1>3, <1>4, <1>5 DEF ApplyRevision

(* CommitCommand: what it commits is its own view, with the usage that others counted. *)
LEMMA CommitKeepsSchema ==
    ASSUME MigrationsInv, NEW p \in Migrators, CommitCommand(p)
    PROVE  MigrationsInv'
<1> DEFINE x == migrator[p]
           v == x.view
           u == [v EXCEPT !.usage = IF v.revision < 4 \/ x.base < 4 THEN @ ELSE catalog.usage]
<1>1. CommandTrue(x) /\ x.at = "unlocked" /\ CatalogTrue
  BY DEF MigrationsInv, CommitCommand, At
<1>2. migrator' = [migrator EXCEPT ![p] = IdleCommand]
  BY DEF CommitCommand
<1>3. CASE ~Changed(p)
  BY <1>1, <1>2, <1>3, IdleIsTrue, OneSchemaCommand DEF CommitCommand
<1>4. CASE Changed(p)
  <2>1. /\ HasChanged(x) /\ ViewTrue(x) /\ ChangeTrue(x)
        /\ \A q \in Migrators \ {p} : ~HasChanged(migrator[q])
    BY <1>1, <1>4 DEF Changed, HasChanged, Working, CommandTrue, MigrationsInv, OneChanges
  <2>2. v \in SchemaStates /\ catalog \in SchemaStates /\ x.base \in 0 .. 9 /\ v.revision \in 0 .. 9
    BY <1>1, NumbersOfRevisions DEF CommandTrue, SchemaCommands, CatalogTrue, SchemaStates
  <2>3. /\ u \in SchemaStates /\ u.revision = v.revision /\ u.objects = v.objects
        /\ u.usage = IF v.revision < 4 \/ x.base < 4 THEN v.usage ELSE catalog.usage
    BY <2>2 DEF SchemaStates
  <2>4. catalog' = u
    BY <1>4 DEF CommitCommand
  <2>5. holders' = IF v.revision = 0 THEN {} ELSE holders
    BY <1>4 DEF CommitCommand
  <2> HIDE DEF u
  <2>6. IsFiniteSet(holders') /\ (holders' # holders => v.revision = 0 /\ Cardinality(holders') = 0)
    BY <1>1, <2>5, FS_EmptySet DEF CatalogTrue
  <2>7. catalog'.objects = Fresh[catalog'.revision]
    BY <2>1, <2>3, <2>4 DEF ViewTrue
  <2>8. catalog'.revision < 3 => ~(Cardinality(holders') > 1)
    BY <2>1, <2>3, <2>4, <2>6 DEF ChangeTrue, Collision
  <2>9. catalog'.usage = IF catalog'.revision < 4 THEN 0 ELSE Cardinality(holders')
    <3>1. CASE v.revision < 4
      BY <2>1, <2>3, <2>4, <3>1 DEF ViewTrue
    <3>2. CASE v.revision >= 4 /\ x.base < 4
      BY <2>1, <2>2, <2>3, <2>4, <2>6, <3>2 DEF ChangeTrue
    <3>3. CASE v.revision >= 4 /\ x.base >= 4
      BY <1>1, <2>1, <2>2, <2>3, <2>4, <2>6, <3>3 DEF ChangeTrue, CatalogTrue
    <3> QED
      BY <2>2, <3>1, <3>2, <3>3
  <2>10. CatalogTrue'
    BY <2>3, <2>4, <2>6, <2>7, <2>8, <2>9 DEF CatalogTrue, Collision
  <2>11. \A q \in Migrators : migrator'[q] = IF q = p THEN IdleCommand ELSE migrator[q]
    BY <1>2 DEF MigrationsInv
  <2>12. CommandTrue(IdleCommand) /\ ~HasChanged(IdleCommand)
    BY <1>1, IdleIsTrue
  <2>13. \A q \in Migrators : CommandTrue(migrator'[q]) /\ ~HasChanged(migrator'[q])
    BY <2>1, <2>11, <2>12 DEF MigrationsInv
  <2>14. \A q \in Migrators : CommandTrue(migrator[q])'
    BY <2>13 DEF CommandTrue, ViewTrue, HasChanged
  <2>15. OneChanges'
    BY <2>13 DEF OneChanges, HasChanged
  <2>16. migrator' = [q \in Migrators |-> migrator'[q]]
    BY <1>2 DEF MigrationsInv
  <2> QED
    BY <2>10, <2>14, <2>15, <2>16 DEF MigrationsInv
<1> QED
  BY <1>3, <1>4

(* StoreArtifact: a command whose revisions need the rows kept still makes the writer wait. *)
LEMMA StoreKeepsSchema ==
    ASSUME MigrationsInv, NEW s, StoreArtifact(s)
    PROVE  MigrationsInv'
<1>1. CatalogTrue /\ UNCHANGED migrator
  BY DEF MigrationsInv, StoreArtifact
<1>2. catalog \in SchemaStates /\ catalog.revision \in 0 .. 9 /\ catalog.usage \in Nat
  BY <1>1, NumbersOfRevisions DEF CatalogTrue, SchemaStates
<1>3. IsFiniteSet(holders') /\ Cardinality(holders') = Cardinality(holders) + 1 /\ Cardinality(holders) \in Nat
  BY <1>1, FS_AddElement, FS_CardinalityType DEF CatalogTrue, StoreArtifact
<1>4. /\ catalog' \in SchemaStates /\ catalog'.revision = catalog.revision
      /\ catalog'.objects = catalog.objects
      /\ catalog'.usage = IF catalog.revision >= 4 THEN catalog.usage + 1 ELSE catalog.usage
  BY <1>2 DEF StoreArtifact, SchemaStates
<1>5. catalog.revision < 3 => Cardinality(holders') = 1
  BY <1>3, FS_EmptySet DEF StoreArtifact
<1>6. CatalogTrue'
  <2>1. catalog'.usage = IF catalog'.revision < 4 THEN 0 ELSE Cardinality(holders')
    BY <1>1, <1>2, <1>3, <1>4 DEF CatalogTrue
  <2>2. catalog'.revision < 3 => ~(Cardinality(holders') > 1)
    BY <1>4, <1>5
  <2> QED
    BY <1>1, <1>3, <1>4, <2>1, <2>2 DEF CatalogTrue, Collision
<1>7. ASSUME NEW p \in Migrators, HasChanged(migrator[p]) PROVE ChangeTrue(migrator[p])'
  <2> DEFINE x == migrator[p]
  <2>1. x.base = catalog.revision /\ x.base \in 0 .. 9 /\ x.view.revision \in 0 .. 9
    BY <1>7, NumbersOfRevisions DEF MigrationsInv, CommandTrue, ChangeTrue, SchemaCommands, SchemaStates
  <2>2. x.view.revision # x.base /\ ~BlocksWriters(p) /\ catalog.revision >= 1
    BY <1>7 DEF HasChanged, Working, StoreArtifact, Changed
  <2>3. ~(x.base < 4 /\ x.view.revision >= 4)
    <3>1. 4 \in 1 .. LatestRevision /\ 4 \in {1, 3, 4, 5, 7}
      BY NumbersOfRevisions
    <3> QED
      BY <2>1, <2>2, <3>1 DEF BlocksWriters
  <2>4. ASSUME x.view.revision < 3 PROVE ~(Cardinality(holders') > 1)
    <3>1. ~(x.view.revision < x.base)
      <4> DEFINE r == x.view.revision + 1
      <4>1. r \in 1 .. LatestRevision /\ r # 6 /\ x.view.revision < r
        BY <2>1, <2>4, NumbersOfRevisions
      <4>2. x.view.revision < x.base => r <= x.base
        BY <2>1
      <4> HIDE DEF r
      <4> QED
        BY <2>2, <4>1, <4>2 DEF BlocksWriters
    <3>2. catalog.revision < 3
      BY <2>1, <2>2, <2>4, <3>1
    <3> QED
      BY <1>5, <3>2
  <2>5. migrator'[p] = x /\ catalog'.revision = catalog.revision
    BY <1>1, <1>4
  <2> QED
    BY <2>1, <2>3, <2>4, <2>5 DEF ChangeTrue, Collision
<1>8. \A p \in Migrators : CommandTrue(migrator[p])'
  BY <1>1, <1>7 DEF MigrationsInv, CommandTrue, ViewTrue, HasChanged
<1>9. OneChanges'
  BY <1>1 DEF MigrationsInv, OneChanges, HasChanged
<1>10. migrator' = [q \in Migrators |-> migrator'[q]]
  BY <1>1 DEF MigrationsInv
<1> QED
  BY <1>6, <1>8, <1>9, <1>10 DEF MigrationsInv

(* Every step keeps the schema. *)
LEMMA SchemaStep ==
    ASSUME MigrationsInv, [MigrationsNext]_migrationVars
    PROVE  MigrationsInv'
<1>1. CASE UNCHANGED migrationVars
  BY <1>1 DEF migrationVars, MigrationsInv, CatalogTrue, Collision, CommandTrue, ViewTrue, ChangeTrue,
              HasChanged, OneChanges
<1>2. ASSUME NEW p \in Migrators,
             \/ BeginCommand(p) \/ Preflight(p) \/ PlanSteps(p) \/ ApplyRevision(p)
             \/ Unlock(p) \/ CommitCommand(p) \/ LoseMigrator(p)
      PROVE  MigrationsInv'
  BY <1>2, BeginKeepsSchema, PreflightKeepsSchema, PlanKeepsSchema, ApplyKeepsSchema, UnlockKeepsSchema,
     CommitKeepsSchema, AbandonKeepsSchema DEF LoseMigrator
<1>3. ASSUME NEW s \in OwnedScopes, StoreArtifact(s) PROVE MigrationsInv'
  BY <1>3, StoreKeepsSchema
<1> QED
  BY <1>1, <1>2, <1>3 DEF MigrationsNext

(* Whatever commands ran, were refused or were lost, and in whatever order    *)
(* they overlapped with each other and with writers of artifacts: the         *)
(* committed schema is the one a new database has at that revision, the rows  *)
(* fit its unique key, quota usage counts them, and the head's tables are the *)
(* models' (persistence/alembic/env.py, persistence/migration_cli.py, the     *)
(* revisions 0001 to 0009).                                                   *)
THEOREM SchemaStaysTrue == MigrationsSpec => []SchemaTrue
<1>1. MigrationsInit => MigrationsInv
  BY MigrationsStart
<1>2. MigrationsInv /\ [MigrationsNext]_migrationVars => MigrationsInv'
  BY SchemaStep
<1>3. MigrationsInv => SchemaTrue
  BY LatestTables DEF MigrationsInv, CatalogTrue, SchemaTrue
<1> QED
  BY <1>1, <1>2, <1>3, PTL DEF MigrationsSpec

-----------------------------------------------------------------------------
(* Types *)

(* Who holds the lock and the rows, and what the owner may see *)
HoldersKnown == holders \subseteq OwnedScopes /\ ownerSees \in BOOLEAN /\ lockedBy \in Migrators \cup {"none"}

(* Only begun commands and the row locks move them. *)
LEMMA HoldersStep ==
    ASSUME HoldersKnown, [MigrationsNext]_migrationVars
    PROVE  HoldersKnown'
<1>1. ASSUME NEW p \in Migrators, Abandon(p) PROVE HoldersKnown'
  BY <1>1 DEF Abandon, OnlyMigrator, HoldersKnown
<1>2. ASSUME NEW p \in Migrators, BeginCommand(p) PROVE HoldersKnown'
  BY <1>2 DEF BeginCommand, OnlyMigrator, HoldersKnown
<1>3. ASSUME NEW p \in Migrators, Preflight(p) \/ PlanSteps(p) PROVE HoldersKnown'
  BY <1>1, <1>3 DEF Preflight, PlanSteps, OnlyMigrator, HoldersKnown
<1>4. ASSUME NEW p \in Migrators, ApplyRevision(p) PROVE HoldersKnown'
  BY <1>1, <1>4 DEF ApplyRevision, OnlyMigrator, HoldersKnown
<1>5. ASSUME NEW p \in Migrators, Unlock(p) PROVE HoldersKnown'
  BY <1>5 DEF Unlock, OnlyMigrator, HoldersKnown
<1>6. ASSUME NEW p \in Migrators, CommitCommand(p) PROVE HoldersKnown'
  BY <1>6 DEF CommitCommand, HoldersKnown
<1>7. ASSUME NEW p \in Migrators, LoseMigrator(p) PROVE HoldersKnown'
  BY <1>1, <1>7 DEF LoseMigrator
<1>8. ASSUME NEW s \in OwnedScopes, StoreArtifact(s) PROVE HoldersKnown'
  BY <1>8 DEF StoreArtifact, HoldersKnown
<1>9. CASE UNCHANGED migrationVars
  BY <1>9 DEF migrationVars, HoldersKnown
<1> QED
  BY <1>2, <1>3, <1>4, <1>5, <1>6, <1>7, <1>8, <1>9 DEF MigrationsNext

(* With them every part of the schema's state is within its type. *)
LEMMA MigrationTypesHold ==
    ASSUME MigrationsInv, HoldersKnown
    PROVE  MigrationsTypeOK
<1>1. Cardinality(holders) <= Cardinality(OwnedScopes) /\ Cardinality(OwnedScopes) \in Nat
      /\ Cardinality(holders) \in Nat
  BY MigrationsAssumption, FS_Subset, FS_CardinalityType DEF HoldersKnown, MigrationsInv, CatalogTrue
<1>2. catalog.usage \in 0 .. Cardinality(OwnedScopes)
  BY <1>1 DEF MigrationsInv, CatalogTrue
<1>3. catalog.revision \in Revisions /\ catalog.objects = Fresh[catalog.revision]
  BY DEF MigrationsInv, CatalogTrue, SchemaStates
<1>4. catalog.objects \subseteq UNION {Fresh[r] : r \in 0 .. LatestRevision}
  BY <1>3 DEF Revisions
<1>5. \A p \in Migrators : migrator[p].at \in CommandStages
  BY DEF MigrationsInv, CommandTrue, SchemaCommands
<1> QED
  BY <1>2, <1>3, <1>4, <1>5 DEF MigrationsTypeOK, HoldersKnown, Revisions, CommandStages

(* The committed schema only has objects some revision creates, quota      *)
(* usage never counts more rows than there are scopes to hold one, and the *)
(* lock belongs to a command that runs (_run_migrations, the upgrades and  *)
(* downgrades of 0001 to 0009).                                            *)
THEOREM MigrationTypesKept == MigrationsSpec => []MigrationsTypeOK
<1>1. MigrationsInit => MigrationsInv /\ HoldersKnown
  BY MigrationsStart DEF MigrationsInit, HoldersKnown
<1>2. MigrationsInv /\ HoldersKnown /\ [MigrationsNext]_migrationVars => MigrationsInv' /\ HoldersKnown'
  BY SchemaStep, HoldersStep
<1>3. MigrationsInv /\ HoldersKnown => MigrationsTypeOK
  BY MigrationTypesHold
<1> QED
  BY <1>1, <1>2, <1>3, PTL DEF MigrationsSpec

-----------------------------------------------------------------------------
(***************************************************************************)
(* Backup bundles and restore drills (PostgresContinuity), for any number  *)
(* of bundles and drills and any relations.                                *)
(***************************************************************************)

(* How far a backup is *)
Dumped == {"described", "manifested", "digested", "flushed", "entered", "renamed"}
Manifested == {"manifested", "digested", "flushed", "entered", "renamed"}
Digested == {"digested", "flushed", "entered", "renamed"}
Flushed == {"flushed", "entered", "renamed"}
Entered == {"entered", "renamed"}
InsideBackup == {"dumping", "described", "manifested", "digested", "flushed", "entered"}
BackupStages == {"idle", "dumping", "reported", "failed", "removed", "downloaded"} \cup Dumped

BundleStates == [name : Names, onDisk : Names, files : [Files -> {"none", "whole", "torn"}],
                 flushed : SUBSET Files, entered : SUBSET Files]

(* Complete, and nothing of it is lost when the power fails *)
Settled(x) == (\A f \in Files : x.files[f] = "whole") /\ x.flushed = Files /\ x.entered = Files

(* The directory x of a bundle whose backup is at stage s: what was written *)
(* and flushed by then, and that a bundle in view is complete.              *)
BundleTrue(x, s) ==
    /\ x \in BundleStates /\ s \in BackupStages
    /\ s \in Dumped => x.files["archive"] = "whole"
    /\ s \in Manifested => x.files["manifest"] = "whole" /\ "manifest" \in x.flushed
    /\ s \in Digested => x.files["digest"] = "whole" /\ "digest" \in x.flushed
    /\ s \in Flushed => "archive" \in x.flushed
    /\ s \in Entered => x.entered = Files
    /\ s \in InsideBackup => x.name = "partial"
    /\ s \in {"idle", "removed"} => x.name = "none" /\ x.onDisk = "none"
    /\ x.name = "final" /\ s # "downloaded" => Settled(x)
    /\ x.onDisk = "final" => x.name = "final"
    /\ s \in {"renamed", "reported"} => x.name = "final"
    /\ s = "reported" => x.onDisk = "final"

BundlesTrue ==
    /\ bundle = [b \in Bundles |-> bundle[b]] /\ backup = [b \in Bundles |-> backup[b]]
    /\ \A b \in Bundles : BundleTrue(bundle[b], backup[b])

DrillStages == Finished \cup {"verifying", "verified", "checked", "restoring", "restored"}
Relations == (UNION {RelationsOf[b] : b \in Bundles}) \cup Foreign \cup {"alembic_version"}
DrillStates == [at : DrillStages, bundle : Bundles \cup {"none"}, found : SUBSET Relations]

(* What a drill x at work knows of its bundle and of the target *)
DrillTrue(x) ==
    LET b == x.bundle IN
    /\ x \in DrillStates
    /\ x.at \notin Finished => b \in Bundles
    /\ x.at \in {"verified", "checked"} => (bundle[b].name = "final" => Whole(b))
    /\ x.at \in {"checked", "restoring"} => target = {} \/ "alembic_version" \in target
    /\ x.at = "restoring" => target = {} /\ x.found = RelationsOf[b]
    /\ x.at = "restored" => target = RelationsOf[b]
    /\ x.at = "reported" => x.found = RelationsOf[b]

(* One transaction restores at a time. *)
OneRestores == \A d, e \in Drills : drill[d].at = "restoring" /\ drill[e].at = "restoring" => d = e

DrillsTrue ==
    /\ drill = [d \in Drills |-> drill[d]] /\ target \subseteq Relations
    /\ \A d \in Drills : DrillTrue(drill[d])
    /\ OneRestores

ContinuityInv == BundlesTrue /\ DrillsTrue

-----------------------------------------------------------------------------
(* Bundles *)

(* One bundle changes. *)
LEMMA OneBundle ==
    ASSUME BundlesTrue, NEW b \in Bundles, NEW x, NEW s, BundleTrue(x, s),
           bundle' = [bundle EXCEPT ![b] = x], backup' = [backup EXCEPT ![b] = s]
    PROVE  /\ BundlesTrue' /\ bundle'[b] = x /\ backup'[b] = s
           /\ \A c \in Bundles \ {b} : bundle'[c] = bundle[c] /\ backup'[c] = backup[c]
<1>1. /\ \A c \in Bundles : bundle'[c] = IF c = b THEN x ELSE bundle[c]
      /\ \A c \in Bundles : backup'[c] = IF c = b THEN s ELSE backup[c]
      /\ bundle' = [c \in Bundles |-> bundle'[c]] /\ backup' = [c \in Bundles |-> backup'[c]]
  BY DEF BundlesTrue
<1>2. ASSUME NEW c \in Bundles PROVE BundleTrue(bundle'[c], backup'[c])
  BY <1>1 DEF BundlesTrue
<1>3. ASSUME NEW c \in Bundles PROVE BundleTrue(bundle[c], backup[c])'
  BY <1>2 DEF BundleTrue
<1> QED
  BY <1>1, <1>3 DEF BundlesTrue

(* What a step that writes one bundle leaves: it is no copy. *)
Wrote(b) ==
    /\ BundlesTrue' /\ backup'[b] # "downloaded"
    /\ \A c \in Bundles \ {b} : bundle'[c] = bundle[c]

BundleIs(b, y, s) == bundle' = [bundle EXCEPT ![b] = y] /\ backup' = [backup EXCEPT ![b] = s]

(* A bundle moves on as a backup that follows its order may. *)
LEMMA OneWritten ==
    ASSUME BundlesTrue, NEW b \in Bundles, NEW y, NEW s, BundleTrue(y, s), BundleIs(b, y, s),
           s # "downloaded"
    PROVE  Wrote(b)
  BY OneBundle DEF Wrote, BundleIs

(* The steps of a backup, from the directory to the rename *)
LEMMA BuildKeeps ==
    ASSUME BundlesTrue, NEW b \in Bundles,
           \/ NewPartial(b) \/ Dump(b) \/ WriteManifest(b) \/ WriteDigest(b) \/ FlushArchive(b)
           \/ FlushPartial(b) \/ RenameBundle(b)
    PROVE  Wrote(b)
<1> DEFINE x == bundle[b]
<1>1. x \in BundleStates /\ BundleTrue(x, backup[b])
  BY DEF BundlesTrue, BundleTrue
<1>3. CASE NewPartial(b)
  <2> DEFINE y == [x EXCEPT !.name = "partial"]
  <2>1. BundleIs(b, y, "dumping") /\ backup[b] = "idle"
    BY <1>3 DEF NewPartial, BackupTo, BundleIs
  <2>2. /\ y \in BundleStates /\ y.name = "partial" /\ y.onDisk = x.onDisk
    BY <1>1 DEF BundleStates, Names
  <2> HIDE DEF y, x
  <2>3. BundleTrue(y, "dumping")
    BY <1>1, <2>1, <2>2 DEF BundleTrue, BackupStages, Dumped, Manifested, Digested, Flushed, Entered, InsideBackup
  <2> QED
    BY <2>1, <2>3, OneWritten
<1>4. CASE Dump(b)
  <2> DEFINE y == [x EXCEPT !.files["archive"] = "whole"]
  <2>1. BundleIs(b, y, "described") /\ backup[b] = "dumping"
    BY <1>4 DEF Dump, BackupTo, BundleIs
  <2>2. /\ y \in BundleStates /\ y.name = x.name /\ y.onDisk = x.onDisk
        /\ y.files["archive"] = "whole"
    BY <1>1 DEF BundleStates, Names, Files
  <2> HIDE DEF y, x
  <2>3. BundleTrue(y, "described")
    BY <1>1, <2>1, <2>2 DEF BundleTrue, BackupStages, Dumped, Manifested, Digested, Flushed, Entered, InsideBackup
  <2> QED
    BY <2>1, <2>3, OneWritten
<1>5. CASE WriteManifest(b)
  <2> DEFINE y == Written(b, "manifest")
  <2>1. BundleIs(b, y, "manifested") /\ backup[b] = "described"
    BY <1>5 DEF WriteManifest, BackupTo, BundleIs
  <2>2. /\ y \in BundleStates /\ y.name = x.name /\ y.onDisk = x.onDisk
        /\ y.files["archive"] = x.files["archive"] /\ y.files["manifest"] = "whole"
        /\ y.flushed = x.flushed \cup {"manifest"}
    BY <1>1 DEF BundleStates, Names, Files, Written
  <2> HIDE DEF y, x
  <2>3. BundleTrue(y, "manifested")
    BY <1>1, <2>1, <2>2 DEF BundleTrue, BackupStages, Dumped, Manifested, Digested, Flushed, Entered, InsideBackup
  <2> QED
    BY <2>1, <2>3, OneWritten
<1>6. CASE WriteDigest(b)
  <2> DEFINE y == Written(b, "digest")
  <2>1. BundleIs(b, y, "digested") /\ backup[b] = "manifested"
    BY <1>6 DEF WriteDigest, BackupTo, BundleIs
  <2>2. /\ y \in BundleStates /\ y.name = x.name /\ y.onDisk = x.onDisk
        /\ y.files["archive"] = x.files["archive"] /\ y.files["manifest"] = x.files["manifest"]
        /\ y.files["digest"] = "whole" /\ y.flushed = x.flushed \cup {"digest"}
    BY <1>1 DEF BundleStates, Names, Files, Written
  <2> HIDE DEF y, x
  <2>3. BundleTrue(y, "digested")
    BY <1>1, <2>1, <2>2 DEF BundleTrue, BackupStages, Dumped, Manifested, Digested, Flushed, Entered, InsideBackup
  <2> QED
    BY <2>1, <2>3, OneWritten
<1>7. CASE FlushArchive(b)
  <2> DEFINE y == [x EXCEPT !.flushed = @ \cup {"archive"}]
  <2>1. BundleIs(b, y, "flushed") /\ backup[b] = "digested"
    BY <1>7 DEF FlushArchive, BackupTo, BundleIs
  <2>2. /\ y \in BundleStates /\ y.name = x.name /\ y.onDisk = x.onDisk /\ y.files = x.files
        /\ y.flushed = x.flushed \cup {"archive"}
    BY <1>1 DEF BundleStates, Names, Files
  <2> HIDE DEF y, x
  <2>3. BundleTrue(y, "flushed")
    BY <1>1, <2>1, <2>2 DEF BundleTrue, BackupStages, Dumped, Manifested, Digested, Flushed, Entered, InsideBackup
  <2> QED
    BY <2>1, <2>3, OneWritten
<1>8. CASE FlushPartial(b)
  <2> DEFINE y == [x EXCEPT !.entered = Files]
  <2>1. BundleIs(b, y, "entered") /\ backup[b] = "flushed"
    BY <1>8 DEF FlushPartial, BackupTo, BundleIs
  <2>2. /\ y \in BundleStates /\ y.name = x.name /\ y.onDisk = x.onDisk /\ y.files = x.files
        /\ y.flushed = x.flushed /\ y.entered = Files
    BY <1>1 DEF BundleStates
  <2> HIDE DEF y, x
  <2>3. BundleTrue(y, "entered")
    BY <1>1, <2>1, <2>2 DEF BundleTrue, BackupStages, Dumped, Manifested, Digested, Flushed, Entered, InsideBackup
  <2> QED
    BY <2>1, <2>3, OneWritten
<1>9. CASE RenameBundle(b)
  <2> DEFINE y == [x EXCEPT !.name = "final"]
  <2>1. BundleIs(b, y, "renamed") /\ backup[b] = "entered"
    BY <1>9 DEF RenameBundle, BackupTo, BundleIs
  <2>2. /\ y \in BundleStates /\ y.name = "final" /\ y.onDisk = x.onDisk /\ y.files = x.files
        /\ y.flushed = x.flushed /\ y.entered = x.entered
    BY <1>1 DEF BundleStates, Names
  <2>3. y.flushed = Files
    BY <1>1, <2>1, <2>2 DEF BundleTrue, BundleStates, Manifested, Digested, Flushed, Files
  <2> HIDE DEF y, x
  <2>4. BundleTrue(y, "renamed")
    BY <1>1, <2>1, <2>2, <2>3
       DEF BundleTrue, BackupStages, Dumped, Manifested, Digested, Flushed, Entered, InsideBackup, Settled, Files
  <2> QED
    BY <2>1, <2>4, OneWritten
<1> QED
  BY <1>3, <1>4, <1>5, <1>6, <1>7, <1>8, <1>9

(* A directory without files, as a step leaves one behind *)
LEMMA EmptyBundle ==
    /\ BundleTrue(NoBundle, "idle") /\ BundleTrue(NoBundle, "failed") /\ BundleTrue(NoBundle, "removed")
    /\ \A n \in Names : n # "final" =>
         BundleTrue([NoBundle EXCEPT !.name = n, !.onDisk = n], "failed")
<1>1. NoBundle \in BundleStates /\ NoBundle.name = "none" /\ NoBundle.onDisk = "none"
  BY DEF NoBundle, BundleStates, Names
<1>2. ASSUME NEW s \in {"idle", "failed", "removed"} PROVE BundleTrue(NoBundle, s)
  BY <1>1 DEF BundleTrue, BackupStages, Dumped, Manifested, Digested, Flushed, Entered, InsideBackup
<1>3. ASSUME NEW n \in Names, n # "final"
      PROVE  BundleTrue([NoBundle EXCEPT !.name = n, !.onDisk = n], "failed")
  <2> DEFINE y == [NoBundle EXCEPT !.name = n, !.onDisk = n]
  <2>1. y \in BundleStates /\ y.name = n /\ y.onDisk = n
    BY <1>1 DEF BundleStates
  <2> HIDE DEF y
  <2>2. BundleTrue(y, "failed")
    BY <1>3, <2>1 DEF BundleTrue, BackupStages, Dumped, Manifested, Digested, Flushed, Entered, InsideBackup
  <2> QED
    BY <2>2 DEF y
<1> QED
  BY <1>2, <1>3

(* BackupFails and RemoveBundle *)
LEMMA EndKeeps ==
    ASSUME BundlesTrue, NEW b \in Bundles, BackupFails(b) \/ RemoveBundle(b)
    PROVE  Wrote(b)
<1>1. BundleTrue(bundle[b], backup[b])
  BY DEF BundlesTrue
<1>2. CASE BackupFails(b)
  <2>1. /\ Building(b) /\ backup' = [backup EXCEPT ![b] = "failed"]
        /\ bundle' = IF bundle[b].name = "partial" THEN [bundle EXCEPT ![b] = NoBundle] ELSE bundle
    BY <1>2 DEF BackupFails
  <2>2. CASE bundle[b].name = "partial"
    <3>1. bundle' = [bundle EXCEPT ![b] = NoBundle] /\ BundleTrue(NoBundle, "failed")
      BY <2>1, <2>2, EmptyBundle
    <3> QED
      BY <2>1, <3>1, OneWritten DEF BundleIs
  <2>3. CASE bundle[b].name # "partial"
    <3>1. bundle' = [bundle EXCEPT ![b] = bundle[b]]
      BY <2>1, <2>3 DEF BundlesTrue
    <3>2. backup[b] = "renamed" /\ "failed" \notin InsideBackup \cup Dumped
      BY <1>1, <2>1, <2>3 DEF BundleTrue, Building, BackupStages, InsideBackup, Dumped
    <3>3. BundleTrue(bundle[b], "failed")
      BY <1>1, <3>2 DEF BundleTrue, BackupStages, Dumped, Manifested, Digested, Flushed, Entered, InsideBackup
    <3> QED
      BY <2>1, <3>1, <3>3, OneWritten DEF BundleIs
  <2> QED
    BY <2>2, <2>3
<1>3. CASE RemoveBundle(b)
  <2>1. /\ bundle' = [bundle EXCEPT ![b] = NoBundle] /\ backup' = [backup EXCEPT ![b] = "removed"]
        /\ BundleTrue(NoBundle, "removed")
    BY <1>3, EmptyBundle DEF RemoveBundle
  <2> QED
    BY <2>1, OneWritten DEF BundleIs
<1> QED
  BY <1>2, <1>3

(* The backup root is flushed: every name is on disk. *)
LEMMA ReportKeeps ==
    ASSUME BundlesTrue, NEW b \in Bundles, ReportBackup(b)
    PROVE  /\ BundlesTrue'
           /\ \A c \in Bundles : bundle'[c].name = bundle[c].name /\ bundle'[c].files = bundle[c].files
<1>1. /\ backup[b] = "renamed" /\ backup' = [backup EXCEPT ![b] = "reported"]
      /\ bundle' = FlushRoot
  BY DEF ReportBackup, BackupTo
<1>2. ASSUME NEW c \in Bundles
      PROVE  /\ BundleTrue(bundle'[c], backup'[c])
             /\ bundle'[c].name = bundle[c].name /\ bundle'[c].files = bundle[c].files
  <2> DEFINE x == bundle[c]
             y == [x EXCEPT !.onDisk = x.name]
  <2>1. BundleTrue(x, backup[c]) /\ bundle'[c] = y
    BY <1>1 DEF BundlesTrue, FlushRoot
  <2>2. backup'[c] = IF c = b THEN "reported" ELSE backup[c]
    BY <1>1 DEF BundlesTrue
  <2>3. /\ y \in BundleStates /\ y.name = x.name /\ y.onDisk = x.name /\ y.files = x.files
        /\ y.flushed = x.flushed /\ y.entered = x.entered
    BY <2>1 DEF BundleTrue, BundleStates
  <2> HIDE DEF x, y
  <2>4. BundleTrue(y, backup[c])
    BY <2>1, <2>3 DEF BundleTrue, Settled
  <2>5. CASE c = b
    <3>1. y.name = "final"
      BY <1>1, <2>1, <2>3, <2>5 DEF BundleTrue
    <3> QED
      BY <1>1, <2>1, <2>2, <2>3, <2>4, <2>5, <3>1
         DEF BundleTrue, BackupStages, Dumped, Manifested, Digested, Flushed, Entered, InsideBackup, x
  <2>6. CASE c # b
    BY <2>1, <2>2, <2>3, <2>4, <2>6 DEF x
  <2> QED
    BY <2>5, <2>6
<1>3. ASSUME NEW c \in Bundles PROVE BundleTrue(bundle[c], backup[c])'
  BY <1>2 DEF BundleTrue
<1>4. bundle' = [c \in Bundles |-> bundle'[c]] /\ backup' = [c \in Bundles |-> backup'[c]]
  BY <1>1 DEF BundlesTrue, FlushRoot
<1> QED
  BY <1>2, <1>3, <1>4 DEF BundlesTrue

(* DownloadBundle: a copy, whole or torn, without a backup of its own *)
LEMMA DownloadKeeps ==
    ASSUME BundlesTrue, NEW b \in Bundles, DownloadBundle(b)
    PROVE  BundlesTrue' /\ \A c \in Bundles \ {b} : bundle'[c] = bundle[c]
<1>1. PICK archive \in {"whole", "torn"} :
         bundle' = [bundle EXCEPT ![b] =
             [name |-> "final", onDisk |-> "final", flushed |-> Files, entered |-> Files,
              files |-> [f \in Files |-> IF f = "archive" THEN archive ELSE "whole"]]]
  BY DEF DownloadBundle
<1> DEFINE y == [name |-> "final", onDisk |-> "final", flushed |-> Files, entered |-> Files,
                 files |-> [f \in Files |-> IF f = "archive" THEN archive ELSE "whole"]]
<1>2. backup' = [backup EXCEPT ![b] = "downloaded"] /\ bundle' = [bundle EXCEPT ![b] = y]
  BY <1>1 DEF DownloadBundle, BackupTo
<1>3. y \in BundleStates /\ y.name = "final"
  BY DEF BundleStates, Names
<1> HIDE DEF y
<1>4. BundleTrue(y, "downloaded")
  BY <1>3 DEF BundleTrue, BackupStages, Dumped, Manifested, Digested, Flushed, Entered, InsideBackup
<1> QED
  BY <1>2, <1>4, OneBundle

(* What the power leaves of a bundle: in view, it is what it was. *)
LEMMA PowerKeeps ==
    ASSUME BundlesTrue, PowerFails
    PROVE  BundlesTrue'
<1>1. /\ bundle' = [b \in Bundles |-> bundle'[b]] /\ backup' = [b \in Bundles |-> backup'[b]]
      /\ \A b \in Bundles : bundle'[b] \in AfterPower(b)
      /\ \A b \in Bundles : backup'[b] = IF Building(b) THEN "failed" ELSE backup[b]
  BY DEF PowerFails
<1>2. ASSUME NEW b \in Bundles PROVE BundleTrue(bundle'[b], backup'[b])
  <2> DEFINE x == bundle[b]
             y == bundle'[b]
             s == backup'[b]
  <2>1. BundleTrue(x, backup[b]) /\ x \in BundleStates
    BY DEF BundlesTrue, BundleTrue
  <2>2. s = IF Building(b) THEN "failed" ELSE backup[b]
    BY <1>1
  <2>3. CASE backup[b] \in {"removed", "downloaded"} \/ (~Building(b) /\ x.name = x.onDisk)
    <3>0. AfterPower(b) = {x}
      BY <2>3 DEF AfterPower
    <3>1. y = x /\ ~Building(b)
      BY <1>1, <2>3, <3>0 DEF Building
    <3> QED
      BY <2>1, <2>2, <3>1
  <2>4. CASE ~(backup[b] \in {"removed", "downloaded"} \/ (~Building(b) /\ x.name = x.onDisk))
    <3>1. s = "failed"
      <4>1. backup[b] \in {"reported", "failed"} \/ Building(b)
        BY <2>1, <2>4 DEF BundleTrue, BackupStages, Building
      <4>2. backup[b] # "reported"
        BY <2>1, <2>4 DEF BundleTrue, Building
      <4> QED
        BY <2>2, <4>1, <4>2
    <3>2. \/ \E n \in {x.name, x.onDisk} \cap {"final"} : \E files \in Lost(b) :
                y = Recovered(b, n, files)
          \/ \E n \in {x.name, x.onDisk} \ {"final"} : y = [NoBundle EXCEPT !.name = n, !.onDisk = n]
      <4>1. y \in InView(b) \/ y \in OutOfView(b)
        BY <1>1, <2>4 DEF AfterPower
      <4> HIDE DEF y
      <4>2. CASE y \in InView(b)
        <5> DEFINE S == PowerNames(b) \cap {"final"}
                   T == Lost(b)
                   e(n, files) == Recovered(b, n, files)
        <5>1. y \in {e(n, files) : n \in S, files \in T}
          BY <4>2 DEF InView
        <5> HIDE DEF S, T, e
        <5>2. \E n \in S : \E files \in T : y = e(n, files)
          BY ONLY <5>1
        <5> QED
          BY <5>2 DEF PowerNames, S, T, e
      <4>3. CASE y \in OutOfView(b)
        BY <4>3 DEF OutOfView, PowerNames
      <4> QED
        BY <4>1, <4>2, <4>3
    <3>3. ASSUME NEW n \in {x.name, x.onDisk} \cap {"final"}, NEW files \in Lost(b),
                 y = Recovered(b, n, files)
          PROVE  BundleTrue(y, "failed")
      <4>1. n = "final" /\ Settled(x) /\ backup[b] # "downloaded"
        BY <2>1, <2>4, <3>3 DEF BundleTrue
      <4>2. Safe(b) = Files
        BY <4>1 DEF Settled, Safe
      <4>3. files \in [Files -> {"whole", "torn", "none"}] /\ \A f \in Files : files[f] = "whole"
        BY <4>1, <4>2 DEF Lost, Settled
      <4>4. /\ y.name = "final" /\ y.onDisk = "final" /\ y.files = files
            /\ y.flushed = Files /\ y.entered = Files
        BY <3>3, <4>1, <4>2 DEF Recovered
      <4>5. y \in BundleStates
        BY <3>3, <4>1, <4>2, <4>3 DEF BundleStates, Names, Recovered
      <4> HIDE DEF y
      <4> QED
        BY <4>3, <4>4, <4>5
           DEF BundleTrue, BackupStages, Dumped, Manifested, Digested, Flushed, Entered, InsideBackup, Settled
    <3>4. ASSUME NEW n \in {x.name, x.onDisk} \ {"final"}, y = [NoBundle EXCEPT !.name = n, !.onDisk = n]
          PROVE  BundleTrue(y, "failed")
      <4>1. n \in Names /\ n # "final"
        BY <2>1, <3>4 DEF BundleStates
      <4> QED
        BY <3>4, <4>1, EmptyBundle
    <3> QED
      BY <3>1, <3>2, <3>3, <3>4
  <2> QED
    BY <2>3, <2>4
<1>3. ASSUME NEW b \in Bundles PROVE BundleTrue(bundle[b], backup[b])'
  BY <1>2 DEF BundleTrue
<1> QED
  BY <1>1, <1>3 DEF BundlesTrue

-----------------------------------------------------------------------------
(* Drills *)

(* A bundle that a drill has verified stays whole while it is in view. *)
StaysWhole(b) ==
    (bundle[b].name = "final" => Whole(b)) => (bundle'[b].name = "final" => Whole(b)')

(* A step of a backup tears no bundle that was whole. *)
LEMMA WrittenStaysWhole ==
    ASSUME BundlesTrue, NEW b \in Bundles, Wrote(b)
    PROVE  \A c \in Bundles : StaysWhole(c)
<1>1. BundleTrue(bundle'[b], backup'[b])
  BY DEF Wrote, BundlesTrue, BundleTrue
<1>2. StaysWhole(b)
  BY <1>1 DEF Wrote, BundleTrue, Settled, StaysWhole, Whole
<1>3. ASSUME NEW c \in Bundles, c # b PROVE StaysWhole(c)
  BY <1>3 DEF Wrote, StaysWhole, Whole
<1> QED
  BY <1>2, <1>3

(* Bundles change beside the drills. *)
LEMMA BundlesBeside ==
    ASSUME DrillsTrue, UNCHANGED <<target, drill>>,
           \A d \in Drills : drill[d].at \notin Finished => StaysWhole(drill[d].bundle)
    PROVE  DrillsTrue'
<1>1. ASSUME NEW d \in Drills PROVE DrillTrue(drill[d])'
  <2>1. DrillTrue(drill[d])
    BY DEF DrillsTrue
  <2>2. drill[d].at \in {"verified", "checked"} =>
            (bundle'[drill[d].bundle].name = "final" => Whole(drill[d].bundle)')
    BY <2>1 DEF DrillTrue, StaysWhole, Finished
  <2> QED
    BY <2>1, <2>2 DEF DrillTrue
<1> QED
  BY <1>1 DEF DrillsTrue, OneRestores

(* One drill takes a step, and the target stays as it is. *)
LEMMA OneDrill ==
    ASSUME DrillsTrue, NEW d \in Drills, NEW x, DrillTrue(x), drill' = [drill EXCEPT ![d] = x],
           UNCHANGED <<bundle, target>>,
           x.at = "restoring" => \A e \in Drills : drill[e].at # "restoring"
    PROVE  DrillsTrue'
<1>1. /\ \A e \in Drills : drill'[e] = IF e = d THEN x ELSE drill[e]
      /\ drill' = [e \in Drills |-> drill'[e]]
  BY DEF DrillsTrue
<1>2. ASSUME NEW e \in Drills PROVE DrillTrue(drill[e])'
  <2>1. DrillTrue(drill'[e])
    BY <1>1 DEF DrillsTrue
  <2> QED
    BY <2>1 DEF DrillTrue, Whole
<1>3. OneRestores'
  BY <1>1 DEF DrillsTrue, OneRestores
<1> QED
  BY <1>1, <1>2, <1>3 DEF DrillsTrue

(* A drill that has failed claims nothing. *)
LEMMA FailedDrill ==
    ASSUME DrillsTrue, NEW d \in Drills
    PROVE  LET y == [drill[d] EXCEPT !.at = "failed", !.found = {}] IN
           DrillTrue(y) /\ y.at = "failed"
<1> DEFINE y == [drill[d] EXCEPT !.at = "failed", !.found = {}]
<1>1. drill[d] \in DrillStates
  BY DEF DrillsTrue, DrillTrue
<1>2. y \in DrillStates /\ y.at = "failed"
  BY <1>1 DEF DrillStates, DrillStages, Finished
<1> HIDE DEF y
<1>3. DrillTrue(y)
  BY <1>2 DEF DrillTrue, Finished
<1> QED
  BY <1>2, <1>3 DEF y

(* DrillFails *)
LEMMA FailKeeps ==
    ASSUME DrillsTrue, NEW d \in Drills, DrillFails(d), UNCHANGED <<bundle, target>>
    PROVE  DrillsTrue'
<1> DEFINE y == [drill[d] EXCEPT !.at = "failed", !.found = {}]
<1>1. drill' = [drill EXCEPT ![d] = y]
  BY DEF DrillFails
<1>2. DrillTrue(y) /\ y.at = "failed"
  BY FailedDrill
<1> HIDE DEF y
<1> QED
  BY <1>1, <1>2, OneDrill

(* The steps of a drill up to its restore *)
LEMMA LookKeeps ==
    ASSUME DrillsTrue, NEW d \in Drills,
           (\E b \in Bundles : StartDrill(d, b)) \/ VerifyBundle(d) \/ CheckTarget(d)
    PROVE  DrillsTrue'
<1> DEFINE x == drill[d]
<1>1. DrillTrue(x) /\ x \in DrillStates
  BY DEF DrillsTrue, DrillTrue
<1>2. UNCHANGED <<bundle, target>>
  BY DEF StartDrill, VerifyBundle, CheckTarget
<1>3. ASSUME NEW b \in Bundles, StartDrill(d, b) PROVE DrillsTrue'
  <2> DEFINE y == [IdleDrill EXCEPT !.at = "verifying", !.bundle = b]
  <2>1. drill' = [drill EXCEPT ![d] = y]
    BY <1>3 DEF StartDrill
  <2>2. y \in DrillStates /\ y.at = "verifying" /\ y.bundle = b
    BY DEF DrillStates, DrillStages, IdleDrill
  <2> HIDE DEF y
  <2>3. DrillTrue(y)
    BY <2>2 DEF DrillTrue, Finished
  <2> QED
    BY <1>2, <2>1, <2>2, <2>3, OneDrill
<1>4. CASE VerifyBundle(d)
  <2> DEFINE y == [x EXCEPT !.at = "verified"]
  <2>1. CASE Verified(x.bundle)
    <3>1. drill' = [drill EXCEPT ![d] = y] /\ x.at = "verifying"
      BY <1>4, <2>1 DEF VerifyBundle, DrillTo
    <3>2. y \in DrillStates /\ y.at = "verified" /\ y.bundle = x.bundle
      BY <1>1 DEF DrillStates, DrillStages
    <3> HIDE DEF y
    <3>3. DrillTrue(y)
      BY <1>1, <2>1, <3>1, <3>2 DEF DrillTrue, Finished, Verified
    <3> QED
      BY <1>2, <3>1, <3>2, <3>3, OneDrill
  <2>2. CASE ~Verified(x.bundle)
    BY <1>2, <1>4, <2>2, FailKeeps DEF VerifyBundle
  <2> QED
    BY <2>1, <2>2
<1>5. CASE CheckTarget(d)
  <2> DEFINE y == [x EXCEPT !.at = "checked"]
  <2>1. CASE TargetEmpty
    <3>1. drill' = [drill EXCEPT ![d] = y] /\ x.at = "verified"
      BY <1>5, <2>1 DEF CheckTarget, DrillTo
    <3>2. y \in DrillStates /\ y.at = "checked" /\ y.bundle = x.bundle
      BY <1>1 DEF DrillStates, DrillStages
    <3> HIDE DEF y
    <3>3. DrillTrue(y)
      BY <1>1, <2>1, <3>1, <3>2 DEF DrillTrue, Finished, TargetEmpty
    <3> QED
      BY <1>2, <3>1, <3>2, <3>3, OneDrill
  <2>2. CASE ~TargetEmpty
    BY <1>2, <1>5, <2>2, FailKeeps DEF CheckTarget
  <2> QED
    BY <2>1, <2>2
<1> QED
  BY <1>3, <1>4, <1>5

(* The relation that every dump holds makes a second restore fail. *)
LEMMA RestoreKeeps ==
    ASSUME DrillsTrue, NEW d \in Drills, BeginRestore(d)
    PROVE  DrillsTrue'
<1> DEFINE x == drill[d]
           b == x.bundle
           relations == IF Whole(b) THEN RelationsOf[b] ELSE {"alembic_version"}
           y == [x EXCEPT !.at = "restoring", !.found = relations]
<1>1. /\ DrillTrue(x) /\ x \in DrillStates /\ x.at = "checked" /\ b \in Bundles
      /\ UNCHANGED <<bundle, target>> /\ \A e \in Drills : drill[e].at # "restoring"
  BY DEF DrillsTrue, DrillTrue, BeginRestore, Finished
<1>2. CASE bundle[b].name = "final" /\ target \cap relations = {}
  <2>1. drill' = [drill EXCEPT ![d] = y]
    BY <1>1, <1>2 DEF BeginRestore, DrillsTrue
  <2>2. relations = RelationsOf[b] /\ "alembic_version" \in relations
    BY <1>1, <1>2, ContinuityAssumption DEF DrillTrue
  <2>3. target = {}
    BY <1>1, <1>2, <2>2 DEF DrillTrue
  <2>4. relations \in SUBSET Relations
    BY <1>1, <2>2 DEF Relations
  <2> HIDE DEF relations
  <2>5. y \in DrillStates /\ y.at = "restoring" /\ y.bundle = b /\ y.found = relations
    BY <1>1, <2>4 DEF DrillStates, DrillStages
  <2> HIDE DEF y
  <2>6. DrillTrue(y)
    BY <1>1, <2>2, <2>3, <2>5 DEF DrillTrue, Finished
  <2> QED
    BY <1>1, <2>1, <2>5, <2>6, OneDrill
<1>3. CASE ~(bundle[b].name = "final" /\ target \cap relations = {})
  <2>1. DrillFails(d)
    BY <1>3 DEF BeginRestore
  <2> QED
    BY <1>1, <2>1, FailKeeps
<1> QED
  BY <1>2, <1>3

(* The transaction commits: the target holds what it restored alone. *)
LEMMA CommitKeeps ==
    ASSUME DrillsTrue, NEW d \in Drills, CommitRestore(d)
    PROVE  DrillsTrue'
<1> DEFINE x == drill[d]
           b == x.bundle
<1>1. /\ DrillTrue(x) /\ x \in DrillStates /\ x.at = "restoring" /\ b \in Bundles
      /\ target = {} /\ x.found = RelationsOf[b] /\ bundle' = bundle
  BY DEF DrillsTrue, DrillTrue, CommitRestore, Finished
<1>2. target' = RelationsOf[b] /\ "alembic_version" \in target' /\ target' \subseteq Relations
  BY <1>1, ContinuityAssumption DEF CommitRestore, Relations
<1>3. ASSUME NEW e \in Drills, e # d PROVE DrillTrue(drill[e]) /\ drill[e].at \notin {"restoring", "restored"}
  <2>1. DrillTrue(drill[e]) /\ drill[e].at # "restoring"
    BY <1>1, <1>3 DEF DrillsTrue, OneRestores
  <2>2. drill[e].at # "restored"
    BY <1>1, <2>1, ContinuityAssumption DEF DrillTrue, Finished
  <2> QED
    BY <2>1, <2>2
<1>4. PICK y : drill' = [drill EXCEPT ![d] = y] /\ y \in DrillStates
               /\ (y.at = "failed" \/ (y.at = "restored" /\ y.bundle = b))
  <2> DEFINE y1 == [x EXCEPT !.at = "restored"]
             y2 == [x EXCEPT !.at = "failed", !.found = {}]
  <2>1. drill' = [drill EXCEPT ![d] = y1] \/ drill' = [drill EXCEPT ![d] = y2]
    BY DEF CommitRestore, DrillTo, DrillFails
  <2>2. y1 \in DrillStates /\ y1.at = "restored" /\ y1.bundle = b
    BY <1>1 DEF DrillStates, DrillStages
  <2>3. y2 \in DrillStates /\ y2.at = "failed"
    BY <1>1 DEF DrillStates, DrillStages, Finished
  <2> HIDE DEF y1, y2
  <2> QED
    BY <2>1, <2>2, <2>3
<1>5. \A e \in Drills : drill'[e] = IF e = d THEN y ELSE drill[e]
  BY <1>4 DEF DrillsTrue
<1>6. ASSUME NEW e \in Drills PROVE DrillTrue(drill[e])'
  <2>1. CASE e = d
    BY <1>1, <1>2, <1>4, <1>5, <2>1 DEF DrillTrue, Finished
  <2>2. CASE e # d
    <3>1. /\ DrillTrue(drill[e]) /\ drill[e].at \notin {"restoring", "restored"}
          /\ drill'[e] = drill[e]
      BY <1>3, <1>5, <2>2
    <3> QED
      BY <1>1, <1>2, <3>1 DEF DrillTrue, Whole
  <2> QED
    BY <2>1, <2>2
<1>7. OneRestores'
  BY <1>3, <1>4, <1>5 DEF OneRestores
<1>8. drill' = [e \in Drills |-> drill'[e]]
  BY <1>4 DEF DrillsTrue
<1> QED
  BY <1>2, <1>6, <1>7, <1>8 DEF DrillsTrue

(* A drill reports the target, which it restored. *)
LEMMA DrillReportKeeps ==
    ASSUME DrillsTrue, NEW d \in Drills, ReportDrill(d)
    PROVE  DrillsTrue'
<1> DEFINE x == drill[d]
           s == IF "alembic_version" \in target THEN "reported" ELSE "failed"
           y == [x EXCEPT !.at = s, !.found = target]
<1>1. /\ DrillTrue(x) /\ x \in DrillStates /\ target = RelationsOf[x.bundle]
      /\ UNCHANGED <<bundle, target>> /\ target \in SUBSET Relations
  BY DEF DrillsTrue, DrillTrue, ReportDrill
<1>2. drill' = [drill EXCEPT ![d] = y]
  BY DEF ReportDrill, DrillsTrue
<1>3. s \in {"reported", "failed"}
  OBVIOUS
<1> HIDE DEF s
<1>4. y \in DrillStates /\ y.at = s /\ y.bundle = x.bundle /\ y.found = target
  BY <1>1, <1>3 DEF DrillStates, DrillStages, Finished
<1> HIDE DEF y
<1>5. DrillTrue(y)
  BY <1>1, <1>3, <1>4 DEF DrillTrue, Finished
<1> QED
  BY <1>1, <1>2, <1>3, <1>4, <1>5, OneDrill

(* All drills end, or start anew. *)
LEMMA AllKeep ==
    ASSUME DrillsTrue, target' \subseteq Relations, drill' = [d \in Drills |-> drill'[d]],
           \A d \in Drills : \/ drill[d].at \in Finished /\ drill'[d] = drill[d]
                             \/ drill'[d] = IdleDrill
                             \/ drill'[d] = [drill[d] EXCEPT !.at = "failed", !.found = {}]
    PROVE  DrillsTrue'
<1>1. ASSUME NEW d \in Drills
      PROVE  DrillTrue(drill[d])' /\ drill'[d].at \in Finished
  <2>1. CASE drill[d].at \in Finished /\ drill'[d] = drill[d]
    BY <2>1 DEF DrillsTrue, DrillTrue, Finished
  <2>2. CASE drill'[d] = IdleDrill
    <3>1. IdleDrill \in DrillStates /\ IdleDrill.at = "idle"
      BY DEF IdleDrill, DrillStates, DrillStages, Finished
    <3> QED
      BY <2>2, <3>1 DEF DrillTrue, Finished
  <2>3. CASE drill'[d] = [drill[d] EXCEPT !.at = "failed", !.found = {}]
    <3> DEFINE y == [drill[d] EXCEPT !.at = "failed", !.found = {}]
    <3>1. drill'[d] = y /\ DrillTrue(y) /\ y.at = "failed"
      BY <2>3, FailedDrill
    <3> HIDE DEF y
    <3> QED
      BY <3>1 DEF DrillTrue, Finished
  <2> QED
    BY <2>1, <2>2, <2>3
<1>2. OneRestores'
  BY <1>1 DEF OneRestores, Finished
<1> QED
  BY <1>1, <1>2 DEF DrillsTrue

(* ContinuityInv is inductive. *)
LEMMA ContinuitySteps ==
    ASSUME ContinuityInv, [ContinuityNext]_continuityVars
    PROVE  ContinuityInv'
<1>0. BundlesTrue /\ DrillsTrue
  BY DEF ContinuityInv
<1>1. ASSUME NEW b \in Bundles, Wrote(b), UNCHANGED <<target, drill>> PROVE ContinuityInv'
  <2>1. \A d \in Drills : drill[d].at \notin Finished => StaysWhole(drill[d].bundle)
    BY <1>0, <1>1, WrittenStaysWhole DEF DrillsTrue, DrillTrue
  <2> QED
    BY <1>0, <1>1, <2>1, BundlesBeside DEF ContinuityInv, Wrote
<1>2. ASSUME NEW b \in Bundles,
             \/ NewPartial(b) \/ Dump(b) \/ WriteManifest(b) \/ WriteDigest(b) \/ FlushArchive(b)
             \/ FlushPartial(b) \/ RenameBundle(b) \/ BackupFails(b) \/ RemoveBundle(b)
      PROVE  ContinuityInv'
  <2>1. UNCHANGED <<target, drill>>
    BY <1>2 DEF NewPartial, Dump, WriteManifest, WriteDigest, FlushArchive, FlushPartial,
                RenameBundle, BackupFails, RemoveBundle, OnlyBundles
  <2>2. Wrote(b)
    BY <1>0, <1>2, BuildKeeps, EndKeeps
  <2> QED
    BY <1>1, <2>1, <2>2
<1>3. ASSUME NEW b \in Bundles, ReportBackup(b) PROVE ContinuityInv'
  <2>1. UNCHANGED <<target, drill>>
    BY <1>3 DEF ReportBackup, OnlyBundles
  <2>2. /\ BundlesTrue'
        /\ \A c \in Bundles : bundle'[c].name = bundle[c].name /\ bundle'[c].files = bundle[c].files
    BY <1>0, <1>3, ReportKeeps
  <2>3. \A c \in Bundles : StaysWhole(c)
    BY <2>2 DEF StaysWhole, Whole
  <2>4. \A d \in Drills : drill[d].at \notin Finished => StaysWhole(drill[d].bundle)
    BY <1>0, <2>3 DEF DrillsTrue, DrillTrue
  <2> QED
    BY <1>0, <2>1, <2>2, <2>4, BundlesBeside DEF ContinuityInv
<1>4. ASSUME NEW b \in Bundles, DownloadBundle(b) PROVE ContinuityInv'
  <2>1. /\ UNCHANGED <<target, drill>>
        /\ \A d \in Drills : drill[d].at \notin Finished => drill[d].bundle # b
    BY <1>4 DEF DownloadBundle, OnlyBundles
  <2>2. BundlesTrue' /\ \A c \in Bundles \ {b} : bundle'[c] = bundle[c]
    BY <1>0, <1>4, DownloadKeeps
  <2>3. \A c \in Bundles \ {b} : StaysWhole(c)
    BY <2>2 DEF StaysWhole, Whole
  <2>4. \A d \in Drills : drill[d].at \notin Finished => StaysWhole(drill[d].bundle)
    BY <1>0, <2>1, <2>3 DEF DrillsTrue, DrillTrue
  <2> QED
    BY <1>0, <2>1, <2>2, <2>4, BundlesBeside DEF ContinuityInv
<1>5. ASSUME NEW d \in Drills,
             \/ (\E b \in Bundles : StartDrill(d, b)) \/ VerifyBundle(d) \/ CheckTarget(d)
             \/ BeginRestore(d) \/ CommitRestore(d) \/ ReportDrill(d) \/ DrillStops(d)
      PROVE  ContinuityInv'
  <2>1. UNCHANGED <<bundle, backup>>
    BY <1>5 DEF StartDrill, VerifyBundle, CheckTarget, BeginRestore, CommitRestore, ReportDrill,
                DrillStops
  <2>3. DrillsTrue'
    BY <1>0, <1>5, <2>1, FailKeeps, LookKeeps, RestoreKeeps, CommitKeeps, DrillReportKeeps
       DEF DrillStops
  <2>4. BundlesTrue'
    BY <1>0, <2>1 DEF BundlesTrue, BundleTrue
  <2> QED
    BY <2>3, <2>4 DEF ContinuityInv
<1>6. CASE NewTarget
  <2>1. /\ UNCHANGED <<bundle, backup>> /\ drill' = [d \in Drills |-> IdleDrill]
        /\ target' \in {{}, Foreign}
    BY <1>6 DEF NewTarget
  <2>2. /\ \A d \in Drills : drill'[d] = IdleDrill
        /\ drill' = [d \in Drills |-> drill'[d]] /\ target' \subseteq Relations
    BY <2>1 DEF Relations
  <2>4. DrillsTrue'
    BY <1>0, <2>2, AllKeep
  <2>3. BundlesTrue'
    BY <1>0, <2>1 DEF BundlesTrue, BundleTrue
  <2> QED
    BY <2>3, <2>4 DEF ContinuityInv
<1>7. CASE PowerFails
  <2>1. /\ target' = target
        /\ drill' = [d \in Drills |-> IF drill[d].at \in Finished THEN drill[d]
                                      ELSE [drill[d] EXCEPT !.at = "failed", !.found = {}]]
    BY <1>7 DEF PowerFails
  <2>2. DrillsTrue'
    BY <1>0, <2>1, AllKeep DEF DrillsTrue
  <2> QED
    BY <1>0, <1>7, <2>2, PowerKeeps DEF ContinuityInv
<1>8. CASE UNCHANGED continuityVars
  BY <1>8 DEF continuityVars, ContinuityInv, BundlesTrue, BundleTrue, DrillsTrue, DrillTrue,
              OneRestores, Whole
<1> QED
  BY <1>2, <1>3, <1>4, <1>5, <1>6, <1>7, <1>8 DEF ContinuityNext

(* ContinuityInv holds at first. *)
LEMMA ContinuityStarts ==
    ASSUME ContinuityInit
    PROVE  ContinuityInv
<1>1. BundlesTrue
  <2>1. BundleTrue(NoBundle, "idle")
    BY EmptyBundle
  <2> QED
    BY <2>1 DEF ContinuityInit, BundlesTrue
<1>2. DrillsTrue
  <2>1. IdleDrill \in DrillStates /\ IdleDrill.at = "idle"
    BY DEF IdleDrill, DrillStates, DrillStages, Finished
  <2>2. DrillTrue(IdleDrill)
    BY <2>1 DEF DrillTrue, Finished
  <2>3. drill = [d \in Drills |-> IdleDrill] /\ target \subseteq Relations
    BY DEF ContinuityInit, Relations
  <2>4. \A d \in Drills : drill[d] = IdleDrill
    BY <2>3
  <2>5. drill = [d \in Drills |-> drill[d]]
    BY <2>3
  <2>6. OneRestores
    BY <2>1, <2>4 DEF OneRestores
  <2> QED
    BY <2>2, <2>3, <2>4, <2>5, <2>6 DEF DrillsTrue
<1> QED
  BY <1>1, <1>2 DEF ContinuityInv

(* For any number of backups and drills, whenever the power fails and      *)
(* whatever is removed or comes back damaged: a bundle in view that was    *)
(* made here is complete, a reported one stays in view, and a drill that   *)
(* reports found exactly the relations of its bundle's dump in the target  *)
(* (create_backup, _verify_bundle, restore_drill).                         *)
THEOREM EvidenceStaysTrue ==
    ContinuityInit /\ [][ContinuityNext]_continuityVars => []EvidenceTrue
<1>1. ContinuityInit => ContinuityInv
  BY ContinuityStarts
<1>2. ContinuityInv /\ [ContinuityNext]_continuityVars => ContinuityInv'
  BY ContinuitySteps
<1>3. ContinuityInv => EvidenceTrue
  BY DEF ContinuityInv, BundlesTrue, BundleTrue, DrillsTrue, DrillTrue, EvidenceTrue,
         PublishedComplete, RestoreReportTrue, Settled, Whole
<1> QED
  BY <1>1, <1>2, <1>3, PTL

-----------------------------------------------------------------------------
(* Types *)

(* A directory that a backup is building has a name, files that are whole  *)
(* or torn, and a step of that backup, and a restore target holds          *)
(* relations of bundles or the foreign ones only (create_backup,           *)
(* restore_drill).                                                         *)
THEOREM ContinuityTypesKept ==
    ContinuityInit /\ [][ContinuityNext]_continuityVars => []ContinuityTypeOK
<1> DEFINE TargetKnown == target \subseteq Foreign \cup UNION {RelationsOf[b] : b \in Bundles}
<1>1. ContinuityInit => TargetKnown
  BY DEF ContinuityInit
<1>2. ASSUME ContinuityInv, TargetKnown, [ContinuityNext]_continuityVars
      PROVE  TargetKnown'
  <2>1. CASE target' = target
    BY <1>2, <2>1
  <2>2. CASE NewTarget
    BY <2>2 DEF NewTarget
  <2>3. ASSUME NEW d \in Drills, CommitRestore(d) PROVE TargetKnown'
    <3>1. drill[d].found = RelationsOf[drill[d].bundle] /\ drill[d].bundle \in Bundles
      BY <1>2, <2>3 DEF CommitRestore, ContinuityInv, DrillsTrue, DrillTrue, Finished
    <3> QED
      BY <1>2, <2>3, <3>1 DEF CommitRestore
  <2> QED
    BY <1>2, <2>1, <2>2, <2>3
    DEF ContinuityNext, NewPartial, Dump, WriteManifest, WriteDigest, FlushArchive, FlushPartial,
        RenameBundle, ReportBackup, BackupFails, RemoveBundle, DownloadBundle, OnlyBundles, StartDrill,
        VerifyBundle, CheckTarget, BeginRestore, ReportDrill, DrillStops, PowerFails, continuityVars
<1>3. ContinuityInv /\ TargetKnown => ContinuityTypeOK
  <2> SUFFICES ASSUME ContinuityInv, TargetKnown PROVE ContinuityTypeOK
    OBVIOUS
  <2>1. ASSUME NEW b \in Bundles
        PROVE  /\ bundle[b] \in BundleStates
               /\ Building(b) => backup[b] \in Dumped \cup {"dumping"}
    BY DEF ContinuityInv, BundlesTrue, BundleTrue, BackupStages, Building
  <2>2. ASSUME NEW d \in Drills PROVE drill[d].at \in DrillStages
    BY DEF ContinuityInv, DrillsTrue, DrillTrue, DrillStates
  <2> QED
    BY <2>1, <2>2 DEF ContinuityTypeOK, BundleStates, Dumped, DrillStages
<1>4. ContinuityInv /\ [ContinuityNext]_continuityVars => ContinuityInv'
  BY ContinuitySteps
<1> HIDE DEF TargetKnown
<1> QED
  BY <1>1, <1>2, <1>3, <1>4, ContinuityStarts, PTL

-----------------------------------------------------------------------------
(***************************************************************************)
(* The scan of the staging area (MaintenanceBatch), for any number of      *)
(* batches, attempts and keys.  The induction says what a batch has before *)
(* it at each stage (JobTrue), and that as long as no lock was lost one    *)
(* batch is at work and what it is about to delete was old when the batch  *)
(* began (LockTrue).                                                       *)
(***************************************************************************)

Cursors == BatchKeys \cup {Null}
BatchJobs == [at : Stages, cursor : Cursors, next : Cursors, page : SUBSET BatchKeys,
              pages : 0 .. MaxPages]
StagingAttempts == [at : {"idle", "staged", "missing", "adopted"}, key : Cursors, created : BOOLEAN]

BatchTypes ==
    /\ staged \in [BatchKeys -> {"absent", "young", "old"}]
    /\ cursor \in Cursors /\ lock \in Jobs \cup {NoJob}
    /\ batchJob \in [Jobs -> BatchJobs] /\ attempt \in [Attempts -> StagingAttempts]
    /\ lost \in BOOLEAN /\ failing \in BOOLEAN

(* The next cursor is beyond the one the page was listed from, or a batch  *)
(* starts over; only the pages that follow are counted.                    *)
JobTrue(b) ==
    /\ b.at # "idle" => b.pages < MaxPages
    /\ b.at \in {"stat", "delete", "advance"} => b.next = Null \/ b.next > b.cursor
    /\ b.at = "delete" => b.page # {}

AttemptTrue(a) ==
    /\ attempt[a].at = "idle" => ~attempt[a].created
    /\ attempt[a].at # "idle" => attempt[a].key \in BatchKeys

(* What the lock gives, as long as it has not been lost *)
LockTrue ==
    /\ \A j \in Jobs : batchJob[j].at # "idle" => lock = j
    /\ \A j \in Jobs : batchJob[j].at = "delete" => staged[Min(batchJob[j].page)] = "old"
    /\ \A a \in Attempts : attempt[a].created =>
          staged[attempt[a].key] = "young" /\ attempt[a].at # "missing"

BatchInv ==
    /\ BatchTypes
    /\ \A j \in Jobs : JobTrue(batchJob[j])
    /\ \A a \in Attempts : AttemptTrue(a)
    /\ ~lost => LockTrue

-----------------------------------------------------------------------------
(* The order of the natural numbers *)
Less == OpToRel(<, Nat)

(* A set of numbers has a smallest one. *)
LEMMA LeastOf ==
    ASSUME NEW S \in SUBSET Nat, S # {}
    PROVE  \E n \in S : \A m \in S : n <= m
<1>1. IsWellFoundedOn(Less, Nat)
  BY NatLessThanWellFounded DEF Less
<1>2. PICK n \in S : \A m \in S : ~(<<m, n>> \in Less)
  BY <1>1, WFMin
<1>3. Less = {p \in Nat \X Nat : p[1] < p[2]}
  BY DEF Less, OpToRel
<1>4. ASSUME NEW m \in S PROVE n <= m
  <2>1. m \in Nat /\ n \in Nat /\ ~(<<m, n>> \in Less)
    BY <1>2
  <2>2. ~(m < n)
    BY <1>3, <2>1
  <2> QED
    BY <2>1, <2>2
<1> QED
  BY <1>2, <1>4

(* A set of keys has a first and a last one. *)
LEMMA FirstKey ==
    ASSUME NEW page \in SUBSET BatchKeys, page # {}
    PROVE  Min(page) \in page
<1>1. PICK k \in page : \A i \in page : k =< i
  BY LeastOf DEF BatchKeys
<1> QED
  BY <1>1 DEF Min

LEMMA LastKey ==
    ASSUME NEW page \in SUBSET BatchKeys, page # {}
    PROVE  Max(page) \in page
<1> DEFINE mirror == {KeyCount - k : k \in page}
<1>1. \A k \in page : k \in Nat /\ KeyCount - k \in Nat
  BY BatchAssumption DEF BatchKeys
<1>2. mirror \in SUBSET Nat
  BY <1>1
<1>3. mirror # {}
  <2>1. PICK k \in page : TRUE
    OBVIOUS
  <2>2. KeyCount - k \in mirror
    BY <2>1
  <2> QED
    BY <2>2
<1> HIDE DEF mirror
<1>4. PICK m \in mirror : \A i \in mirror : m <= i
  BY <1>2, <1>3, LeastOf
<1>5. PICK k \in page : m = KeyCount - k
  BY <1>4 DEF mirror
<1>6. \A i \in page : k >= i
  <2> SUFFICES ASSUME NEW i \in page PROVE k >= i
    OBVIOUS
  <2>1. KeyCount - i \in mirror
    BY DEF mirror
  <2>2. m <= KeyCount - i
    BY <1>4, <2>1
  <2> QED
    BY <1>1, <1>5, <2>2, BatchAssumption
<1> QED
  BY <1>5, <1>6 DEF Max

(* The next cursor is NULL, or the last key of the page. *)
LEMMA NextIsBeyond ==
    ASSUME NEW after \in Cursors
    PROVE  /\ ListStaged(after) \in SUBSET BatchKeys
           /\ NextCursor(ListStaged(after), after) \in Cursors
           /\ \/ NextCursor(ListStaged(after), after) = Null
              \/ NextCursor(ListStaged(after), after) > after
<1> DEFINE page == ListStaged(after)
<1>1. page \in SUBSET BatchKeys /\ \A k \in page : k > after
  BY DEF ListStaged
<1> HIDE DEF page
<1>2. CASE Cardinality(page) = StagingPage
  <2>1. page # {}
    BY <1>2, FS_EmptySet, BatchAssumption
  <2>2. Max(page) \in page
    BY <1>1, <2>1, LastKey
  <2> QED
    BY <1>1, <1>2, <2>2 DEF NextCursor, Cursors, page
<1>3. CASE Cardinality(page) # StagingPage
  BY <1>1, <1>3 DEF NextCursor, Cursors, page
<1> QED
  BY <1>2, <1>3

(* Nothing is staged at first. *)
LEMMA BatchStarts ==
    BatchInit => BatchInv
<1> SUFFICES ASSUME BatchInit PROVE BatchInv
  OBVIOUS
<1>1. NotStarted \in BatchJobs /\ NotStarted.at = "idle"
  BY BatchAssumption DEF NotStarted, BatchJobs, Stages, Cursors
<1>2. NoAttempt \in StagingAttempts /\ NoAttempt.at = "idle" /\ ~NoAttempt.created
  BY DEF NoAttempt, StagingAttempts, Cursors
<1>3. BatchTypes
  BY <1>1, <1>2 DEF BatchInit, BatchTypes, Cursors
<1> QED
  BY <1>1, <1>2, <1>3 DEF BatchInit, BatchInv, JobTrue, AttemptTrue, LockTrue

(* A batch that moves to r alone *)
LEMMA JobMoves ==
    ASSUME BatchInv, NEW j \in Jobs, NEW r \in BatchJobs, JobTo(j, r)
    PROVE  /\ batchJob' \in [Jobs -> BatchJobs] /\ batchJob'[j] = r
           /\ \A i \in Jobs \ {j} : batchJob'[i] = batchJob[i]
  BY DEF BatchInv, BatchTypes, JobTo

(* While a batch alone moves and the staging area stays *)
LEMMA QuietJob ==
    ASSUME BatchInv, NEW j \in Jobs, NEW r \in BatchJobs, JobTo(j, r), JobTrue(r),
           UNCHANGED <<staged, attempt, lost, failing>>,
           cursor' \in Cursors, lock' \in Jobs \cup {NoJob},
           ~lost => /\ \/ lock' = lock
                       \/ lock' = j /\ lock = NoJob
                       \/ lock' = NoJob /\ lock = j
                    /\ r.at # "idle" => lock' = j
                    /\ r.at = "delete" => staged[Min(r.page)] = "old"
    PROVE  BatchInv'
<1>1. /\ batchJob' \in [Jobs -> BatchJobs] /\ batchJob'[j] = r
      /\ \A i \in Jobs \ {j} : batchJob'[i] = batchJob[i]
  BY JobMoves
<1>2. BatchTypes'
  BY <1>1 DEF BatchInv, BatchTypes
<1>3. (\A i \in Jobs : JobTrue(batchJob[i]))' /\ (\A a \in Attempts : AttemptTrue(a))'
  BY <1>1 DEF BatchInv, AttemptTrue, JobTrue
<1>4. ASSUME ~lost PROVE LockTrue'
  BY <1>1, <1>4, BatchAssumption DEF BatchInv, LockTrue
<1> QED
  BY <1>2, <1>3, <1>4 DEF BatchInv

(* StartBatch, ListPage, StatKey, AdvanceCursor, AbortBatch *)
LEMMA BatchStepsKeep ==
    ASSUME BatchInv, NEW j \in Jobs,
           StartBatch(j) \/ ListPage(j) \/ StatKey(j) \/ AdvanceCursor(j) \/ AbortBatch(j)
    PROVE  BatchInv'
<1> DEFINE b == batchJob[j]
<1>0. /\ b \in BatchJobs /\ JobTrue(b) /\ cursor \in Cursors /\ lock \in Jobs \cup {NoJob}
      /\ ~lost => (b.at # "idle" => lock = j)
  BY DEF BatchInv, BatchTypes, LockTrue
<1>00. /\ NotStarted \in BatchJobs /\ NotStarted.at = "idle" /\ NotStarted.pages = 0
       /\ MaxPages \in Nat /\ MaxPages > 0 /\ Null \in Cursors
  BY BatchAssumption DEF NotStarted, BatchJobs, Stages, Cursors
<1>1. CASE StartBatch(j)
  <2> DEFINE r == [NotStarted EXCEPT !.at = "pages", !.cursor = cursor]
  <2>1. r \in BatchJobs /\ JobTrue(r) /\ r.at = "pages"
    BY <1>0, <1>00 DEF BatchJobs, JobTrue, Stages
  <2>2. /\ JobTo(j, r) /\ lock = NoJob /\ lock' = j
        /\ UNCHANGED <<staged, cursor, attempt, lost, failing>>
    BY <1>1 DEF StartBatch
  <2> HIDE DEF r
  <2> QED
    BY <1>0, <2>1, <2>2, QuietJob
<1>2. CASE ListPage(j)
  <2> DEFINE page == ListStaged(b.cursor)
             next == NextCursor(page, b.cursor)
             r == [b EXCEPT !.at = "stat", !.page = page, !.next = next]
  <2>1. /\ b.at = "pages" /\ JobTo(j, r)
        /\ UNCHANGED <<staged, cursor, lock, attempt, lost, failing>>
    BY <1>2 DEF ListPage, BatchAt
  <2>2. /\ page \in SUBSET BatchKeys /\ next \in Cursors /\ (next = Null \/ next > b.cursor)
    <3>1. b.cursor \in Cursors
      BY <1>0 DEF BatchJobs
    <3> HIDE DEF b
    <3> QED
      BY <3>1, NextIsBeyond
  <2> HIDE DEF page, next
  <2>3. r \in BatchJobs /\ r.at = "stat" /\ r.cursor = b.cursor /\ r.next = next /\ r.pages = b.pages
    BY <1>0, <2>2 DEF BatchJobs, Stages
  <2>4. JobTrue(r)
    BY <1>0, <2>1, <2>2, <2>3 DEF JobTrue
  <2> HIDE DEF r, b
  <2> QED
    BY <1>0, <2>1, <2>3, <2>4, QuietJob
<1>3. CASE StatKey(j)
  <2>1. /\ b.at = "stat" /\ UNCHANGED <<staged, cursor, lock, attempt, lost, failing>>
    BY <1>3 DEF StatKey, BatchAt
  <2>2. PICK r \in BatchJobs : /\ JobTo(j, r) /\ JobTrue(r) /\ r.at # "idle"
                               /\ r.at = "delete" => staged[Min(r.page)] = "old"
    <3>1. CASE b.page = {}
      <4> DEFINE r == [b EXCEPT !.at = "advance"]
      <4>1. r \in BatchJobs /\ JobTrue(r) /\ r.at = "advance"
        BY <1>0, <2>1 DEF BatchJobs, Stages, JobTrue
      <4>2. JobTo(j, r)
        BY <1>3, <3>1 DEF StatKey
      <4> QED
        BY <4>1, <4>2
    <3>2. CASE b.page # {} /\ Deletable(Min(b.page))
      <4> DEFINE r == [b EXCEPT !.at = "delete"]
      <4>1. r \in BatchJobs /\ JobTrue(r) /\ r.at = "delete" /\ r.page = b.page
        BY <1>0, <2>1, <3>2 DEF BatchJobs, Stages, JobTrue
      <4>2. JobTo(j, r)
        BY <1>3, <3>2 DEF StatKey
      <4> QED
        BY <3>2, <4>1, <4>2 DEF Deletable
    <3>3. CASE b.page # {} /\ ~Deletable(Min(b.page))
      <4> DEFINE r == [b EXCEPT !.page = @ \ {Min(b.page)}]
      <4>1. r \in BatchJobs /\ JobTrue(r) /\ r.at = "stat"
        BY <1>0, <2>1 DEF BatchJobs, Stages, JobTrue
      <4>2. JobTo(j, r)
        BY <1>3, <3>3 DEF StatKey
      <4> QED
        BY <4>1, <4>2
    <3> QED
      BY <3>1, <3>2, <3>3
  <2> QED
    BY <1>0, <2>1, <2>2, QuietJob
<1>4. CASE AdvanceCursor(j)
  <2> DEFINE more == Expected(j) /\ b.next # Null /\ b.pages + 1 < MaxPages
             r == [NotStarted EXCEPT !.at = "pages", !.cursor = b.next, !.pages = b.pages + 1]
  <2>1. /\ b.at = "advance" /\ cursor' = IF Expected(j) THEN b.next ELSE cursor
        /\ JobTo(j, IF more THEN r ELSE NotStarted)
        /\ lock' = IF ~more /\ lock = j THEN NoJob ELSE lock
        /\ UNCHANGED <<staged, attempt, lost, failing>>
    BY <1>4 DEF AdvanceCursor, BatchAt
  <2>2. b.next \in Cursors /\ b.pages \in Nat /\ cursor' \in Cursors
    BY <1>0, <1>00, <2>1 DEF BatchJobs
  <2>3. ASSUME more PROVE r \in BatchJobs /\ r.at = "pages" /\ r.pages < MaxPages
    <3>1. b.pages + 1 \in 0 .. MaxPages /\ b.pages + 1 < MaxPages
      BY <1>00, <2>2, <2>3
    <3> HIDE DEF b
    <3> QED
      BY <1>00, <2>2, <3>1 DEF BatchJobs, Stages
  <2>4. more => JobTrue(r)
    BY <2>3 DEF JobTrue
  <2>5. JobTrue(NotStarted)
    BY <1>00 DEF JobTrue
  <2> HIDE DEF r, more
  <2>6. CASE more
    BY <1>0, <2>1, <2>2, <2>3, <2>4, <2>6, QuietJob
  <2>7. CASE ~more
    BY <1>0, <1>00, <2>1, <2>2, <2>5, <2>7, QuietJob
  <2> QED
    BY <2>6, <2>7
<1>5. CASE AbortBatch(j)
  <2>1. /\ JobTo(j, NotStarted) /\ lock' = IF lock = j THEN NoJob ELSE lock
        /\ UNCHANGED <<staged, cursor, attempt, lost, failing>>
    BY <1>5 DEF AbortBatch
  <2>2. JobTrue(NotStarted)
    BY <1>00 DEF JobTrue
  <2> QED
    BY <1>0, <1>00, <2>1, <2>2, QuietJob
<1> QED
  BY <1>1, <1>2, <1>3, <1>4, <1>5

(* DeleteKey: with the lock, the key is old, and no attempt has stored it. *)
LEMMA DeleteKeyKeeps ==
    ASSUME BatchInv, NEW j \in Jobs, DeleteKey(j)
    PROVE  BatchInv'
<1> DEFINE b == batchJob[j]
           k == Min(b.page)
           r == [b EXCEPT !.at = "stat", !.page = b.page \ {k}]
<1>1. /\ b.at = "delete" /\ JobTo(j, r)
      /\ staged' = [staged EXCEPT ![k] = "absent"] \/ staged' = staged
      /\ UNCHANGED <<cursor, lock, attempt, lost, failing>>
  BY DEF DeleteKey, BatchAt
<1>2. /\ b \in BatchJobs /\ JobTrue(b) /\ b.page \in SUBSET BatchKeys
      /\ staged \in [BatchKeys -> {"absent", "young", "old"}]
  BY DEF BatchInv, BatchTypes, BatchJobs
<1>3. r \in BatchJobs /\ JobTrue(r) /\ r.at = "stat"
  BY <1>1, <1>2 DEF BatchJobs, Stages, JobTrue
<1>4. k \in BatchKeys
  BY <1>1, <1>2, FirstKey DEF JobTrue
<1> HIDE DEF r
<1>5. /\ batchJob' \in [Jobs -> BatchJobs] /\ batchJob'[j] = r
      /\ \A i \in Jobs \ {j} : batchJob'[i] = batchJob[i]
  BY <1>1, <1>3, JobMoves
<1>6. BatchTypes'
  BY <1>1, <1>2, <1>4, <1>5 DEF BatchInv, BatchTypes
<1>7. (\A i \in Jobs : JobTrue(batchJob[i]))' /\ (\A a \in Attempts : AttemptTrue(a))'
  BY <1>1, <1>3, <1>5 DEF BatchInv, AttemptTrue, JobTrue
<1>8. ASSUME ~lost PROVE LockTrue'
  <2>1. lock = j /\ staged[k] = "old" /\ \A i \in Jobs : batchJob[i].at # "idle" => i = j
    BY <1>1, <1>8 DEF BatchInv, LockTrue
  <2>2. \A a \in Attempts : attempt[a].created => attempt[a].key \in BatchKeys
    BY DEF BatchInv, AttemptTrue
  <2>3. \A i \in BatchKeys \ {k} : staged'[i] = staged[i]
    BY <1>1, <1>2
  <2>4. (\A a \in Attempts : attempt[a].created =>
          staged[attempt[a].key] = "young" /\ attempt[a].at # "missing")'
    BY <1>1, <1>8, <2>1, <2>2, <2>3 DEF BatchInv, LockTrue
  <2> QED
    BY <1>1, <1>3, <1>5, <2>1, <2>4 DEF LockTrue
<1> QED
  BY <1>1, <1>6, <1>7, <1>8 DEF BatchInv
(* Stage, ReadStaged, EndAttempt: an attempt that created its object finds *)
(* it young.                                                               *)
LEMMA AttemptStepsKeep ==
    ASSUME BatchInv, NEW a \in Attempts,
           (\E k \in BatchKeys : Stage(a, k)) \/ ReadStaged(a) \/ EndAttempt(a)
    PROVE  BatchInv'
<1> DEFINE own(x) == x.created => staged'[x.key] = "young" /\ x.at # "missing"
<1>0. /\ attempt[a] \in StagingAttempts /\ AttemptTrue(a)
      /\ attempt \in [Attempts -> StagingAttempts]
      /\ staged \in [BatchKeys -> {"absent", "young", "old"}]
      /\ \A c \in Attempts : AttemptTrue(c)
      /\ \A c \in Attempts : attempt[c].created => attempt[c].key \in BatchKeys
  BY DEF BatchInv, BatchTypes, AttemptTrue
<1>1. UNCHANGED <<cursor, lock, batchJob, lost, failing>>
  BY DEF Stage, ReadStaged, EndAttempt
<1>2. PICK x \in StagingAttempts :
        /\ attempt' = [attempt EXCEPT ![a] = x]
        /\ x.at = "idle" => ~x.created
        /\ x.at # "idle" => x.key \in BatchKeys
        /\ ~lost => own(x)
        /\ staged' \in [BatchKeys -> {"absent", "young", "old"}]
        /\ \A k \in BatchKeys : staged[k] # "absent" => staged'[k] = staged[k]
  <2>1. ASSUME NEW k \in BatchKeys, Stage(a, k)
        PROVE  \E x \in StagingAttempts :
                 /\ attempt' = [attempt EXCEPT ![a] = x]
                 /\ x.at = "idle" => ~x.created
                 /\ x.at # "idle" => x.key \in BatchKeys
                 /\ ~lost => own(x)
                 /\ staged' \in [BatchKeys -> {"absent", "young", "old"}]
                 /\ \A i \in BatchKeys : staged[i] # "absent" => staged'[i] = staged[i]
    <3> DEFINE x == [at |-> "staged", key |-> k, created |-> staged[k] = "absent"]
    <3>1. x \in StagingAttempts /\ x.at = "staged" /\ x.key = k
          /\ (x.created <=> staged[k] = "absent")
      BY DEF StagingAttempts, Cursors
    <3>2. /\ attempt' = [attempt EXCEPT ![a] = x]
          /\ staged' = [staged EXCEPT ![k] = IF staged[k] = "absent" THEN "young" ELSE staged[k]]
      BY <2>1 DEF Stage
    <3> HIDE DEF x
    <3> QED
      BY <1>0, <3>1, <3>2
  <2>2. CASE ReadStaged(a)
    <3> DEFINE at == IF staged[attempt[a].key] = "absent" THEN "missing" ELSE "adopted"
               x == [attempt[a] EXCEPT !.at = at]
    <3>1. x \in StagingAttempts /\ x.at = at /\ x.key = attempt[a].key
          /\ (x.created <=> attempt[a].created)
      BY <1>0 DEF StagingAttempts
    <3>2. attempt' = [attempt EXCEPT ![a] = x] /\ staged' = staged /\ attempt[a].at = "staged"
      BY <2>2 DEF ReadStaged
    <3>3. ~lost => (attempt[a].created => staged[attempt[a].key] = "young")
      BY DEF BatchInv, LockTrue
    <3> HIDE DEF x
    <3> QED
      BY <1>0, <3>1, <3>2, <3>3 DEF AttemptTrue
  <2>3. CASE EndAttempt(a)
    <3>1. NoAttempt \in StagingAttempts /\ NoAttempt.at = "idle" /\ ~NoAttempt.created
      BY DEF NoAttempt, StagingAttempts, Cursors
    <3> QED
      BY <1>0, <2>3, <3>1 DEF EndAttempt
  <2> QED
    BY <2>1, <2>2, <2>3
<1>3. /\ attempt' \in [Attempts -> StagingAttempts] /\ attempt'[a] = x
      /\ \A c \in Attempts \ {a} : attempt'[c] = attempt[c]
  BY <1>0, <1>2
<1>4. BatchTypes'
  BY <1>1, <1>2, <1>3 DEF BatchInv, BatchTypes
<1>5. (\A c \in Attempts : AttemptTrue(c))'
  BY <1>0, <1>2, <1>3 DEF AttemptTrue
<1>6. (\A j \in Jobs : JobTrue(batchJob[j]))'
  BY <1>1 DEF BatchInv, JobTrue
<1>7. ASSUME ~lost PROVE LockTrue'
  <2>1. \A j \in Jobs : batchJob[j].at = "delete" => Min(batchJob[j].page) \in BatchKeys
    BY FirstKey DEF BatchInv, BatchTypes, BatchJobs, JobTrue
  <2>2. (\A j \in Jobs : batchJob[j].at = "delete" => staged[Min(batchJob[j].page)] = "old")'
    BY <1>1, <1>2, <1>7, <2>1 DEF BatchInv, LockTrue
  <2>3. (\A c \in Attempts : attempt[c].created =>
          staged[attempt[c].key] = "young" /\ attempt[c].at # "missing")'
    BY <1>0, <1>2, <1>3, <1>7 DEF BatchInv, LockTrue
  <2> QED
    BY <1>1, <1>7, <2>2, <2>3 DEF BatchInv, LockTrue
<1> QED
  BY <1>1, <1>4, <1>5, <1>6, <1>7 DEF BatchInv

(* GrowOld: nothing grows old under a batch or under who created it. *)
LEMMA GrowOldKeeps ==
    ASSUME BatchInv, NEW k \in BatchKeys, GrowOld(k)
    PROVE  BatchInv'
<1>1. /\ \A j \in Jobs : batchJob[j].at = "idle"
      /\ \A a \in Attempts : attempt[a].key = k => ~attempt[a].created
      /\ staged' = [staged EXCEPT ![k] = "old"]
      /\ UNCHANGED <<cursor, lock, batchJob, attempt, lost, failing>>
  BY DEF GrowOld, BatchAt
<1>2. BatchTypes'
  BY <1>1 DEF BatchInv, BatchTypes
<1>3. (\A j \in Jobs : JobTrue(batchJob[j]))' /\ (\A a \in Attempts : AttemptTrue(a))'
  BY <1>1 DEF BatchInv, JobTrue, AttemptTrue
<1>4. \A a \in Attempts : attempt[a].created => attempt[a].key \in BatchKeys
  BY DEF BatchInv, AttemptTrue
<1>5. ASSUME ~lost PROVE LockTrue'
  BY <1>1, <1>4, <1>5 DEF BatchInv, BatchTypes, LockTrue
<1> QED
  BY <1>1, <1>2, <1>3, <1>5 DEF BatchInv

(* BatchInv is inductive. *)
LEMMA BatchInvSteps ==
    ASSUME BatchInv, [BatchNext]_batchVars
    PROVE  BatchInv'
<1>1. CASE UNCHANGED batchVars
  BY <1>1 DEF batchVars, BatchInv, BatchTypes, JobTrue, AttemptTrue, LockTrue
<1>2. CASE LoseLock
  BY <1>2 DEF LoseLock, BatchInv, BatchTypes, JobTrue, AttemptTrue
<1>3. CASE FailuresEnd
  BY <1>3 DEF FailuresEnd, BatchInv, BatchTypes, JobTrue, AttemptTrue, LockTrue
<1>4. CASE BatchNext
  BY <1>2, <1>3, <1>4, BatchStepsKeep, DeleteKeyKeeps, AttemptStepsKeep, GrowOldKeeps
  DEF BatchNext, JobStepOf
<1> QED
  BY <1>1, <1>4

(* Only a batch that finds the cursor where it read it moves it. *)
LEMMA CursorAdvances ==
    ASSUME BatchInv, BatchNext
    PROVE  cursor' = cursor \/ cursor' = Null \/ cursor' > cursor
<1>1. ASSUME NEW j \in Jobs, AdvanceCursor(j)
      PROVE  cursor' = cursor \/ cursor' = Null \/ cursor' > cursor
  BY <1>1 DEF BatchInv, JobTrue, AdvanceCursor, BatchAt, Expected
<1>2. (\A j \in Jobs : ~AdvanceCursor(j)) => cursor' = cursor
  BY DEF BatchNext, JobStepOf, StartBatch, ListPage, StatKey, DeleteKey, AbortBatch,
         Stage, ReadStaged, EndAttempt, GrowOld, LoseLock, FailuresEnd
<1> QED
  BY <1>1, <1>2

-----------------------------------------------------------------------------
(* Jobs, attempts, keys and cursors keep their types. *)
THEOREM BatchTypesKept == BatchSpec => []BatchTypeOK
<1>1. BatchInv => BatchTypeOK
  BY DEF BatchInv, BatchTypes, BatchJobs, StagingAttempts, Cursors, BatchTypeOK
<1> QED
  BY <1>1, BatchStarts, BatchInvSteps, PTL DEF BatchSpec

(* While no lock was lost, the scan deletes nothing an attempt has stored; *)
(* and a batch, even one that lost its lock, moves the shared cursor only  *)
(* forward or to the start (cleanup_staging, advance).                     *)
THEOREM StagingStaysSafe == BatchSpec => StagingScanSafe
<1>1. BatchInv => OwnResultFound
  BY DEF BatchInv, LockTrue, OwnResultFound
<1>2. BatchInv /\ [BatchNext]_batchVars =>
        [cursor' = cursor \/ cursor' = Null \/ cursor' > cursor]_batchVars
  BY CursorAdvances
<1> QED
  BY <1>1, <1>2, BatchStarts, BatchInvSteps, PTL DEF BatchSpec, StagingScanSafe, CursorNeverBack

-----------------------------------------------------------------------------
(* A step of the platform is a step of one component and of no other.      *)
LEMMA PlatformSteps ==
    ASSUME [Next]_suiteVars
    PROVE  /\ service' = service
           /\ [RateNext]_rateVars
           /\ [WorkspaceNext]_workspaceVars
           /\ [ReproNext]_reproVars
           /\ [AuthNext]_authVars
           /\ [HttpNext]_httpVars
           /\ [ObjectsNext]_objectVars
           /\ [ContinuityNext]_continuityVars
           /\ [MigrationsNext]_migrationVars
           /\ [SnapshotNext]_snapshotVars
           /\ [BatchNext]_batchVars
           /\ [WebNext]_webVars
<1>1. CASE RatesStep
  BY <1>1 DEF RatesStep
<1>2. CASE WorkspacesStep
  BY <1>2 DEF WorkspacesStep
<1>3. CASE ManifestsStep
  BY <1>3 DEF ManifestsStep
<1>4. CASE AuthenticationStep
  BY <1>4 DEF AuthenticationStep
<1>5. CASE HttpStep
  BY <1>5 DEF HttpStep
<1>6. CASE ObjectsStep
  BY <1>6 DEF ObjectsStep
<1>7. CASE ContinuityStep
  BY <1>7 DEF ContinuityStep
<1>8. CASE MigrationsStep
  BY <1>8 DEF MigrationsStep
<1>9. CASE PhoibleStep
  BY <1>9 DEF PhoibleStep
<1>10. CASE MaintenanceStep
  BY <1>10 DEF MaintenanceStep
<1>11. CASE SessionsStep
  BY <1>11 DEF SessionsStep
<1>12. CASE UNCHANGED suiteVars
  BY <1>12 DEF suiteVars
<1> QED
  BY <1>1, <1>2, <1>3, <1>4, <1>5, <1>6, <1>7, <1>8, <1>9, <1>10, <1>11, <1>12 DEF Next

(* Whichever service behind the API or command of an operator runs, its    *)
(* state is well typed, for every value of the constants of all eleven     *)
(* components (MCPlatform).                                                *)
THEOREM PlatformTypesKept == Spec => []PlatformTypeOK
<1>1. Init => /\ service \in Services
              /\ RateInit
              /\ WorkspaceInit
              /\ ReproInit
              /\ AuthInit
              /\ HttpInit
              /\ ObjectsInit
              /\ ContinuityInit
              /\ MigrationsInit
              /\ SnapshotInit
              /\ BatchInit
              /\ WebInit
  BY DEF Init
<1>2. ASSUME /\ service \in Services
             /\ RateTypeOK
             /\ WorkspaceTypeOK
             /\ ReproTypeOK
             /\ AuthTypeOK
             /\ HttpTypeOK
             /\ ObjectsTypeOK
             /\ ContinuityTypeOK
             /\ MigrationsTypeOK
             /\ SnapshotTypeOK
             /\ BatchTypeOK
             /\ WebTypeOK
      PROVE  PlatformTypeOK
  BY <1>2 DEF PlatformTypeOK, Services
<1>3. service \in Services /\ [Next]_suiteVars => (service \in Services)'
  BY PlatformSteps DEF Services
<1> QED
  BY <1>1, <1>2, <1>3, PlatformSteps, RateTypesKept, WorkspaceTypesKept,
     ReproTypesKept, AuthTypesKept, HttpTypesKept, StoreTypesKept,
     ContinuityTypesKept, MigrationTypesKept, SnapshotTyped, BatchTypesKept,
     WebTypesKept, PTL
  DEF Spec, RateSpec, AuthSpec, HttpSpec, ObjectsSpec, MigrationsSpec,
      SnapshotSpec, BatchSpec
=============================================================================
