------------------------- MODULE PostgresContinuity -------------------------
(***************************************************************************)
(* Backup bundles and restore drills (operations/postgres_continuity.py).  *)
(*                                                                         *)
(* A backup is built in a partial directory under the backup root and      *)
(* renamed into view; verifications and drills of published bundles run    *)
(* beside it as processes of their own.  Power may fail at any step: what  *)
(* was not flushed may come back torn or not at all, and a directory under *)
(* the name it had when the root was last flushed.  Every tool runs        *)
(* against a deadline and may be killed by it.                             *)
(***************************************************************************)
EXTENDS Integers, FiniteSets

CONSTANTS
    Bundles,        \* backups that are taken
    Drills,         \* restore drills, all into the database of the same name
    RelationsOf,    \* user relations in the dump of a bundle
    Foreign         \* relations the target may hold before any drill

ASSUME ContinuityAssumption ==
    /\ \A b \in Bundles : "alembic_version" \in RelationsOf[b]
    /\ "alembic_version" \notin Foreign

VARIABLES
    bundle,     \* a bundle's directory, its files, and what of it is on disk
    backup,     \* the process that builds a bundle
    target,     \* relations of the drill database
    drill       \* the process of a drill

continuityVars == <<bundle, backup, target, drill>>

Files == {"archive", "manifest", "digest"}
Names == {"none", "partial", "final"}
NoBundle == [name |-> "none", onDisk |-> "none", files |-> [f \in Files |-> "none"],
             flushed |-> {}, entered |-> {}]
IdleDrill == [at |-> "idle", bundle |-> "none", found |-> {}]

ContinuityInit ==
    /\ bundle = [b \in Bundles |-> NoBundle]
    /\ backup = [b \in Bundles |-> "idle"]
    /\ target \in {{}, Foreign}
    /\ drill = [d \in Drills |-> IdleDrill]

Finished == {"idle", "reported", "failed"}

Safe(b) == bundle[b].flushed \cap bundle[b].entered
Whole(b) == \A f \in Files : bundle[b].files[f] = "whole"

-----------------------------------------------------------------------------
(* create_backup: one step for each effect on the disk. *)

BackupTo(b, from, to) == backup[b] = from /\ backup' = [backup EXCEPT ![b] = to]
OnlyBundles == UNCHANGED <<target, drill>>

NewPartial(b) ==
    /\ BackupTo(b, "idle", "dumping")
    /\ bundle' = [bundle EXCEPT ![b].name = "partial"]
    /\ OnlyBundles

(* pg_dump; then chmod, hash and table of contents only read the archive *)
Dump(b) ==
    /\ BackupTo(b, "dumping", "described")
    /\ bundle' = [bundle EXCEPT ![b].files["archive"] = "whole"]
    /\ OnlyBundles

(* _write_private_file: written and flushed *)
Written(b, f) == [bundle[b] EXCEPT !.files[f] = "whole", !.flushed = @ \cup {f}]

WriteManifest(b) ==
    /\ BackupTo(b, "described", "manifested")
    /\ bundle' = [bundle EXCEPT ![b] = Written(b, "manifest")]
    /\ OnlyBundles

WriteDigest(b) ==
    /\ BackupTo(b, "manifested", "digested")
    /\ bundle' = [bundle EXCEPT ![b] = Written(b, "digest")]
    /\ OnlyBundles

FlushArchive(b) ==
    /\ BackupTo(b, "digested", "flushed")
    /\ bundle' = [bundle EXCEPT ![b].flushed = @ \cup {"archive"}]
    /\ OnlyBundles

FlushPartial(b) ==
    /\ BackupTo(b, "flushed", "entered")
    /\ bundle' = [bundle EXCEPT ![b].entered = Files]
    /\ OnlyBundles

(* the name carries the time, the digest and a nonce: it is never taken *)
RenameBundle(b) ==
    /\ BackupTo(b, "entered", "renamed")
    /\ bundle' = [bundle EXCEPT ![b].name = "final"]
    /\ OnlyBundles

(* _fsync_directory(root), which settles the names of every bundle *)
FlushRoot == [b \in Bundles |-> [bundle[b] EXCEPT !.onDisk = bundle[b].name]]

ReportBackup(b) ==
    /\ BackupTo(b, "renamed", "reported")
    /\ bundle' = FlushRoot
    /\ OnlyBundles

(* a tool fails or runs out of time: finally removes the partial directory, *)
(* and a bundle that was already renamed stays                              *)
Building(b) == backup[b] \notin {"idle", "reported", "failed", "removed", "downloaded"}

BackupFails(b) ==
    /\ Building(b)
    /\ backup' = [backup EXCEPT ![b] = "failed"]
    /\ bundle' = IF bundle[b].name = "partial" THEN [bundle EXCEPT ![b] = NoBundle] ELSE bundle
    /\ OnlyBundles

(* The operator's retention removes a published bundle; a copy comes back   *)
(* from remote storage, perhaps damaged.  While a drill works on it, nobody *)
(* writes to it.                                                            *)
RemoveBundle(b) ==
    /\ bundle[b].name = "final" /\ backup[b] \in {"reported", "failed", "downloaded"}
    /\ bundle' = [bundle EXCEPT ![b] = NoBundle]
    /\ backup' = [backup EXCEPT ![b] = "removed"]
    /\ OnlyBundles

DownloadBundle(b) ==
    /\ \A d \in Drills : drill[d].bundle = b => drill[d].at \in Finished
    /\ BackupTo(b, "removed", "downloaded")
    /\ \E archive \in {"whole", "torn"} :
         bundle' = [bundle EXCEPT ![b] =
             [name |-> "final", onDisk |-> "final", flushed |-> Files, entered |-> Files,
              files |-> [f \in Files |-> IF f = "archive" THEN archive ELSE "whole"]]]
    /\ OnlyBundles

-----------------------------------------------------------------------------
(* restore_drill; verify_backup is its first half. *)

DrillTo(d, at) == drill' = [drill EXCEPT ![d].at = at]
DrillFails(d) == drill' = [drill EXCEPT ![d] = [@ EXCEPT !.at = "failed", !.found = {}]]

StartDrill(d, b) ==
    /\ drill[d].at = "idle" /\ bundle[b].name = "final"
    /\ drill' = [drill EXCEPT ![d] = [IdleDrill EXCEPT !.at = "verifying", !.bundle = b]]
    /\ UNCHANGED <<bundle, backup, target>>

(* Mutant: the archive is not compared with the manifest. *)
Verified_MembersOnly(b) ==
    bundle[b].name = "final" /\ \A f \in Files : bundle[b].files[f] # "none"

(* exact members, canonical manifest, its digest, the archive's hash and size *)
Verified(b) == bundle[b].name = "final" /\ Whole(b)

VerifyBundle(d) ==
    /\ drill[d].at = "verifying"
    /\ IF Verified(drill[d].bundle) THEN DrillTo(d, "verified") ELSE DrillFails(d)
    /\ UNCHANGED <<bundle, backup, target>>

(* the count of user relations is zero *)
TargetEmpty == target = {}

CheckTarget(d) ==
    /\ drill[d].at = "verified"
    /\ IF TargetEmpty THEN DrillTo(d, "checked") ELSE DrillFails(d)
    /\ UNCHANGED <<bundle, backup, target>>

(* pg_restore --single-transaction: another drill's transaction makes it    *)
(* wait, and a relation that is there makes it fail; from a damaged archive *)
(* it may restore too little                                                *)
BeginRestore(d) ==
    LET b == drill[d].bundle
        relations == IF Whole(b) THEN RelationsOf[b] ELSE {"alembic_version"}
    IN  /\ drill[d].at = "checked"
        /\ \A e \in Drills : drill[e].at # "restoring"
        /\ IF bundle[b].name = "final" /\ target \cap relations = {}
           THEN drill' = [drill EXCEPT ![d].at = "restoring", ![d].found = relations]
           ELSE DrillFails(d)
        /\ UNCHANGED <<bundle, backup, target>>

(* the transaction commits; its client may be killed before it hears of it *)
CommitRestore(d) ==
    /\ drill[d].at = "restoring"
    /\ target' = target \cup drill[d].found
    /\ DrillTo(d, "restored") \/ DrillFails(d)
    /\ UNCHANGED <<bundle, backup>>

(* the relations and the revision, after the restore *)
ReportDrill(d) ==
    /\ drill[d].at = "restored"
    /\ drill' = [drill EXCEPT ![d].at = IF "alembic_version" \in target THEN "reported" ELSE "failed",
                              ![d].found = target]
    /\ UNCHANGED <<bundle, backup, target>>

(* a tool fails, is killed by the deadline, or its transaction rolls back *)
DrillStops(d) ==
    /\ drill[d].at \notin Finished
    /\ DrillFails(d)
    /\ UNCHANGED <<bundle, backup, target>>

(* The operator gives the next drills a new database of the same name *)
NewTarget ==
    /\ \A d \in Drills : drill[d].at \in Finished
    /\ \E d \in Drills : drill[d].at # "idle"
    /\ target' \in {{}, Foreign}
    /\ drill' = [d \in Drills |-> IdleDrill]
    /\ UNCHANGED <<bundle, backup>>

-----------------------------------------------------------------------------
(* Power failure: every process ends.  A file that was not flushed with its *)
(* directory entry is whole, torn or gone; nobody looks into a partial      *)
(* directory again.                                                         *)

Lost(b) ==
    {files \in [Files -> {"whole", "torn", "none"}] : \A f \in Safe(b) : files[f] = bundle[b].files[f]}

(* names a directory may come back under *)
PowerNames(b) == {bundle[b].name, bundle[b].onDisk}

Recovered(b, n, files) ==
    [name |-> n, onDisk |-> n, flushed |-> Safe(b), entered |-> Safe(b), files |-> files]
InView(b) == {Recovered(b, n, files) : n \in PowerNames(b) \cap {"final"}, files \in Lost(b)}
OutOfView(b) == {[NoBundle EXCEPT !.name = n, !.onDisk = n] : n \in PowerNames(b) \ {"final"}}

AfterPower(b) ==
    IF backup[b] \in {"removed", "downloaded"} \/ (~Building(b) /\ bundle[b].name = bundle[b].onDisk)
    THEN {bundle[b]}
    ELSE InView(b) \cup OutOfView(b)

PowerFails ==
    /\ \E b \in Bundles : Building(b) \/ bundle[b].name # bundle[b].onDisk
    /\ bundle' \in {after \in [Bundles -> UNION {AfterPower(b) : b \in Bundles}] :
                       \A b \in Bundles : after[b] \in AfterPower(b)}
    /\ backup' = [b \in Bundles |-> IF Building(b) THEN "failed" ELSE backup[b]]
    /\ drill' = [d \in Drills |-> IF drill[d].at \in Finished THEN drill[d]
                                  ELSE [drill[d] EXCEPT !.at = "failed", !.found = {}]]
    /\ UNCHANGED target

ContinuityNext ==
    \/ \E b \in Bundles :
          NewPartial(b) \/ Dump(b) \/ WriteManifest(b) \/ WriteDigest(b) \/ FlushArchive(b)
          \/ FlushPartial(b) \/ RenameBundle(b) \/ ReportBackup(b) \/ BackupFails(b)
          \/ RemoveBundle(b) \/ DownloadBundle(b)
    \/ \E d \in Drills :
          (\E b \in Bundles : StartDrill(d, b)) \/ VerifyBundle(d) \/ CheckTarget(d)
          \/ BeginRestore(d) \/ CommitRestore(d) \/ ReportDrill(d) \/ DrillStops(d)
    \/ NewTarget
    \/ PowerFails

-----------------------------------------------------------------------------
(* Properties. *)

ContinuityTypeOK ==
    /\ \A b \in Bundles :
          /\ bundle[b].name \in Names /\ bundle[b].onDisk \in Names
          /\ bundle[b].files \in [Files -> {"none", "whole", "torn"}]
          /\ bundle[b].flushed \subseteq Files /\ bundle[b].entered \subseteq Files
          /\ Building(b) => backup[b] \in {"dumping", "described", "manifested", "digested",
                                          "flushed", "entered", "renamed"}
    /\ target \subseteq Foreign \cup UNION {RelationsOf[b] : b \in Bundles}
    /\ \A d \in Drills :
          drill[d].at \in Finished \cup {"verifying", "verified", "checked", "restoring", "restored"}

(* Whenever the power fails, a bundle in view is complete, and one that was *)
(* reported stays in view (create_backup; docs/operations/                  *)
(* postgresql-continuity.md: "flushed before the entire directory is        *)
(* renamed into view").                                                     *)
PublishedComplete ==
    \A b \in Bundles :
        /\ bundle[b].name = "final" /\ backup[b] # "downloaded" => Whole(b)
        /\ backup[b] = "reported" => bundle[b].name = "final"

(* A drill's report means that the target holds the relations of that       *)
(* bundle's dump and nothing else, whatever other drills, retention,        *)
(* downloads and deadlines did meanwhile (_verify_bundle, the emptiness     *)
(* check and the single transaction of restore_drill).                      *)
RestoreReportTrue ==
    \A d \in Drills : drill[d].at = "reported" => drill[d].found = RelationsOf[drill[d].bundle]

(* Both reports of an operator's commands, of a backup and of a drill, say  *)
(* what is so.                                                              *)
EvidenceTrue == PublishedComplete /\ RestoreReportTrue
=============================================================================
