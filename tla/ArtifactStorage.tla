--------------------------- MODULE ArtifactStorage ---------------------------
(***************************************************************************)
(* Artifacts of one project: rows in PostgreSQL and bytes in the object    *)
(* store, which no transaction covers together.                            *)
(*                                                                         *)
(* Requests (ArtifactService.create) and adopting activities               *)
(* (ArtifactAdoptionService.adopt) put the bytes first and insert the row  *)
(* afterwards; the maintenance job (MaintenanceService.run_once) purges,   *)
(* reconciles and erases beside them.  A key is a content address, so      *)
(* writers of the same content share it, and the bytes are never wrong,    *)
(* only there or not.  Every read, put and delete of an object and every   *)
(* transaction is a step of its own.                                       *)
(***************************************************************************)
EXTENDS Integers, FiniteSets

CONSTANTS
    Uploads,      \* keys of contents that users upload
    Results,      \* keys of run results, one for each run
    Writers,      \* requests and activities in progress
    MaxArtifacts, \* QuotaPolicy.max_artifact_count
    NoKey         \* NULL

Keys == Uploads \cup Results

ASSUME StorageAssumption ==
    /\ IsFiniteSet(Keys) /\ Keys # {} /\ Writers # {}
    /\ Uploads \cap Results = {} /\ NoKey \notin Keys
    /\ MaxArtifacts \in Nat

VARIABLES
    row,      \* Artifact.state, "none" without a row
    object,   \* bytes: absent, young, or older than the orphan grace
    due,      \* rows whose retention_until has passed
    usage,    \* QuotaUsage.artifact_count
    live,     \* runs in progress
    project,  \* Project.lifecycle_state, "gone" without a row
    over,     \* whether deletion_retention_until has passed
    pc,       \* where a writer is
    key,      \* the content address it writes
    created,  \* whether its put stored the bytes, or found them
    reused,   \* history: rows whose writer found the bytes already there
    stage,    \* the task of the maintenance job
    work,     \* keys the task still has to look at
    chosen,   \* the key it is about to finish
    trouble   \* whether steps of the job may still fail

rows == <<row, due, usage>>
lifecycle == <<project, over>>
writers == <<pc, key, created>>
job == <<stage, work, chosen>>
vars == <<rows, object, live, lifecycle, writers, reused, job, trouble>>

Stored(k) == object[k] # "absent"
Charged == {k \in Keys : row[k] \in {"active", "tombstoned"}}

Init ==
    /\ row = [k \in Keys |-> "none"] /\ object = [k \in Keys |-> "absent"]
    /\ due = {} /\ usage = 0
    /\ live = Results
    /\ project = "active" /\ over = FALSE
    /\ pc = [w \in Writers |-> "idle"] /\ key = [w \in Writers |-> NoKey]
    /\ created = [w \in Writers |-> FALSE]
    /\ reused = {}
    /\ stage = "idle" /\ work = {} /\ chosen = NoKey
    /\ trouble = TRUE

-----------------------------------------------------------------------------
(* Writers. *)

Goto(w, p, k) == pc' = [pc EXCEPT ![w] = p] /\ key' = [key EXCEPT ![w] = k]

Return(w) == Goto(w, "idle", NoKey) /\ created' = [created EXCEPT ![w] = FALSE]

(* create: the first transaction, which authorizes the project and looks   *)
(* for the row of the same content.  Only an active one can be answered.   *)
CheckDuplicate(w, k) ==
    /\ pc[w] = "idle" /\ k \in Uploads /\ project = "active"
    /\ \/ row[k] = "none" /\ Goto(w, "put", k)
       \/ row[k] = "active" /\ Goto(w, "read", k)
    /\ UNCHANGED <<rows, object, live, lifecycle, created, reused, job, trouble>>

(* _read_all of the duplicate: it is returned, or its bytes are missing    *)
(* and are put again.                                                      *)
ReadDuplicate(w) ==
    /\ pc[w] = "read"
    /\ IF Stored(key[w]) THEN Return(w)
       ELSE Goto(w, "put", key[w]) /\ UNCHANGED created
    /\ UNCHANGED <<rows, object, live, lifecycle, reused, job, trouble>>

(* adopt: no cancellation was seen, the staged bytes are verified *)
Adopt(w, k) ==
    /\ pc[w] = "idle" /\ k \in live
    /\ Goto(w, "put", k)
    /\ UNCHANGED <<rows, object, live, lifecycle, created, reused, job, trouble>>

(* ObjectStore.put with If-None-Match: bytes that are there stay as they   *)
(* are, modification time included.                                        *)
Put(w) ==
    /\ pc[w] = "put"
    /\ Goto(w, "stored", key[w])
    /\ IF Stored(key[w])
       THEN UNCHANGED <<object, created>>
       ELSE /\ object' = [object EXCEPT ![key[w]] = "young"]
            /\ created' = [created EXCEPT ![w] = TRUE]
    /\ UNCHANGED <<rows, live, lifecycle, reused, job, trouble>>

(* Mutants: the project is not asked a second time; no unique key. *)
MayInsert_AnyProject(k) == row[k] = "none" /\ usage < MaxArtifacts
MayInsert_AnyRow(k) == project = "active" /\ usage < MaxArtifacts

(* The second transaction authorizes the project again; then the quota and *)
(* the unique key.                                                         *)
MayInsert(k) == project = "active" /\ usage < MaxArtifacts /\ row[k] = "none"

(* consume_artifact and the row, in one transaction.  Its retention is at  *)
(* least 30 days from now.                                                 *)
InsertRow(w, k) ==
    /\ row' = [row EXCEPT ![k] = "active"]
    /\ usage' = usage + 1
    /\ reused' = IF created[w] THEN reused ELSE reused \cup {k}
    /\ UNCHANGED due

(* create: the second transaction.  The bytes stay when it is refused; a   *)
(* row of the same content that appeared meanwhile is answered or refused. *)
Insert(w) ==
    /\ pc[w] = "stored" /\ key[w] \in Uploads
    /\ IF MayInsert(key[w]) THEN InsertRow(w, key[w]) ELSE UNCHANGED <<rows, reused>>
    /\ Return(w)
    /\ UNCHANGED <<object, live, lifecycle, job, trouble>>

(* adopt reads the final object back; without it the attempt fails *)
VerifyFinal(w) ==
    /\ pc[w] = "stored" /\ key[w] \in Results
    /\ IF Stored(key[w]) THEN Goto(w, "verified", key[w]) /\ UNCHANGED created
       ELSE Return(w)
    /\ UNCHANGED <<rows, object, live, lifecycle, reused, job, trouble>>

(* commit_adopted_result: under the lock of the run row, row, charge and   *)
(* end of the run are one transaction.  The project is not asked.          *)
CommitAdopted(w) ==
    /\ pc[w] = "verified"
    /\ IF key[w] \in live /\ usage < MaxArtifacts
       THEN InsertRow(w, key[w]) /\ live' = live \ {key[w]}
       ELSE UNCHANGED <<rows, reused, live>>
    /\ Return(w)
    /\ UNCHANGED <<object, lifecycle, job, trouble>>

(* An error of the store or the database, or the loss of the process *)
Fail(w) ==
    /\ pc[w] # "idle"
    /\ Return(w)
    /\ UNCHANGED <<rows, object, live, lifecycle, reused, job, trouble>>

(* The run is cancelled, fails or is reaped. *)
EndRun(k) ==
    /\ k \in live
    /\ live' = live \ {k}
    /\ UNCHANGED <<rows, object, lifecycle, writers, reused, job, trouble>>

-----------------------------------------------------------------------------
(* Deletion by users. *)

Tombstone(k) ==
    /\ project = "active" /\ row[k] = "active"
    /\ row' = [row EXCEPT ![k] = "tombstoned"]
    /\ UNCHANGED <<due, usage, object, live, lifecycle, writers, reused, job, trouble>>

MayRequestDeletion == project = "active" /\ live = {}

(* Rows are charged to the end of their retention. *)
UsageInRetention == usage

(* ProjectDeletionService.request: everything that is left is tombstoned   *)
(* and kept as long as the project.                                        *)
RequestDeletion ==
    /\ MayRequestDeletion
    /\ project' = "pending"
    /\ row' = [k \in Keys |-> IF k \in Charged THEN "tombstoned" ELSE row[k]]
    /\ due' = due \ Charged
    /\ usage' = UsageInRetention
    /\ UNCHANGED <<object, live, over, writers, reused, job, trouble>>

-----------------------------------------------------------------------------
(* The maintenance job.  It is a singleton whose tasks run one after the   *)
(* other against one cutoff, the time it started.                          *)

Begin(s, S) == stage' = s /\ work' = S /\ chosen' = NoKey
Working(s) == stage = s /\ chosen = NoKey
Finishing(s) == stage = s /\ chosen # NoKey
Choose(k) == chosen' = k /\ UNCHANGED <<stage, work>>
Done(k) == work' = work \ {k} /\ chosen' = NoKey /\ UNCHANGED stage

JobOnly == UNCHANGED <<rows, object, live, lifecycle, writers, reused, trouble>>

Remove(k) ==
    /\ object' = [object EXCEPT ![k] = "absent"]
    /\ UNCHANGED <<live, lifecycle, writers, reused, trouble>>

(* Mutant: rows without bytes are left. *)
Purgeable_Stored(k) == row[k] = "tombstoned" /\ k \in due /\ Stored(k)

(* artifacts.purge_due: the query *)
Purgeable(k) == row[k] = "tombstoned" /\ k \in due

SelectDue ==
    /\ stage = "idle"
    /\ Begin("purge", {k \in Keys : Purgeable(k)})
    /\ JobOnly

(* The bytes go first ... *)
PurgeObject(k) ==
    /\ Working("purge") /\ k \in work
    /\ Choose(k)
    /\ Remove(k) /\ UNCHANGED rows

(* ... then the row, if it is still there to be purged, and its quota. *)
PurgeRow ==
    /\ Finishing("purge")
    /\ IF row[chosen] = "tombstoned"
       THEN /\ row' = [row EXCEPT ![chosen] = "deleted"]
            /\ usage' = usage - 1
            /\ UNCHANGED due
       ELSE UNCHANGED rows
    /\ Done(chosen)
    /\ UNCHANGED <<object, live, lifecycle, writers, reused, trouble>>

EndPurge == Working("purge") /\ work = {} /\ Begin("list", {}) /\ JobOnly

(* reconcile_orphans: the keys of the store ... *)
ListKeys ==
    /\ stage = "list"
    /\ Begin("refs", {k \in Keys : Stored(k)})
    /\ JobOnly

(* ... the rows, in whatever state, that name them ... *)
Referenced(k) == row[k] # "none"

ReadReferences ==
    /\ stage = "refs"
    /\ Begin("reconcile", {k \in work : ~Referenced(k)})
    /\ JobOnly

(* Mutants: no grace period; the comparison turned round. *)
PastGrace_Always(k) == Stored(k)
PastGrace_Young(k) == object[k] = "young"

PastGrace(k) == object[k] = "old"

(* ... and for each of the others its age, and its deletion. *)
StatOrphan(k) ==
    /\ Working("reconcile") /\ k \in work
    /\ IF PastGrace(k) THEN Choose(k) ELSE Done(k)
    /\ JobOnly

DeleteOrphan ==
    /\ Finishing("reconcile")
    /\ Done(chosen)
    /\ Remove(chosen) /\ UNCHANGED rows

EndReconcile == Working("reconcile") /\ work = {} /\ Begin("project", {}) /\ JobOnly

(* A delete, a stat or an update of one key fails; the task goes on. *)
SkipKey(k) ==
    /\ trouble /\ stage \in {"purge", "reconcile"} /\ k \in work /\ chosen \in {NoKey, k}
    /\ Done(k)
    /\ JobOnly

(* _due_project and _database_preconditions *)
Erasable == project = "pending" /\ over /\ Charged = {} /\ live = {}

CheckProject ==
    /\ stage = "project"
    /\ Begin(IF Erasable THEN "prefix" ELSE "idle", {})
    /\ JobOnly

(* Mutant: the listing of the prefix is not looked at. *)
PrefixEmpty_Assumed == TRUE

PrefixEmpty == \A k \in Keys : ~Stored(k)

ListPrefix ==
    /\ stage = "prefix"
    /\ Begin(IF PrefixEmpty THEN "erase" ELSE "idle", {})
    /\ JobOnly

(* The second transaction of _purge_candidate checks again and removes all *)
(* rows of the project, and the project.                                   *)
EraseProject ==
    /\ stage = "erase"
    /\ IF Erasable
       THEN /\ project' = "gone"
            /\ row' = [k \in Keys |-> "none"]
            /\ due' = {}
       ELSE UNCHANGED <<project, row, due>>
    /\ Begin("idle", {})
    /\ UNCHANGED <<usage, over, object, live, writers, reused, trouble>>

(* A listing or a query fails, or the job is killed; the next run starts   *)
(* from the beginning.                                                     *)
AbortJob ==
    /\ trouble /\ stage # "idle"
    /\ Begin("idle", {})
    /\ JobOnly

(* Store and database stay reachable from now on. *)
TroubleEnds ==
    /\ trouble /\ trouble' = FALSE
    /\ UNCHANGED <<rows, object, live, lifecycle, writers, reused, job>>

-----------------------------------------------------------------------------
(* Time.  The job compares with the time it started, so what becomes old   *)
(* or due under it does so for its next run.  A writer lasts less than the *)
(* orphan grace (an hour) and far less than a retention (thirty days).     *)

Quiet(k) == \A w \in Writers : key[w] # k

Age(k) ==
    /\ stage = "idle" /\ object[k] = "young"
    /\ \A w \in Writers : key[w] = k => ~created[w]
    /\ object' = [object EXCEPT ![k] = "old"]
    /\ UNCHANGED <<rows, live, lifecycle, writers, reused, job, trouble>>

EndRetention(k) ==
    /\ stage = "idle" /\ k \in Charged \ due /\ Quiet(k)
    /\ project = "pending" => over
    /\ due' = due \cup {k}
    /\ UNCHANGED <<row, usage, object, live, lifecycle, writers, reused, job, trouble>>

EndProjectRetention ==
    /\ stage = "idle" /\ project = "pending" /\ ~over
    /\ \A k \in Keys : Quiet(k)
    /\ over' = TRUE
    /\ UNCHANGED <<rows, object, live, project, writers, reused, job, trouble>>

-----------------------------------------------------------------------------
WriterStep(w) == ReadDuplicate(w) \/ Put(w) \/ Insert(w) \/ VerifyFinal(w) \/ CommitAdopted(w)

JobStep ==
    \/ SelectDue \/ PurgeRow \/ EndPurge \/ ListKeys \/ ReadReferences
    \/ DeleteOrphan \/ EndReconcile \/ CheckProject \/ ListPrefix \/ EraseProject
    \/ \E k \in Keys : PurgeObject(k) \/ StatOrphan(k)

Next ==
    \/ \E w \in Writers : WriterStep(w) \/ Fail(w)
    \/ \E w \in Writers, k \in Keys : CheckDuplicate(w, k) \/ Adopt(w, k)
    \/ \E k \in Keys : EndRun(k) \/ Tombstone(k) \/ SkipKey(k) \/ Age(k) \/ EndRetention(k)
    \/ RequestDeletion \/ EndProjectRetention \/ JobStep \/ AbortJob \/ TroubleEnds

Spec == Init /\ [][Next]_vars

(* Writers make progress, time passes, the job is scheduled again and      *)
(* again, and from some moment on its steps do not fail.                   *)
Fairness ==
    /\ \A w \in Writers : WF_vars(WriterStep(w))
    /\ \A k \in Keys : SF_vars(Age(k)) /\ SF_vars(EndRetention(k))
    /\ SF_vars(EndProjectRetention)
    /\ WF_vars(JobStep) /\ WF_vars(TroubleEnds)

FairSpec == Spec /\ Fairness

-----------------------------------------------------------------------------
(* Properties. *)

TypeOK ==
    /\ row \in [Keys -> {"none", "active", "tombstoned", "deleted"}]
    /\ object \in [Keys -> {"absent", "young", "old"}]
    /\ due \subseteq Keys /\ usage \in Nat /\ live \subseteq Results
    /\ project \in {"active", "pending", "gone"} /\ over \in BOOLEAN
    /\ pc \in [Writers -> {"idle", "read", "put", "stored", "verified"}]
    /\ key \in [Writers -> Keys \cup {NoKey}] /\ created \in [Writers -> BOOLEAN]
    /\ \A w \in Writers : pc[w] = "idle" <=> key[w] = NoKey
    /\ reused \subseteq Keys
    /\ stage \in {"idle", "purge", "list", "refs", "reconcile", "project", "prefix", "erase"}
    /\ work \subseteq Keys /\ chosen \in Keys \cup {NoKey} /\ trouble \in BOOLEAN

(* The artifact counter of the organization equals the rows that are not   *)
(* deleted, whichever of a purge that is repeated, a duplicate insert or a *)
(* project deletion touched them (consume_artifact, release_artifact).     *)
UsageExact == usage = Cardinality(Charged)

(* An artifact cannot be committed into a project that waits for deletion: *)
(* a request is authorized again after its put, an activity is held off by *)
(* its run, which the deletion request looks for (create, request).        *)
NothingActiveAfterDeletion == project # "active" => \A k \in Keys : row[k] # "active"

(* When the project row is gone, none of its objects and nothing of its    *)
(* charge is left, although bytes may have been put while the deletion was *)
(* requested (_purge_candidate).                                           *)
GoneLeavesNothing == project = "gone" => usage = 0 /\ \A k \in Keys : ~Stored(k)

(* Bytes that a writer has stored itself are there while their row is      *)
(* active or retained: neither the reconciler, whose view of the rows is   *)
(* older than its deletions, nor the purge removes them (reconcile_orphans, *)
(* purge_due).  A deletion request may extend the retention of a row that  *)
(* the purge has already selected, which the purge does not notice.        *)
FreshWritesSurvive ==
    \A k \in Keys \ reused :
        \/ row[k] = "active"
        \/ row[k] = "tombstoned" /\ k \notin due /\ project = "active"
        => Stored(k)

(* Orphan deletion cannot race another writer adopting the same content    *)
(* address: an active artifact has its bytes (the threat model of          *)
(* reconcile_orphans).                                                     *)
ActiveHasBytes == \A k \in Keys : row[k] = "active" => Stored(k)

(* Bytes without a row do not stay, unless a later writer gives them one   *)
(* (reconcile_orphans); what is tombstoned is purged when its retention is *)
(* over, whatever part of an earlier purge failed (purge_due).             *)
GarbageGoes ==
    \A k \in Keys :
        /\ Stored(k) /\ row[k] = "none" ~> ~Stored(k) \/ row[k] # "none"
        /\ row[k] = "tombstoned" ~> row[k] \in {"deleted", "none"}

(* A surviving object blocks the purge of its project only until           *)
(* reconciliation removes it (purge_due of projects, reconcile_orphans).   *)
PendingProjectsGo == project = "pending" ~> project = "gone"
=============================================================================
