-------------------------- MODULE MaintenanceBatch --------------------------
(***************************************************************************)
(* The scheduled maintenance batch (operations/maintenance_cli.py,         *)
(* MaintenanceRunner.run_once of services/maintenance.py): its singleton   *)
(* lock, the order of its tasks, the cursors of its two paged scans, and   *)
(* the scan of the staging area (ArtifactAdoptionService.cleanup_staging)  *)
(* beside the activities that stage results and read them back.            *)
(*                                                                         *)
(* The lock belongs to one database connection.  When that breaks the lock *)
(* is free while the batch, which uses other connections, goes on; so two  *)
(* batches may overlap.  Staging keys are ordered; 0 is the NULL cursor.   *)
(***************************************************************************)
EXTENDS Integers, FiniteSets, FiniteSetsExt

CONSTANTS
    Jobs,       \* invocations of corpuskit-maintenance
    Attempts,   \* activity attempts that stage a result
    KeyCount,   \* staging keys 1..KeyCount, contents shared by attempts
    StagingPage,   \* --limit
    MaxPages    \* --max-staging-pages

NoJob == "none"

ASSUME BatchAssumption ==
    /\ IsFiniteSet(Jobs) /\ NoJob \notin Jobs /\ KeyCount \in Nat
    /\ StagingPage \in Nat \ {0} /\ MaxPages \in Nat \ {0}

VARIABLES
    staged,     \* object of a staging key: absent, young, or past the grace
    cursor,     \* MaintenanceCursor row of the staging scan
    lock,       \* the job whose connection holds the advisory lock
    batchJob,        \* locals of an invocation
    attempt,    \* locals of an activity attempt
    lost,       \* whether a batch has lost its lock (bound: once)
    failing     \* whether storage and database may still fail

batchVars == <<staged, cursor, lock, batchJob, attempt, lost, failing>>

BatchKeys == 1..KeyCount
Null == 0

(* The stages of the staging scan of run_once *)
Stages == {"idle", "pages", "stat", "delete", "advance"}
NotStarted == [at |-> "idle", cursor |-> Null, next |-> Null, page |-> {}, pages |-> 0]
NoAttempt == [at |-> "idle", key |-> Null, created |-> FALSE]

BatchInit ==
    /\ staged = [k \in BatchKeys |-> "absent"]
    /\ cursor = Null
    /\ lock = NoJob
    /\ batchJob = [j \in Jobs |-> NotStarted]
    /\ attempt = [a \in Attempts |-> NoAttempt]
    /\ lost = FALSE
    /\ failing = TRUE

JobTo(j, r) == batchJob' = [batchJob EXCEPT ![j] = r]
BatchAt(j, s) == batchJob[j].at = s

-----------------------------------------------------------------------------
(* One invocation. *)

(* maintenance_lock: pg_try_advisory_lock, or "already_running"; run_once  *)
(* then loads the cursor and takes its cutoff, started_at - grace.         *)
(* expire_stale, purge_due and the reconciliation pages come before the    *)
(* staging pages.                                                          *)
StartBatch(j) ==
    /\ BatchAt(j, "idle") /\ lock = NoJob
    /\ lock' = j
    /\ JobTo(j, [NotStarted EXCEPT !.at = "pages", !.cursor = cursor])
    /\ UNCHANGED <<staged, cursor, attempt, lost, failing>>

(* Mutant: the end of the listing is not noticed. *)
NextCursor_Sticky(page, after) == IF page = {} THEN after ELSE Max(page)

(* list_keys: staged keys after the cursor, in order, at most a page *)
ListStaged(after) ==
    LET found == {k \in BatchKeys : staged[k] # "absent" /\ k > after}
    IN  {k \in found : Cardinality({i \in found : i < k}) < StagingPage}

(* next_cursor: NULL at the end of the listing *)
NextCursor(page, after) == IF Cardinality(page) = StagingPage THEN Max(page) ELSE Null

(* stat: modified_at is not after the cutoff *)
Deletable(k) == staged[k] = "old"

(* cleanup_staging: one page is listed, ... *)
ListPage(j) ==
    /\ BatchAt(j, "pages")
    /\ LET page == ListStaged(batchJob[j].cursor)
       IN  JobTo(j, [batchJob[j] EXCEPT !.at = "stat", !.page = page,
                                   !.next = NextCursor(page, batchJob[j].cursor)])
    /\ UNCHANGED <<staged, cursor, lock, attempt, lost, failing>>

(* ... then key by key looked at, kept when it is young or gone, ... *)
StatKey(j) ==
    /\ BatchAt(j, "stat")
    /\ IF batchJob[j].page = {} THEN JobTo(j, [batchJob[j] EXCEPT !.at = "advance"])
       ELSE LET k == Min(batchJob[j].page)
            IN  JobTo(j, IF Deletable(k) THEN [batchJob[j] EXCEPT !.at = "delete"]
                         ELSE [batchJob[j] EXCEPT !.page = @ \ {k}])
    /\ UNCHANGED <<staged, cursor, lock, attempt, lost, failing>>

(* ... and deleted; a delete that fails is counted, and the scan goes on.  *)
DeleteKey(j) ==
    /\ BatchAt(j, "delete")
    /\ LET k == Min(batchJob[j].page)
       IN  /\ \/ staged' = [staged EXCEPT ![k] = "absent"]
              \/ failing /\ UNCHANGED staged
           /\ JobTo(j, [batchJob[j] EXCEPT !.at = "stat", !.page = @ \ {k}])
    /\ UNCHANGED <<cursor, lock, attempt, lost, failing>>

(* Mutant: the cursor is written, whatever it is. *)
Expected_Any(j) == TRUE

(* advance, under the lock of the cursor row *)
Expected(j) == cursor = batchJob[j].cursor

(* Either MaintenanceStateConflictError ends the job, or the cursor is     *)
(* advanced and another page follows.  After the last page projects are    *)
(* purged, windows expired and the lock is freed.                          *)
AdvanceCursor(j) ==
    /\ BatchAt(j, "advance")
    /\ cursor' = IF Expected(j) THEN batchJob[j].next ELSE cursor
    /\ LET more == Expected(j) /\ batchJob[j].next # Null /\ batchJob[j].pages + 1 < MaxPages
       IN  /\ JobTo(j, IF more THEN [NotStarted EXCEPT !.at = "pages", !.cursor = batchJob[j].next,
                                                       !.pages = batchJob[j].pages + 1]
                       ELSE NotStarted)
           /\ lock' = IF ~more /\ lock = j THEN NoJob ELSE lock
    /\ UNCHANGED <<staged, attempt, lost, failing>>

(* A task raises, a listing fails or the process dies: what follows in     *)
(* this invocation does not run, and the cursor stays where it is.         *)
AbortBatch(j) ==
    /\ failing /\ ~BatchAt(j, "idle")
    /\ JobTo(j, NotStarted)
    /\ lock' = IF lock = j THEN NoJob ELSE lock
    /\ UNCHANGED <<staged, cursor, attempt, lost, failing>>

(* The connection that holds the lock is lost. *)
LoseLock ==
    /\ failing /\ lock # NoJob /\ ~lost
    /\ lock' = NoJob /\ lost' = TRUE
    /\ UNCHANGED <<staged, cursor, batchJob, attempt, failing>>

-----------------------------------------------------------------------------
(* Activities. *)

(* stage_model_result: a conditional put; bytes that are there keep their  *)
(* modification time                                                       *)
Stage(a, k) ==
    /\ attempt[a].at = "idle"
    /\ attempt' = [attempt EXCEPT ![a] =
          [at |-> "staged", key |-> k, created |-> staged[k] = "absent"]]
    /\ staged' = [staged EXCEPT ![k] = IF @ = "absent" THEN "young" ELSE @]
    /\ UNCHANGED <<cursor, lock, batchJob, lost, failing>>

(* adopt reads the staged bytes: they are there, or staged_result_missing  *)
(* is raised, which is retryable, and a new attempt stages them again.     *)
ReadStaged(a) ==
    /\ attempt[a].at = "staged"
    /\ attempt' = [attempt EXCEPT ![a] =
          IF staged[attempt[a].key] = "absent" THEN [@ EXCEPT !.at = "missing"]
          ELSE [@ EXCEPT !.at = "adopted"]]
    /\ UNCHANGED <<staged, cursor, lock, batchJob, lost, failing>>

(* The attempt ends, adopted or not. *)
EndAttempt(a) ==
    /\ attempt[a].at # "idle"
    /\ attempt' = [attempt EXCEPT ![a] = NoAttempt]
    /\ UNCHANGED <<staged, cursor, lock, batchJob, lost, failing>>

-----------------------------------------------------------------------------
(* A batch compares with the time it began, so what passes the grace under *)
(* it does so for the next one.  An attempt lasts less than the grace, an  *)
(* hour: what it has stored itself does not grow old under it.             *)
GrowOld(k) ==
    /\ staged[k] = "young"
    /\ \A j \in Jobs : BatchAt(j, "idle")
    /\ \A a \in Attempts : attempt[a].key = k => ~attempt[a].created
    /\ staged' = [staged EXCEPT ![k] = "old"]
    /\ UNCHANGED <<cursor, lock, batchJob, attempt, lost, failing>>

FailuresEnd ==
    /\ failing /\ failing' = FALSE
    /\ UNCHANGED <<staged, cursor, lock, batchJob, attempt, lost>>

JobStepOf(j) ==
    StartBatch(j) \/ ListPage(j) \/ StatKey(j) \/ DeleteKey(j) \/ AdvanceCursor(j)

BatchNext ==
    \/ \E j \in Jobs : JobStepOf(j) \/ AbortBatch(j)
    \/ \E a \in Attempts, k \in BatchKeys : Stage(a, k)
    \/ \E a \in Attempts : ReadStaged(a) \/ EndAttempt(a)
    \/ \E k \in BatchKeys : GrowOld(k)
    \/ LoseLock \/ FailuresEnd

BatchSpec == BatchInit /\ [][BatchNext]_batchVars

-----------------------------------------------------------------------------
BatchTypeOK ==
    /\ staged \in [BatchKeys -> {"absent", "young", "old"}]
    /\ cursor \in BatchKeys \cup {Null}
    /\ lock \in Jobs \cup {NoJob}
    /\ \A j \in Jobs : batchJob[j].at \in Stages /\ batchJob[j].pages \in 0..MaxPages
    /\ \A a \in Attempts : attempt[a].at \in {"idle", "staged", "missing", "adopted"}
    /\ lost \in BOOLEAN /\ failing \in BOOLEAN

(* An attempt that has stored its result itself finds it again, because    *)
(* cleanup_staging deletes only what was past the grace when its batch     *)
(* began.  When the lock was lost two batches may run at once, and one may *)
(* have looked at a key that the other deletes and the attempt stores      *)
(* anew.  An attempt whose bytes were already there may miss them, as runs *)
(* share content addresses.                                                *)
OwnResultFound ==
    ~lost =>
        \A a \in Attempts :
            /\ attempt[a].at = "staged" /\ attempt[a].created => staged[attempt[a].key] # "absent"
            /\ attempt[a].at = "missing" => ~attempt[a].created

(* A batch that lost its lock cannot move the cursor of its successor      *)
(* back: it only advances or starts over ("A second scheduler changed      *)
(* maintenance progress unexpectedly").                                    *)
CursorNeverBack ==
    [][cursor' = cursor \/ cursor' = Null \/ cursor' > cursor]_batchVars

(* What is left in the staging area goes, whatever failed before: the scan *)
(* resumes behind its cursor, which returns to the start.                  *)
StagedResultsGo == \A k \in BatchKeys : staged[k] = "old" ~> staged[k] # "old"

(* The scan of the staging area takes nothing from an attempt that stored   *)
(* it, and two batches do not undo each other's progress.                   *)
StagingScanSafe == []OwnResultFound /\ CursorNeverBack
=============================================================================
