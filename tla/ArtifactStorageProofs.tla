----------------------- MODULE ArtifactStorageProofs -----------------------
(***************************************************************************)
(* Proofs about ArtifactStorage, for every finite set of keys, any number  *)
(* of writers and any quota.                                               *)
(***************************************************************************)
EXTENDS ArtifactStorage, FiniteSetTheorems, TLAPS

(* A run in progress has no result yet, and holds its project.             *)
RunInv ==
    /\ \A k \in live : row[k] = "none"
    /\ project # "active" => live = {} /\ \A k \in Keys : row[k] # "active"

(* Bytes that a writer has stored stay young until it has returned; no     *)
(* writer outlasts the retention of its project.                           *)
WriterInv ==
    /\ \A w \in Writers :
          created[w] => key[w] \in Keys /\ (row[key[w]] = "none" => object[key[w]] = "young")
    /\ over => project # "active" /\ \A w \in Writers : pc[w] = "idle"

(* What a task remembers is still true when it acts on it.                 *)
JobInv ==
    /\ chosen # NoKey => chosen \in work /\ stage \in {"purge", "reconcile"}
    /\ stage = "purge" =>
          \A k \in work : row[k] = "tombstoned" /\ (k \in due \/ project # "active")
    /\ stage = "reconcile" =>
          /\ \A k \in work \ reused : object[k] = "old" => row[k] = "none"
          /\ chosen # NoKey => object[chosen] = "old"
    /\ stage \in {"prefix", "erase"} => over
    /\ stage = "erase" => \A k \in Keys : ~Stored(k)

(* A project that is gone had reached the end of its retention.            *)
GoneInv ==
    project = "gone" => /\ over
                        /\ \A k \in Keys : row[k] = "none" /\ ~Stored(k)

Inv ==
    /\ TypeOK /\ UsageExact /\ RunInv /\ WriterInv /\ JobInv /\ GoneInv
    /\ FreshWritesSurvive

-----------------------------------------------------------------------------
(* Steps of a writer that only move the writer, and steps of the job that  *)
(* only move the job.                                                      *)
WriterMoves(w, k) ==
    CheckDuplicate(w, k) \/ ReadDuplicate(w) \/ Adopt(w, k) \/ VerifyFinal(w) \/ Fail(w)

JobMoves(k) ==
    \/ SelectDue \/ EndPurge \/ ListKeys \/ ReadReferences \/ EndReconcile
    \/ CheckProject \/ ListPrefix \/ AbortJob \/ StatOrphan(k) \/ SkipKey(k)

(* A writer that moves changes no row, no object and not the job.          *)
LEMMA WriterMovesAlone ==
    ASSUME NEW w \in Writers, NEW k \in Keys, WriterMoves(w, k)
    PROVE  UNCHANGED <<rows, object, live, lifecycle, reused, job, trouble>>
BY DEF WriterMoves, CheckDuplicate, ReadDuplicate, Adopt, VerifyFinal, Fail

(* Planning, listing and looking change no row and no object.              *)
LEMMA JobMovesAlone ==
    ASSUME NEW k \in Keys, JobMoves(k)
    PROVE  UNCHANGED <<rows, object, live, lifecycle, writers, reused>>
BY DEF JobMoves, SelectDue, EndPurge, ListKeys, ReadReferences, EndReconcile,
       CheckProject, ListPrefix, AbortJob, StatOrphan, SkipKey, JobOnly

(* The steps, in the groups the proofs distinguish. *)
Step(w, k) ==
    \/ WriterMoves(w, k) \/ JobMoves(k)
    \/ Put(w) \/ Insert(w) \/ CommitAdopted(w)
    \/ EndRun(k) \/ Tombstone(k) \/ RequestDeletion
    \/ PurgeObject(k) \/ PurgeRow \/ DeleteOrphan \/ EraseProject
    \/ TroubleEnds \/ Age(k) \/ EndRetention(k) \/ EndProjectRetention

-----------------------------------------------------------------------------
(* The counter. *)

(* Charging a row that had none (InsertRow). *)
LEMMA InsertCounts ==
    ASSUME Inv, NEW w \in Writers, NEW k \in Keys, row[k] = "none", InsertRow(w, k)
    PROVE  usage' \in Nat /\ UsageExact'
<1>1. IsFiniteSet(Charged) /\ k \notin Charged
    BY FS_Subset, StorageAssumption DEF Charged
<1>2. Charged' = Charged \cup {k}
    BY DEF InsertRow, Charged, Inv, TypeOK
<1>3. Cardinality(Charged') = Cardinality(Charged) + 1
    BY <1>1, <1>2, FS_AddElement
<1>. QED  BY <1>3 DEF Inv, TypeOK, UsageExact, InsertRow

(* Releasing a tombstoned row: the counter is positive (PurgeRow). *)
LEMMA PurgeCounts ==
    ASSUME Inv, PurgeRow
    PROVE  usage' \in Nat /\ UsageExact'
<1>1. CASE row[chosen] # "tombstoned"
    BY <1>1 DEF PurgeRow, rows, Inv, TypeOK, UsageExact, Charged
<1>2. CASE row[chosen] = "tombstoned"
  <2>1. chosen \in Charged /\ IsFiniteSet(Charged)
      BY <1>2, FS_Subset, StorageAssumption DEF PurgeRow, Finishing, Charged, Inv, TypeOK
  <2>2. Charged' = Charged \ {chosen}
      BY <1>2, <2>1 DEF PurgeRow, Charged, Inv, TypeOK
  <2>3. Cardinality(Charged') = Cardinality(Charged) - 1
      BY <2>1, <2>2, FS_RemoveElement
  <2>4. Cardinality(Charged) \in Nat /\ Cardinality(Charged) # 0
      BY <2>1, FS_CardinalityType, FS_EmptySet
  <2>. QED  BY <1>2, <2>3, <2>4 DEF PurgeRow, Inv, UsageExact
<1>. QED  BY <1>1, <1>2

(* Every step keeps the counter equal to the rows it counts. *)
LEMMA StepCounts ==
    ASSUME Inv, NEW w \in Writers, NEW k \in Keys, Step(w, k)
    PROVE  usage' \in Nat /\ UsageExact'
<1>0. (Charged' = Charged /\ usage' = usage) => usage' \in Nat /\ UsageExact'
    BY DEF Inv, TypeOK, UsageExact
<1>1. CASE WriterMoves(w, k)
    BY <1>0, <1>1, WriterMovesAlone DEF rows, Charged
<1>2. CASE JobMoves(k)
    BY <1>0, <1>2, JobMovesAlone DEF rows, Charged
<1>3. CASE Insert(w)
  <2>1. CASE MayInsert(key[w])
      BY <1>3, <2>1, InsertCounts DEF Insert, MayInsert, Keys
  <2>2. CASE ~MayInsert(key[w])
      BY <1>0, <1>3, <2>2 DEF Insert, rows, Charged
  <2>. QED  BY <2>1, <2>2
<1>4. CASE CommitAdopted(w)
  <2>1. CASE key[w] \in live /\ usage < MaxArtifacts
    <3>1. key[w] \in Keys /\ row[key[w]] = "none"
        BY <2>1 DEF Inv, TypeOK, RunInv, Keys
    <3>. QED  BY <1>4, <2>1, <3>1, InsertCounts DEF CommitAdopted
  <2>2. CASE ~(key[w] \in live /\ usage < MaxArtifacts)
      BY <1>0, <1>4, <2>2 DEF CommitAdopted, rows, Charged
  <2>. QED  BY <2>1, <2>2
<1>5. CASE Put(w) \/ EndRun(k) \/ PurgeObject(k) \/ DeleteOrphan \/ TroubleEnds \/ Age(k)
           \/ EndRetention(k) \/ EndProjectRetention
    BY <1>0, <1>5 DEF Put, EndRun, PurgeObject, DeleteOrphan, TroubleEnds, Age,
       EndRetention, EndProjectRetention, rows, Charged
<1>6. CASE Tombstone(k)
    BY <1>0, <1>6 DEF Tombstone, Charged, Inv, TypeOK
<1>7. CASE RequestDeletion
    BY <1>0, <1>7 DEF RequestDeletion, UsageInRetention, Charged, Inv, TypeOK
<1>8. CASE PurgeRow
    BY <1>8, PurgeCounts
<1>9. CASE EraseProject
    BY <1>0, <1>9 DEF EraseProject, Erasable, Charged
<1>. QED
    BY <1>1, <1>2, <1>3, <1>4, <1>5, <1>6, <1>7, <1>8, <1>9 DEF Step

-----------------------------------------------------------------------------
(* The conjuncts of the invariant. *)

(* The part of TypeOK that is about writers. *)
WriterTypes ==
    /\ pc \in [Writers -> {"idle", "read", "put", "stored", "verified"}]
    /\ key \in [Writers -> Keys \cup {NoKey}] /\ created \in [Writers -> BOOLEAN]
    /\ \A w \in Writers : pc[w] = "idle" <=> key[w] = NoKey

(* A writer that returns is idle and has no key (Return). *)
LEMMA ReturnTypes ==
    ASSUME TypeOK, NEW w \in Writers, Return(w)
    PROVE  WriterTypes'
BY StorageAssumption DEF TypeOK, WriterTypes, Return, Goto, Keys

(* Every variable keeps its type. *)
LEMMA StepTypes ==
    ASSUME Inv, NEW w \in Writers, NEW k \in Keys, Step(w, k),
           usage' \in Nat
    PROVE  TypeOK'
<1>. USE StorageAssumption DEF Inv, TypeOK, Charged, Keys
<1>1. CASE WriterMoves(w, k)
  <2>1. CASE CheckDuplicate(w, k)
      BY <2>1 DEF CheckDuplicate, Goto, rows, lifecycle, job
  <2>2. CASE ReadDuplicate(w)
    <3>1. key[w] \in Keys
        BY <2>2 DEF ReadDuplicate
    <3>2. CASE Stored(key[w])
      <4>1. Return(w)
          BY <2>2, <3>2 DEF ReadDuplicate
      <4>. QED  BY <4>1, <2>2, ReturnTypes, WriterMovesAlone, <1>1
                DEF WriterTypes, rows, lifecycle, job
    <3>3. CASE ~Stored(key[w])
        BY <2>2, <3>1, <3>3 DEF ReadDuplicate, Goto, rows, lifecycle, job
    <3>. QED  BY <3>2, <3>3
  <2>3. CASE Adopt(w, k)
      BY <2>3 DEF Adopt, Goto, rows, lifecycle, job
  <2>4. CASE VerifyFinal(w)
    <3>1. key[w] \in Keys
        BY <2>4 DEF VerifyFinal
    <3>2. CASE Stored(key[w])
        BY <2>4, <3>1, <3>2 DEF VerifyFinal, Goto, rows, lifecycle, job
    <3>3. CASE ~Stored(key[w])
      <4>1. Return(w)
          BY <2>4, <3>3 DEF VerifyFinal
      <4>. QED  BY <4>1, <2>4, ReturnTypes, WriterMovesAlone, <1>1
                DEF WriterTypes, rows, lifecycle, job
    <3>. QED  BY <3>2, <3>3
  <2>5. CASE Fail(w)
      BY <2>5 DEF Fail, Goto, Return, rows, lifecycle, job
  <2>. QED  BY <1>1, <2>1, <2>2, <2>3, <2>4, <2>5 DEF WriterMoves
<1>2. CASE JobMoves(k)
  <2>1. CASE SelectDue \/ EndPurge
      BY <2>1 DEF SelectDue, EndPurge, JobOnly, Begin, rows, lifecycle, writers
  <2>2. CASE ListKeys \/ ReadReferences \/ EndReconcile
      BY <2>2 DEF ListKeys, ReadReferences, EndReconcile, JobOnly, Begin, rows, lifecycle, writers
  <2>3. CASE CheckProject \/ ListPrefix \/ AbortJob
      BY <2>3 DEF CheckProject, ListPrefix, AbortJob, JobOnly, Begin, rows, lifecycle, writers
  <2>4. CASE StatOrphan(k)
      BY <2>4 DEF StatOrphan, Choose, Done, JobOnly, Begin, rows, lifecycle, writers
  <2>5. CASE SkipKey(k)
      BY <2>5 DEF SkipKey, Done, JobOnly, Begin, rows, lifecycle, writers
  <2>. QED  BY <1>2, <2>1, <2>2, <2>3, <2>4, <2>5 DEF JobMoves
<1>3. CASE Put(w)
    BY <1>3 DEF Put, Goto, rows, lifecycle, job
<1>4. CASE Insert(w)
    BY <1>4 DEF Insert, MayInsert, InsertRow, Return, Goto, rows, lifecycle, job
<1>5. CASE CommitAdopted(w)
    BY <1>5 DEF CommitAdopted, InsertRow, Return, Goto, rows, lifecycle, job
<1>6. CASE EndRun(k)
    BY <1>6 DEF EndRun, rows, lifecycle, writers, job
<1>7. CASE Tombstone(k)
    BY <1>7 DEF Tombstone, lifecycle, writers, job
<1>8. CASE RequestDeletion
    BY <1>8 DEF RequestDeletion, MayRequestDeletion, writers, job
<1>9. CASE PurgeObject(k)
    BY <1>9 DEF PurgeObject, Working, Choose, Remove, rows, lifecycle, writers
<1>10. CASE PurgeRow
    BY <1>10 DEF PurgeRow, Finishing, Done, rows, lifecycle, writers
<1>11. CASE DeleteOrphan
    BY <1>11 DEF DeleteOrphan, Finishing, Done, Remove, rows, lifecycle, writers
<1>12. CASE EraseProject
    BY <1>12 DEF EraseProject, Erasable, Begin, writers
<1>13. CASE TroubleEnds \/ Age(k) \/ EndRetention(k) \/ EndProjectRetention
  <2>1. CASE TroubleEnds
      BY <2>1 DEF TroubleEnds, rows, lifecycle, writers, job
  <2>2. CASE Age(k)
      BY <2>2 DEF Age, rows, lifecycle, writers, job
  <2>3. CASE EndRetention(k)
      BY <2>3 DEF EndRetention, lifecycle, writers, job
  <2>4. CASE EndProjectRetention
      BY <2>4 DEF EndProjectRetention, rows, writers, job
  <2>. QED  BY <1>13, <2>1, <2>2, <2>3, <2>4
<1>. QED
    BY <1>1, <1>2, <1>3, <1>4, <1>5, <1>6, <1>7, <1>8, <1>9, <1>10, <1>11, <1>12, <1>13
    DEF Step

(* No active row appears in a project that is not active: the two commits  *)
(* ask for the project or for the run (Insert, CommitAdopted).             *)
LEMMA StepRuns ==
    ASSUME Inv, NEW w \in Writers, NEW k \in Keys, Step(w, k)
    PROVE  RunInv'
<1>. USE StorageAssumption DEF Inv, TypeOK, RunInv, Charged, Keys, GoneInv
<1>1. CASE WriterMoves(w, k)
    BY <1>1, WriterMovesAlone DEF rows, lifecycle, job
<1>2. CASE JobMoves(k)
    BY <1>2, JobMovesAlone DEF rows, lifecycle, writers
<1>3. CASE Put(w)
    BY <1>3 DEF Put, Goto, rows, lifecycle, job
<1>4. CASE Insert(w)
    BY <1>4 DEF Insert, MayInsert, InsertRow, Return, Goto, rows, lifecycle, job
<1>5. CASE CommitAdopted(w)
    BY <1>5 DEF CommitAdopted, InsertRow, Return, Goto, rows, lifecycle, job
<1>6. CASE EndRun(k)
    BY <1>6 DEF EndRun, rows, lifecycle, writers, job
<1>7. CASE Tombstone(k)
    BY <1>7 DEF Tombstone, lifecycle, writers, job
<1>8. CASE RequestDeletion
    BY <1>8 DEF RequestDeletion, MayRequestDeletion, writers, job
<1>9. CASE PurgeObject(k)
    BY <1>9 DEF PurgeObject, Working, Choose, Remove, rows, lifecycle, writers
<1>10. CASE PurgeRow
    BY <1>10 DEF PurgeRow, Finishing, Done, rows, lifecycle, writers
<1>11. CASE DeleteOrphan
    BY <1>11 DEF DeleteOrphan, Finishing, Done, Remove, rows, lifecycle, writers
<1>12. CASE EraseProject
    BY <1>12 DEF EraseProject, Erasable, Begin, writers
<1>13. CASE TroubleEnds \/ Age(k) \/ EndRetention(k) \/ EndProjectRetention
    BY <1>13 DEF TroubleEnds, Age, EndRetention, EndProjectRetention, Quiet,
       rows, lifecycle, writers, job
<1>. QED
    BY <1>1, <1>2, <1>3, <1>4, <1>5, <1>6, <1>7, <1>8, <1>9, <1>10, <1>11, <1>12, <1>13
    DEF Step

(* Bytes a writer has stored stay young while it is in progress: the job   *)
(* takes old objects only (Put, Age, DeleteOrphan).                        *)
LEMMA StepWriters ==
    ASSUME Inv, NEW w \in Writers, NEW k \in Keys, Step(w, k)
    PROVE  WriterInv'
<1>. USE StorageAssumption DEF Inv, TypeOK, WriterInv, RunInv, JobInv, Stored
<1>1. CASE WriterMoves(w, k)
    BY <1>1, WriterMovesAlone DEF rows, lifecycle, job,
       WriterMoves, CheckDuplicate, ReadDuplicate, Adopt, VerifyFinal, Fail, Goto, Return
<1>2. CASE JobMoves(k)
    BY <1>2, JobMovesAlone DEF rows, lifecycle, writers
<1>3. CASE Put(w)
    BY <1>3 DEF Put, Goto, rows, lifecycle, job
<1>4. CASE Insert(w)
    BY <1>4 DEF Insert, MayInsert, InsertRow, Return, Goto, rows, lifecycle, job
<1>5. CASE CommitAdopted(w)
    BY <1>5 DEF CommitAdopted, InsertRow, Return, Goto, rows, lifecycle, job
<1>6. CASE EndRun(k)
    BY <1>6 DEF EndRun, rows, lifecycle, writers, job
<1>7. CASE Tombstone(k)
    BY <1>7 DEF Tombstone, lifecycle, writers, job
<1>8. CASE RequestDeletion
    BY <1>8 DEF RequestDeletion, MayRequestDeletion, writers, job
<1>9. CASE PurgeObject(k)
    BY <1>9 DEF PurgeObject, Working, Choose, Remove, rows, lifecycle, writers
<1>10. CASE PurgeRow
    BY <1>10 DEF PurgeRow, Finishing, Done, rows, lifecycle, writers
<1>11. CASE DeleteOrphan
    BY <1>11 DEF DeleteOrphan, Finishing, Done, Remove, rows, lifecycle, writers
<1>12. CASE EraseProject
    BY <1>12 DEF EraseProject, Erasable, Begin, writers
<1>13. CASE TroubleEnds \/ Age(k) \/ EndRetention(k) \/ EndProjectRetention
    BY <1>13 DEF TroubleEnds, Age, EndRetention, EndProjectRetention, Quiet,
       rows, lifecycle, writers, job
<1>. QED
    BY <1>1, <1>2, <1>3, <1>4, <1>5, <1>6, <1>7, <1>8, <1>9, <1>10, <1>11, <1>12, <1>13
    DEF Step

(* What the job remembers stays true while writers and users go on         *)
(* (purge_due, reconcile_orphans).                                         *)
LEMMA StepJob ==
    ASSUME Inv, NEW w \in Writers, NEW k \in Keys, Step(w, k)
    PROVE  JobInv'
<1>. USE StorageAssumption DEF Inv, TypeOK, JobInv, WriterInv, RunInv, Charged, Stored
<1>1. CASE WriterMoves(w, k)
    BY <1>1, WriterMovesAlone DEF rows, lifecycle, job
<1>2. CASE JobMoves(k)
    BY <1>2, JobMovesAlone DEF rows, lifecycle, writers,
       JobMoves, SelectDue, EndPurge, ListKeys, ReadReferences,
       EndReconcile, CheckProject, ListPrefix, AbortJob, StatOrphan, SkipKey, Begin, Done,
       Choose, Working, Purgeable, Referenced, PastGrace, Erasable, PrefixEmpty
<1>3. CASE Put(w)
    BY <1>3 DEF Put, Goto, rows, lifecycle, job
<1>4. CASE Insert(w)
    BY <1>4 DEF Insert, MayInsert, InsertRow, Return, Goto, rows, lifecycle, job
<1>5. CASE CommitAdopted(w)
    BY <1>5 DEF CommitAdopted, InsertRow, Return, Goto, rows, lifecycle, job
<1>6. CASE EndRun(k)
    BY <1>6 DEF EndRun, rows, lifecycle, writers, job
<1>7. CASE Tombstone(k)
    BY <1>7 DEF Tombstone, lifecycle, writers, job
<1>8. CASE RequestDeletion
    BY <1>8 DEF RequestDeletion, MayRequestDeletion, writers, job
<1>9. CASE PurgeObject(k)
    BY <1>9 DEF PurgeObject, Working, Choose, Remove, rows, lifecycle, writers
<1>10. CASE PurgeRow
    BY <1>10 DEF PurgeRow, Finishing, Done, rows, lifecycle, writers
<1>11. CASE DeleteOrphan
    BY <1>11 DEF DeleteOrphan, Finishing, Done, Remove, rows, lifecycle, writers
<1>12. CASE EraseProject
    BY <1>12 DEF EraseProject, Erasable, Begin, writers
<1>13. CASE TroubleEnds \/ Age(k) \/ EndRetention(k) \/ EndProjectRetention
    BY <1>13 DEF TroubleEnds, Age, EndRetention, EndProjectRetention, Quiet,
       rows, lifecycle, writers, job
<1>. QED
    BY <1>1, <1>2, <1>3, <1>4, <1>5, <1>6, <1>7, <1>8, <1>9, <1>10, <1>11, <1>12, <1>13
    DEF Step

(* Nothing returns to a project that is gone. *)
LEMMA StepGone ==
    ASSUME Inv, NEW w \in Writers, NEW k \in Keys, Step(w, k)
    PROVE  GoneInv'
<1>. USE StorageAssumption DEF Inv, TypeOK, GoneInv, JobInv, WriterInv, RunInv, Charged, Stored
<1>1. CASE WriterMoves(w, k)
    BY <1>1, WriterMovesAlone DEF rows, lifecycle, job
<1>2. CASE JobMoves(k)
    BY <1>2, JobMovesAlone DEF rows, lifecycle, writers
<1>3. CASE Put(w)
    BY <1>3 DEF Put, Goto, rows, lifecycle, job
<1>4. CASE Insert(w)
    BY <1>4 DEF Insert, MayInsert, InsertRow, Return, Goto, rows, lifecycle, job
<1>5. CASE CommitAdopted(w)
    BY <1>5 DEF CommitAdopted, InsertRow, Return, Goto, rows, lifecycle, job
<1>6. CASE EndRun(k)
    BY <1>6 DEF EndRun, rows, lifecycle, writers, job
<1>7. CASE Tombstone(k)
    BY <1>7 DEF Tombstone, lifecycle, writers, job
<1>8. CASE RequestDeletion
    BY <1>8 DEF RequestDeletion, MayRequestDeletion, writers, job
<1>9. CASE PurgeObject(k)
    BY <1>9 DEF PurgeObject, Working, Choose, Remove, rows, lifecycle, writers
<1>10. CASE PurgeRow
    BY <1>10 DEF PurgeRow, Finishing, Done, rows, lifecycle, writers
<1>11. CASE DeleteOrphan
    BY <1>11 DEF DeleteOrphan, Finishing, Done, Remove, rows, lifecycle, writers
<1>12. CASE EraseProject
    BY <1>12 DEF EraseProject, Erasable, Begin, writers
<1>13. CASE TroubleEnds \/ Age(k) \/ EndRetention(k) \/ EndProjectRetention
    BY <1>13 DEF TroubleEnds, Age, EndRetention, EndProjectRetention, Quiet,
       rows, lifecycle, writers, job
<1>. QED
    BY <1>1, <1>2, <1>3, <1>4, <1>5, <1>6, <1>7, <1>8, <1>9, <1>10, <1>11, <1>12, <1>13
    DEF Step

(* No step takes bytes that must be there. *)
LEMMA StepFresh ==
    ASSUME Inv, NEW w \in Writers, NEW k \in Keys, Step(w, k)
    PROVE  FreshWritesSurvive'
<1>. USE StorageAssumption DEF Inv, TypeOK, FreshWritesSurvive, JobInv, WriterInv, RunInv, Charged, Stored
<1>1. CASE WriterMoves(w, k)
    BY <1>1, WriterMovesAlone DEF rows, lifecycle, job
<1>2. CASE JobMoves(k)
    BY <1>2, JobMovesAlone DEF rows, lifecycle, writers
<1>3. CASE Put(w)
    BY <1>3 DEF Put, Goto, rows, lifecycle, job
<1>4. CASE Insert(w)
    BY <1>4 DEF Insert, MayInsert, InsertRow, Return, Goto, rows, lifecycle, job
<1>5. CASE CommitAdopted(w)
    BY <1>5 DEF CommitAdopted, InsertRow, Return, Goto, rows, lifecycle, job
<1>6. CASE EndRun(k)
    BY <1>6 DEF EndRun, rows, lifecycle, writers, job
<1>7. CASE Tombstone(k)
    BY <1>7 DEF Tombstone, lifecycle, writers, job
<1>8. CASE RequestDeletion
    BY <1>8 DEF RequestDeletion, MayRequestDeletion, writers, job
<1>9. CASE PurgeObject(k)
    BY <1>9 DEF PurgeObject, Working, Choose, Remove, rows, lifecycle, writers
<1>10. CASE PurgeRow
    BY <1>10 DEF PurgeRow, Finishing, Done, rows, lifecycle, writers
<1>11. CASE DeleteOrphan
    BY <1>11 DEF DeleteOrphan, Finishing, Done, Remove, rows, lifecycle, writers
<1>12. CASE EraseProject
    BY <1>12 DEF EraseProject, Erasable, Begin, writers
<1>13. CASE TroubleEnds \/ Age(k) \/ EndRetention(k) \/ EndProjectRetention
    BY <1>13 DEF TroubleEnds, Age, EndRetention, EndProjectRetention, Quiet,
       rows, lifecycle, writers, job
<1>. QED
    BY <1>1, <1>2, <1>3, <1>4, <1>5, <1>6, <1>7, <1>8, <1>9, <1>10, <1>11, <1>12, <1>13
    DEF Step

-----------------------------------------------------------------------------
(* Initially nothing is stored. *)
LEMMA InitInv == Init => Inv
<1> SUFFICES ASSUME Init PROVE Inv
    OBVIOUS
<1>1. Charged = {}
    BY DEF Init, Charged
<1>2. UsageExact
    BY <1>1, FS_EmptySet DEF Init, UsageExact
<1>3. TypeOK
    BY StorageAssumption DEF Init, TypeOK, Keys
<1>4. RunInv /\ WriterInv /\ JobInv /\ GoneInv /\ FreshWritesSurvive
    BY DEF Init, RunInv, WriterInv, JobInv, GoneInv, FreshWritesSurvive, Keys
<1>. QED  BY <1>2, <1>3, <1>4 DEF Inv

(* The steps the lemmas speak of are those of Next. *)
LEMMA NextSteps ==
    ASSUME Next
    PROVE  \E w \in Writers, k \in Keys : Step(w, k)
<1>1. PICK w \in Writers, k \in Keys : TRUE
    BY StorageAssumption
<1>2. CASE \E v \in Writers : WriterStep(v) \/ Fail(v)
    BY <1>1, <1>2 DEF WriterStep, Step, WriterMoves
<1>3. CASE \E v \in Writers, l \in Keys : CheckDuplicate(v, l) \/ Adopt(v, l)
    BY <1>3 DEF Step, WriterMoves
<1>4. CASE \E l \in Keys : EndRun(l) \/ Tombstone(l) \/ SkipKey(l) \/ Age(l) \/ EndRetention(l)
    BY <1>1, <1>4 DEF Step, JobMoves
<1>5. CASE RequestDeletion \/ EndProjectRetention \/ JobStep \/ AbortJob \/ TroubleEnds
    BY <1>1, <1>5 DEF Step, JobMoves, JobStep
<1>. QED  BY <1>2, <1>3, <1>4, <1>5 DEF Next

(* The invariant is inductive. *)
LEMMA NextInv == Inv /\ [Next]_vars => Inv'
<1> SUFFICES ASSUME Inv, [Next]_vars PROVE Inv'
    OBVIOUS
<1>1. CASE Next
  <2>1. PICK w \in Writers, k \in Keys : Step(w, k)
      BY <1>1, NextSteps
  <2>2. usage' \in Nat /\ UsageExact'
      BY <2>1, StepCounts
  <2>3. TypeOK'
      BY <2>1, <2>2, StepTypes
  <2>4. RunInv' /\ WriterInv' /\ JobInv' /\ GoneInv' /\ FreshWritesSurvive'
      BY <2>1, StepRuns, StepWriters, StepJob, StepGone, StepFresh
  <2>. QED  BY <2>2, <2>3, <2>4 DEF Inv
<1>2. CASE UNCHANGED vars
    BY <1>2 DEF vars, rows, lifecycle, writers, job, Inv, TypeOK, UsageExact, RunInv,
       WriterInv, JobInv, GoneInv, FreshWritesSurvive, Stored, Charged
<1>. QED  BY <1>1, <1>2

(* What the maintenance job, the writers and the users do together keeps   *)
(* the invariant.                                                          *)
THEOREM Invariant == Spec => []Inv
<1>. QED  BY InitInv, NextInv, PTL DEF Spec

-----------------------------------------------------------------------------
(* Every variable keeps its type; the counter never becomes negative. *)
THEOREM TypeCorrect == Spec => []TypeOK
<1>1. Inv => TypeOK
    BY DEF Inv
<1>. QED  BY <1>1, Invariant, PTL

(* The artifact counter equals the rows that are charged, whatever is      *)
(* repeated, refused or interrupted.                                       *)
THEOREM UsageCorrect == Spec => []UsageExact
<1>1. Inv => UsageExact
    BY DEF Inv
<1>. QED  BY <1>1, Invariant, PTL

(* No artifact is committed into a project that waits for deletion.        *)
THEOREM DeletionWins == Spec => []NothingActiveAfterDeletion
<1>1. Inv => NothingActiveAfterDeletion
    BY DEF Inv, RunInv, NothingActiveAfterDeletion
<1>. QED  BY <1>1, Invariant, PTL

(* A project that is gone leaves neither bytes nor charge.                 *)
THEOREM ErasureComplete == Spec => []GoneLeavesNothing
<1>1. Inv => GoneLeavesNothing
  <2> SUFFICES ASSUME Inv, project = "gone" PROVE usage = 0 /\ \A k \in Keys : ~Stored(k)
      BY DEF GoneLeavesNothing
  <2>1. Charged = {}
      BY DEF Inv, GoneInv, Charged
  <2>. QED  BY <2>1, FS_EmptySet DEF Inv, UsageExact, GoneInv
<1>. QED  BY <1>1, Invariant, PTL

(* Bytes that a writer has stored itself are there while their row is      *)
(* active or retained.                                                     *)
THEOREM FreshBytesSurvive == Spec => []FreshWritesSurvive
<1>1. Inv => FreshWritesSurvive
    BY DEF Inv
<1>. QED  BY <1>1, Invariant, PTL
=============================================================================
