----------------------------- MODULE DatgIndexes -----------------------------
(***************************************************************************)
(* Phon-DATG token indexes (adapters/corpusgen/datg.py, services/datg.py,  *)
(* services/datg_catalog.py, persistence/datg_cache.py, the publication in *)
(* services/artifact_adoption.py and workflows/store.py): builds, the      *)
(* shared cache of index files that their parents publish, the rows that   *)
(* let a project use a file, inspection, and guided generation.            *)
(*                                                                         *)
(* Files are written, linked, verified and synced in separate steps, by    *)
(* several builds at once, and the host may crash.  An index maps tokens   *)
(* to the phonetic units of their text; what the engine finds for one      *)
(* cache key should not differ between builds, but nothing forces it.      *)
(***************************************************************************)
EXTENDS Integers, FiniteSets, FiniteSetsExt

CONSTANTS
    DatgProjects, DatgBuilds,
    HomeOf,         \* the project of a build run
    KeyOf,          \* the cache identity of its request
    RuntimeOf,      \* the runtime_id of its request
    RawMaps,        \* what the engine may find: token -> units of any level
    UnitLevel,      \* number of hyphens of a unit
    KeyLevel        \* unit level of a cache identity

CacheKeys == {KeyOf[b] : b \in DatgBuilds}
AllUnits == UNION {UNION {m[t] : t \in DOMAIN m} : m \in RawMaps}

ASSUME DatgAssumption ==
    /\ \A b \in DatgBuilds : HomeOf[b] \in DatgProjects
    /\ \A u \in AllUnits : UnitLevel[u] \in 0..2
    /\ \A k \in CacheKeys : KeyLevel[k] \in 0..2

VARIABLES
    indexFile,  \* <cache_key>.json: the index it holds
    durable,    \* is the directory entry on disk?
    published,  \* DatgIndexPublicationRecord, by project and key
    projectOpen,
    build,      \* build runs, each with its attempt
    guided,     \* a generation run with its request and its result
    inspector   \* an inspection between its authorization and the file

datgVars == <<indexFile, durable, published, projectOpen, build, guided, inspector>>

NoIndex == [none |-> {}]
NoRow == [content |-> NoIndex, runtime |-> "none"]
NoBuild == [at |-> "queued", index |-> NoIndex]
NoGuided == [at |-> "none", project |-> "none", key |-> "none", targets |-> {},
             covered |-> {}, boosted |-> {}, penalized |-> {}, expected |-> NoIndex]
NoInspector == [at |-> "none", project |-> "none", key |-> "none", expected |-> NoIndex]

DatgInit ==
    /\ indexFile = [k \in CacheKeys |-> NoIndex]
    /\ durable = [k \in CacheKeys |-> FALSE]
    /\ published = [p \in DatgProjects |-> [k \in CacheKeys |-> NoRow]]
    /\ projectOpen = [p \in DatgProjects |-> TRUE]
    /\ build = [b \in DatgBuilds |-> NoBuild]
    /\ guided = NoGuided
    /\ inspector = NoInspector

BuildTo(b, at) == build' = [build EXCEPT ![b].at = at]
BuildLive(b) == build[b].at \notin {"queued", "succeeded", "failed"}

-----------------------------------------------------------------------------
(* Indexes. *)

(* _filter_units *)
UnitsAt(units, level) == {u \in units : UnitLevel[u] = level}

(* _artifact_from_maps: the tokens with units of the level *)
IndexOf(raw, level) ==
    [t \in {t \in DOMAIN raw : UnitsAt(raw[t], level) # {}} |-> UnitsAt(raw[t], level)]

(* DatgIndexArtifact: both directions of the map say the same. *)
UnitToTokens(index) ==
    [u \in UNION {index[t] : t \in DOMAIN index} |-> {t \in DOMAIN index : u \in index[t]}]

(* _ArtifactWordIndex, which guides the generation *)
AttributeTokens(index, targets) ==
    UNION {UnitToTokens(index)[u] : u \in targets \cap DOMAIN UnitToTokens(index)}

AntiAttributeTokens(index, covered) ==
    {t \in DOMAIN index : index[t] # {} /\ index[t] \subseteq covered}

(* DatgInspectionService: which tokens hold a target, which add nothing *)
InspectTarget(index, targets) ==
    UNION {UnitToTokens(index)[u] : u \in targets \cap DOMAIN UnitToTokens(index)}
InspectCovered(index, covered) == {t \in DOMAIN index : index[t] \subseteq covered}
InspectFrequency(index, counts, threshold) ==
    {t \in DOMAIN index : \A u \in index[t] : counts[u] > threshold}

(* Units that were covered `counts` times, as guidance by frequency counts *)
CountsOf(covered) == [u \in AllUnits |-> IF u \in covered THEN 1 ELSE 0]

-----------------------------------------------------------------------------
(* Builds. *)

(* The child builds the index and stages it. *)
BuildIndex(b, raw) ==
    /\ build[b].at = "queued" /\ projectOpen[HomeOf[b]]
    /\ build' = [build EXCEPT ![b] = [at |-> "staged", index |-> IndexOf(raw, KeyLevel[KeyOf[b]])]]
    /\ UNCHANGED <<indexFile, durable, published, projectOpen, guided, inspector>>

(* The vocabulary is refused, the engine contradicts itself, the parent    *)
(* runs other versions than the child, or an attempt is lost: the run has  *)
(* failed, or another attempt builds again.                                *)
BuildFails(b) ==
    /\ BuildLive(b)
    /\ \E at \in {"failed", "queued"} : build' = [build EXCEPT ![b] = [NoBuild EXCEPT !.at = at]]
    /\ UNCHANGED <<indexFile, durable, published, projectOpen, guided, inspector>>

(* publish: a file that is there is only verified. *)
StartPublish(b) ==
    /\ build[b].at = "staged"
    /\ BuildTo(b, IF indexFile[KeyOf[b]] = NoIndex THEN "written" ELSE "present")
    /\ UNCHANGED <<indexFile, durable, published, projectOpen, guided, inspector>>

(* Mutant: the last one wins. *)
Linked_Last(b) == build[b].index

(* os.link of the synced temporary file: FileExistsError is ignored. *)
Linked(b) ==
    IF indexFile[KeyOf[b]] = NoIndex THEN build[b].index ELSE indexFile[KeyOf[b]]

LinkFile(b) ==
    /\ build[b].at = "written"
    /\ indexFile' = [indexFile EXCEPT ![KeyOf[b]] = Linked(b)]
    /\ BuildTo(b, "present")
    /\ UNCHANGED <<durable, published, projectOpen, guided, inspector>>

(* _verify_existing: publication_conflict fails the run. *)
VerifyExisting(b) ==
    /\ build[b].at = "present"
    /\ BuildTo(b, IF indexFile[KeyOf[b]] = build[b].index THEN "verified" ELSE "failed")
    /\ UNCHANGED <<indexFile, durable, published, projectOpen, guided, inspector>>

(* _sync_directory, by whoever found or linked a file *)
SyncDirectory(b) ==
    /\ build[b].at = "verified"
    /\ durable' = [k \in CacheKeys |-> indexFile[k] # NoIndex]
    /\ BuildTo(b, "synced")
    /\ UNCHANGED <<indexFile, published, projectOpen, guided, inspector>>

(* _same_datg_publication *)
RowOf(b) == [content |-> build[b].index, runtime |-> RuntimeOf[b]]
SamePublication(row, b) == row = RowOf(b)

(* commit_adopted_result with _commit_datg_publication: the row, unless an *)
(* equal one is there, and the success of the run.                         *)
CommitBuild(b) ==
    /\ build[b].at = "synced"
    /\ LET p == HomeOf[b]
           k == KeyOf[b]
           row == published[p][k]
       IN  IF row = NoRow
           THEN /\ published' = [published EXCEPT ![p][k] = RowOf(b)]
                /\ BuildTo(b, "succeeded")
           ELSE /\ \E at \in IF SamePublication(row, b) THEN {"succeeded"} ELSE {"failed", "queued"} :
                      build' = [build EXCEPT ![b] =
                          IF at = "queued" THEN NoBuild ELSE [@ EXCEPT !.at = at]]
                /\ UNCHANGED published
    /\ UNCHANGED <<indexFile, durable, projectOpen, guided, inspector>>

(* The host of the batch workers goes down: entries that were not synced   *)
(* may be lost, attempts are repeated.                                     *)
HostCrash ==
    /\ \E gone \in SUBSET {k \in CacheKeys : ~durable[k]} :
          indexFile' = [k \in CacheKeys |-> IF k \in gone THEN NoIndex ELSE indexFile[k]]
    /\ build' = [b \in DatgBuilds |-> IF BuildLive(b) THEN NoBuild ELSE build[b]]
    /\ UNCHANGED <<durable, published, projectOpen, guided, inspector>>

-----------------------------------------------------------------------------
(* Users. *)

(* _authorize_datg_index: a submission needs the row of its own project.   *)
SubmitGuided(p, k, targets, covered) ==
    /\ guided.at = "none" /\ projectOpen[p] /\ published[p][k] # NoRow
    /\ guided' = [NoGuided EXCEPT !.at = "running", !.project = p, !.key = k,
                     !.targets = targets, !.covered = covered,
                     !.expected = published[p][k].content]
    /\ UNCHANGED <<indexFile, durable, published, projectOpen, build, inspector>>

(* generate: the file of the key, whoever published it; the seed and the   *)
(* model decide the texts, the index which tokens are steered.             *)
Generate ==
    /\ guided.at = "running"
    /\ LET index == indexFile[guided.key]
       IN  guided' = IF index = NoIndex THEN [guided EXCEPT !.at = "missing"]
                     ELSE [guided EXCEPT !.at = "succeeded",
                              !.boosted = AttributeTokens(index, guided.targets),
                              !.penalized = AntiAttributeTokens(index, guided.covered)]
    /\ UNCHANGED <<indexFile, durable, published, projectOpen, build, inspector>>

(* The model is not that of the policy, no text is usable, time is up; or   *)
(* the run is over and another one is submitted.                           *)
GenerateFails ==
    /\ guided.at \in {"running", "succeeded", "missing"} /\ guided' = NoGuided
    /\ UNCHANGED <<indexFile, durable, published, projectOpen, build, inspector>>

(* The catalog: _authorize_key, and then the file *)
Inspect(p, k) ==
    /\ inspector.at # "authorized" /\ projectOpen[p] /\ published[p][k] # NoRow
    /\ inspector' = [at |-> "authorized", project |-> p, key |-> k,
                     expected |-> published[p][k].content]
    /\ UNCHANGED <<indexFile, durable, published, projectOpen, build, guided>>

(* artifact, _authorized_artifact: what is not there or not what the row   *)
(* says is refused.                                                        *)
ReadIndex ==
    /\ inspector.at = "authorized"
    /\ inspector' = [inspector EXCEPT !.at =
          IF indexFile[inspector.key] = NoIndex THEN "missing"
          ELSE IF indexFile[inspector.key] # inspector.expected THEN "refused"
          ELSE "served"]
    /\ UNCHANGED <<indexFile, durable, published, projectOpen, build, guided>>

(* Deletion of the project takes its rows, not the shared files. *)
PurgePublications(p) ==
    /\ projectOpen[p]
    /\ \A b \in DatgBuilds : HomeOf[b] = p => ~BuildLive(b)
    /\ guided.at = "running" => guided.project # p
    /\ projectOpen' = [projectOpen EXCEPT ![p] = FALSE]
    /\ published' = [published EXCEPT ![p] = [k \in CacheKeys |-> NoRow]]
    /\ UNCHANGED <<indexFile, durable, build, guided, inspector>>

DatgNext ==
    \/ \E b \in DatgBuilds, raw \in RawMaps : BuildIndex(b, raw)
    \/ \E b \in DatgBuilds :
          \/ BuildFails(b) \/ StartPublish(b) \/ LinkFile(b) \/ VerifyExisting(b)
          \/ SyncDirectory(b) \/ CommitBuild(b)
    \/ HostCrash \/ Generate \/ GenerateFails \/ ReadIndex
    \/ \E p \in DatgProjects, k \in CacheKeys :
          \/ Inspect(p, k)
          \/ \E targets, covered \in SUBSET UnitsAt(AllUnits, KeyLevel[k]) :
                SubmitGuided(p, k, targets, covered)
    \/ \E p \in DatgProjects : PurgePublications(p)

DatgSpec == DatgInit /\ [][DatgNext]_datgVars

-----------------------------------------------------------------------------
DatgTypeOK ==
    /\ \A k \in CacheKeys : durable[k] => indexFile[k] # NoIndex
    /\ \A b \in DatgBuilds :
          build[b].at \in {"queued", "staged", "written", "present", "verified", "synced",
                           "succeeded", "failed"}
    /\ guided.at \in {"none", "running", "succeeded", "missing"}
    /\ inspector.at \in {"none", "authorized", "served", "missing", "refused"}

(* A row that lets a project use an index is matched by a file that        *)
(* survives a crash and holds what the row says, however builds of several *)
(* projects raced for the key, and so no authorized inspection is refused  *)
(* and none finds its file missing, even if the project goes meanwhile.    *)
CataloguedIndexServed ==
    /\ \A p \in DatgProjects, k \in CacheKeys :
          published[p][k] # NoRow => durable[k] /\ indexFile[k] = published[p][k].content
    /\ inspector.at \notin {"missing", "refused"}

(* The tokens a generation steers are those that inspection of the         *)
(* catalogued index shows for its targets and its covered units, though    *)
(* worker and API compute them in different ways from different reads.     *)
GuidanceMatchesInspection ==
    /\ guided.at # "missing"
    /\ guided.at = "succeeded" =>
          /\ guided.boosted = InspectTarget(guided.expected, guided.targets)
          /\ guided.penalized = InspectCovered(guided.expected, guided.covered)
          /\ guided.penalized =
                InspectFrequency(guided.expected, CountsOf(guided.covered), 0)

(* A catalogued index is what its users get, by inspection and in          *)
(* generation.                                                             *)
IndexesServe == CataloguedIndexServed /\ GuidanceMatchesInspection
=============================================================================
