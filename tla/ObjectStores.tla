---------------------------- MODULE ObjectStores ----------------------------
(***************************************************************************)
(* The two object stores behind artifacts (persistence/artifact_store.py): *)
(* files of a development machine, or an S3 bucket.  A key is a content    *)
(* address, so its bytes are never wrong: a key has its data, and beside   *)
(* it the metadata a reader needs first.  A bucket keeps both together; on *)
(* files they are two, changed one after the other by workers and API      *)
(* processes that may be killed in between.                                *)
(***************************************************************************)
EXTENDS Integers, FiniteSets, FiniteSetsExt

CONSTANTS
    ObjectKeys,     \* numbers, in the order of their names
    Users,          \* processes that put and delete objects
    Limits,         \* limits of a listing
    PageSize        \* most keys of one page of a bucket

ASSUME ObjectsAssumption ==
    /\ ObjectKeys \subseteq Nat \ {0} /\ IsFiniteSet(ObjectKeys)
    /\ Limits \subseteq Nat \ {0} /\ PageSize \in Nat \ {0}

VARIABLES
    backend,    \* ARTIFACT_BACKEND
    data,       \* keys whose bytes are stored
    meta,       \* keys whose metadata is stored
    leftover,   \* keys with a temporary metadata file of a killed process
    user,       \* what each process does
    held,       \* keys that were put, acknowledged, and not deleted since
    listing     \* a listing: its limit, entries found, and keys there all along

objectVars == <<backend, data, meta, leftover, user, held, listing>>

RestingUser == [at |-> "idle", key |-> 0, alone |-> FALSE]
NoListing == [at |-> "idle", limit |-> 0, found |-> {}, before |-> {}, steady |-> {}]

ObjectsInit ==
    /\ backend \in {"filesystem", "s3"}
    /\ data = {} /\ meta = {} /\ leftover = {} /\ held = {}
    /\ user = [u \in Users |-> RestingUser]
    /\ listing = NoListing

-----------------------------------------------------------------------------
(* put *)

UserTo(u, at) == user' = [user EXCEPT ![u].at = at]
Ends(u) == user' = [user EXCEPT ![u] = RestingUser]

(* the put is answered; it holds if no delete of the key met it *)
Acknowledge(u) ==
    /\ held' = IF user[u].alone THEN held \cup {user[u].key} ELSE held
    /\ Ends(u)

Deleting(k) == \E u \in Users : user[u].key = k /\ user[u].at \in {"unlink", "unlink_metadata"}

BeginPut(u, k) ==
    /\ user[u].at = "idle"
    /\ user' = [user EXCEPT ![u] = [at |-> "put", key |-> k, alone |-> ~Deleting(k)]]
    /\ UNCHANGED <<backend, data, meta, leftover, held, listing>>

(* _put_sync: a path that exists is compared with its metadata *)
LookForPath(u) ==
    /\ backend = "filesystem" /\ user[u].at = "put"
    /\ UserTo(u, IF user[u].key \in data THEN "compare" ELSE "replace")
    /\ UNCHANGED <<backend, data, meta, leftover, held, listing>>

Compare(u) ==
    /\ user[u].at = "compare"
    /\ IF user[u].key \in data \cap meta THEN Acknowledge(u) ELSE Ends(u) /\ UNCHANGED held
    /\ UNCHANGED <<backend, data, meta, leftover, listing>>

ReplaceData(u) ==
    /\ user[u].at = "replace"
    /\ data' = data \cup {user[u].key}
    /\ UserTo(u, "describe")
    /\ UNCHANGED <<backend, meta, leftover, held, listing>>

(* _write_metadata: a temporary file, then its rename *)
OpenMetadata(u) ==
    /\ user[u].at = "describe"
    /\ UserTo(u, "rename")
    /\ UNCHANGED <<backend, data, meta, leftover, held, listing>>

ReplaceMetadata(u) ==
    /\ user[u].at = "rename"
    /\ meta' = meta \cup {user[u].key}
    /\ Acknowledge(u)
    /\ UNCHANGED <<backend, data, leftover, listing>>

(* Mutant: a put that fails takes the path with it. *)
DataAfterFailure_Unlinked(u) == data \ {user[u].key}

(* finally removes the temporary file only *)
DataAfterFailure(u) == data

PutFails(u) ==
    /\ user[u].at \in {"replace", "describe", "rename"}
    /\ data' = DataAfterFailure(u)
    /\ Ends(u)
    /\ UNCHANGED <<backend, meta, leftover, held, listing>>

(* the process is killed *)
KillUser(u) ==
    /\ user[u].at \notin {"idle", "put"}
    /\ leftover' = IF user[u].at = "rename" THEN leftover \cup {user[u].key} ELSE leftover
    /\ Ends(u)
    /\ UNCHANGED <<backend, data, meta, held, listing>>

(* put_object with If-None-Match: stored, or there already; the answer may *)
(* be lost, and then the SDK asks again or gives up                         *)
PutObject(u) ==
    /\ backend = "s3" /\ user[u].at = "put"
    /\ data' = data \cup {user[u].key} /\ meta' = meta \cup {user[u].key}
    /\ \/ UserTo(u, "head")
       \/ user[u].key \notin data /\ UNCHANGED user
       \/ Ends(u)
    /\ UNCHANGED <<backend, leftover, held, listing>>

(* stat: the object may have been deleted again *)
HeadObject(u) ==
    /\ user[u].at = "head"
    /\ IF user[u].key \in data THEN Acknowledge(u) ELSE Ends(u) /\ UNCHANGED held
    /\ UNCHANGED <<backend, data, meta, leftover, listing>>

-----------------------------------------------------------------------------
(* delete *)

BeginDelete(u, k) ==
    /\ user[u].at = "idle"
    /\ held' = held \ {k}
    /\ user' = [v \in Users |->
         IF v = u THEN [at |-> "unlink", key |-> k, alone |-> FALSE]
         ELSE IF user[v].key = k THEN [user[v] EXCEPT !.alone = FALSE] ELSE user[v]]
    /\ UNCHANGED <<backend, data, meta, leftover, listing>>

Unlink(u) ==
    /\ user[u].at = "unlink"
    /\ data' = data \ {user[u].key}
    /\ listing' = [listing EXCEPT !.steady = @ \ {user[u].key}]
    /\ IF backend = "s3" THEN meta' = meta \ {user[u].key} /\ Ends(u)
       ELSE UNCHANGED meta /\ UserTo(u, "unlink_metadata")
    /\ UNCHANGED <<backend, leftover, held>>

UnlinkMetadata(u) ==
    /\ user[u].at = "unlink_metadata"
    /\ meta' = meta \ {user[u].key}
    /\ Ends(u)
    /\ UNCHANGED <<backend, data, leftover, held, listing>>

-----------------------------------------------------------------------------
(* list_keys.  An entry of a directory is a key, or the temporary metadata  *)
(* file of one, which comes before it; both are files a scan returns.  What  *)
(* is found is given in the order of the numbers.                            *)

EntryOf(k) == 2 * k
TemporaryOf(k) == 2 * k - 1

Entries ==
    {EntryOf(k) : k \in data}
    \cup {TemporaryOf(k) : k \in leftover \cup {user[u].key : u \in {v \in Users : user[v].at = "rename"}}}

(* Mutant: cut without having been sorted. *)
FirstEntries_Unsorted(entries, limit) ==
    {some \in SUBSET entries :
        Cardinality(some) <= limit /\ (some = entries \/ Cardinality(some) = limit)}

(* sorted, then cut: all of them, or as many as the limit *)
FirstEntries(entries, limit) ==
    {some \in SUBSET entries :
        /\ Cardinality(some) <= limit
        /\ some = entries \/ Cardinality(some) = limit
        /\ \A e \in some, later \in entries \ some : e < later}

BeginList(limit) ==
    /\ listing.at # "listing"
    /\ listing' = [at |-> "listing", limit |-> limit, found |-> {}, before |-> Entries, steady |-> data]
    /\ UNCHANGED <<backend, data, meta, leftover, user, held>>

(* rglob meets every file that stays, and perhaps others *)
Scan ==
    /\ backend = "filesystem" /\ listing.at = "listing"
    /\ LET kept == {EntryOf(k) : k \in listing.steady} \cup {TemporaryOf(k) : k \in leftover}
           passing == (listing.before \cup Entries) \ kept
       IN  \E some \in SUBSET passing :
             \E found \in FirstEntries(kept \cup some, listing.limit) :
                listing' = [listing EXCEPT !.at = "listed", !.found = found, !.before = {}]
    /\ UNCHANGED <<backend, data, meta, leftover, user, held>>

(* the next page comes after the last key of the page before *)
NextPage ==
    LET rest == {e \in Entries : \A earlier \in listing.found : earlier < e}
        size == Min({PageSize, listing.limit - Cardinality(listing.found)})
    IN  /\ backend = "s3" /\ listing.at = "listing"
        /\ \E page \in FirstEntries(rest, size) :
              LET found == listing.found \cup page
                  truncated == page # rest
              IN  listing' = [listing EXCEPT !.found = found,
                     !.at = IF Cardinality(found) < listing.limit /\ truncated
                            THEN "listing" ELSE "listed"]
        /\ UNCHANGED <<backend, data, meta, leftover, user, held>>

ObjectsNext ==
    \/ \E u \in Users, k \in ObjectKeys : BeginPut(u, k) \/ BeginDelete(u, k)
    \/ \E u \in Users :
          LookForPath(u) \/ Compare(u) \/ ReplaceData(u) \/ OpenMetadata(u) \/ ReplaceMetadata(u)
          \/ PutFails(u) \/ KillUser(u) \/ PutObject(u) \/ HeadObject(u) \/ Unlink(u) \/ UnlinkMetadata(u)
    \/ \E limit \in Limits : BeginList(limit)
    \/ Scan
    \/ NextPage

-----------------------------------------------------------------------------
(* Properties. *)

ObjectsTypeOK ==
    /\ backend \in {"filesystem", "s3"}
    /\ data \subseteq ObjectKeys /\ meta \subseteq ObjectKeys /\ leftover \subseteq ObjectKeys
    /\ held \subseteq ObjectKeys
    /\ \A u \in Users : user[u] \in
          [at : {"idle", "put", "compare", "replace", "describe", "rename", "head", "unlink",
                 "unlink_metadata"},
           key : ObjectKeys \cup {0}, alone : BOOLEAN]
    /\ listing.at \in {"idle", "listing", "listed"} /\ listing.limit \in Limits \cup {0}
    /\ listing.steady \subseteq ObjectKeys

(* An acknowledged put holds: until someone starts to delete the key, the   *)
(* object is there with its metadata, whatever other puts of the same       *)
(* content do, fail at or are killed in (_put_sync, S3ObjectStore.put).     *)
PutHolds == held \subseteq data \cap meta

(* A listing passes over no key that was there from its start to its end:   *)
(* its callers delete and reconcile page by page and go on after the last   *)
(* key they were given (list_keys of both stores).                          *)
ListingSkipsNone ==
    listing.at = "listed" =>
        \A k \in listing.steady :
            \/ EntryOf(k) \in listing.found
            \/ /\ Cardinality(listing.found) = listing.limit
               /\ \A e \in listing.found : e < EntryOf(k)

(* What the stores tell the artifact service: a put that was acknowledged   *)
(* holds, and a listing passes over nothing.                                *)
StoreKeepsWord == PutHolds /\ ListingSkipsNone

(* Whoever still has the right bytes can put them again when nobody else    *)
(* is at work (services/artifacts.py:203: "so the caller's known-good bytes *)
(* can repair the missing object").  The filesystem store refuses a path    *)
(* without metadata for good.                                               *)
BytesRepairObject ==
    (\A u \in Users : user[u].at = "idle") => data \subseteq meta

=============================================================================
