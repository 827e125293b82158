--------------------------- MODULE PhoibleSnapshot ---------------------------
(***************************************************************************)
(* Provisioning of the pinned PHOIBLE snapshot (adapters/corpusgen/        *)
(* phoible_provisioning.py, operations/phoible_cli.py): several commands   *)
(* at once on one cache directory, sources that fail or lie, processes     *)
(* that are killed and power that fails.                                   *)
(*                                                                         *)
(* A file is its length in chunks and whether it is right so far.          *)
(***************************************************************************)
EXTENDS Integers, FiniteSets

CONSTANTS
    Provisioners,   \* processes of the command line
    PinnedLength,   \* chunks of the pinned snapshot
    Offers          \* what a source may send: files, longer and wrong ones too

Pinned == [kind |-> "file", length |-> PinnedLength, right |-> TRUE]
Torn == [kind |-> "file", length |-> 0, right |-> FALSE]
Missing == [kind |-> "missing", length |-> 0, right |-> FALSE]
Special == [kind |-> "special", length |-> 0, right |-> FALSE]

AnyFile == [kind : {"file", "missing", "special"}, length : Nat, right : BOOLEAN]

ASSUME SnapshotAssumption ==
    PinnedLength \in Nat \ {0} /\ Pinned \in Offers /\ Offers \subseteq AnyFile

VARIABLES
    snapshot,   \* the file at the destination's name
    mayBe,      \* files the name may lead to after a power failure
    command     \* the commands, each with its temporary file

snapshotVars == <<snapshot, mayBe, command>>

NoCommand == [at |-> "idle", look |-> "none", force |-> FALSE, offer |-> Missing,
              temp |-> Missing, synced |-> FALSE]

SnapshotInit ==
    /\ snapshot \in {Missing, Special, Torn, Pinned}
    /\ mayBe = {snapshot}
    /\ command = [p \in Provisioners |-> NoCommand]

CommandTo(p, next) == command' = [command EXCEPT ![p] = next]
CommandAt(p, phase) == command[p].at = phase
FilesStay == UNCHANGED <<snapshot, mayBe>>

(* Every error removes the temporary file and ends the command. *)
EndCommand(p) == CommandTo(p, NoCommand) /\ FilesStay

(* run: status, or provision with or without --force, from some source *)
StartCommand(p) ==
    /\ CommandAt(p, "idle")
    /\ \/ CommandTo(p, [NoCommand EXCEPT !.at = "sizing", !.look = "status"])
       \/ \E force \in BOOLEAN, offer \in Offers :
            CommandTo(p, [NoCommand EXCEPT !.at = "sizing", !.look = "before",
                                           !.force = force, !.offer = offer])
    /\ FilesStay

(* status: what kind of file there is, and its size *)
RightSize == snapshot.kind = "file" /\ snapshot.length = PinnedLength

(* provision installs over whatever is not ready, and when it is forced. *)
AfterLook(p, ready) ==
    /\ IF command[p].look = "before" /\ (command[p].force \/ ~ready)
       THEN CommandTo(p, [command[p] EXCEPT !.at = "opening"])
       ELSE CommandTo(p, NoCommand)
    /\ FilesStay

LookAtSize(p) ==
    /\ CommandAt(p, "sizing")
    /\ IF RightSize
       THEN CommandTo(p, [command[p] EXCEPT !.at = "hashing"]) /\ FilesStay
       ELSE AfterLook(p, FALSE)

(* status: the digest of what is there now *)
LookAtBytes(p) == CommandAt(p, "hashing") /\ AfterLook(p, snapshot = Pinned)

(* _atomic_install: a temporary file in the same directory *)
OpenTemporary(p) ==
    /\ CommandAt(p, "opening")
    /\ CommandTo(p, [command[p] EXCEPT
            !.at = "writing", !.temp = [kind |-> "file", length |-> 0, right |-> TRUE]])
    /\ FilesStay

Longer(temp, offer) == [kind |-> "file", length |-> temp.length + 1, right |-> offer.right]

(* _https_chunks, _file_chunks: one more chunk, up to the end of what is sent *)
ReceiveChunk(p) ==
    /\ CommandAt(p, "writing") /\ command[p].temp.length < command[p].offer.length
    /\ IF command[p].temp.length >= PinnedLength
       THEN EndCommand(p)
       ELSE /\ CommandTo(p, [command[p] EXCEPT
                    !.temp = Longer(command[p].temp, command[p].offer)])
            /\ FilesStay

(* flush and fsync, when the source has ended *)
SyncTemporary(p) ==
    /\ CommandAt(p, "writing") /\ command[p].temp.length = command[p].offer.length
    /\ CommandTo(p, [command[p] EXCEPT !.at = "checking", !.synced = TRUE])
    /\ FilesStay

(* Mutant: the size is enough. *)
Accepted_BySize(p) == command[p].temp.length = PinnedLength

(* The exact size and the digest *)
Accepted(p) == command[p].temp = Pinned

CheckTemporary(p) ==
    /\ CommandAt(p, "checking")
    /\ IF Accepted(p)
       THEN CommandTo(p, [command[p] EXCEPT !.at = "replacing"]) /\ FilesStay
       ELSE EndCommand(p)

(* os.replace; a directory in its place is an error that ends the command. *)
ReplaceSnapshot(p) ==
    /\ CommandAt(p, "replacing")
    /\ snapshot' = command[p].temp
    /\ mayBe' = mayBe \cup {IF command[p].synced THEN command[p].temp ELSE Torn}
    /\ CommandTo(p, [command[p] EXCEPT !.at = "syncing"])

(* _fsync_directory does nothing where it fails; then the file is looked at again. *)
SyncDirectory(p) ==
    /\ CommandAt(p, "syncing")
    /\ CommandTo(p, [NoCommand EXCEPT !.at = "sizing", !.look = "after"])
    /\ UNCHANGED snapshot
    /\ \/ mayBe' = IF command[p].synced THEN {snapshot} ELSE {snapshot, Torn}
       \/ UNCHANGED mayBe

(* A source or a system call fails, or the process is killed. *)
CommandFails(p) == ~CommandAt(p, "idle") /\ EndCommand(p)

PowerLoss ==
    /\ snapshot' \in mayBe
    /\ mayBe' = {snapshot'}
    /\ command' = [p \in Provisioners |-> NoCommand]

SnapshotNext ==
    \/ \E p \in Provisioners :
        \/ StartCommand(p) \/ LookAtSize(p) \/ LookAtBytes(p) \/ OpenTemporary(p)
        \/ ReceiveChunk(p) \/ SyncTemporary(p) \/ CheckTemporary(p) \/ ReplaceSnapshot(p)
        \/ SyncDirectory(p) \/ CommandFails(p)
    \/ PowerLoss

SnapshotSpec == SnapshotInit /\ [][SnapshotNext]_snapshotVars

-----------------------------------------------------------------------------
SnapshotFiles == Offers \cup {Missing, Special, Torn, Pinned}

SnapshotTypeOK ==
    /\ snapshot \in SnapshotFiles /\ mayBe \in SUBSET SnapshotFiles
    /\ \A p \in Provisioners :
        /\ command[p].at \in {"idle", "sizing", "hashing", "opening", "writing", "checking",
                              "replacing", "syncing"}
        /\ command[p].temp.length \in 0 .. PinnedLength

(* docs/operations/phoible-provisioning.md, "A healthy existing file        *)
(* remains usable after a forced refresh fails": once the pinned bytes are  *)
(* all that a power failure can leave, no refresh, concurrent, failing,     *)
(* killed or fed with wrong bytes, changes that (_atomic_install).          *)
HealthyStays == [][mayBe = {Pinned} => mayBe' = {Pinned}]_snapshotVars
=============================================================================
