----------------------------- MODULE Workspaces -----------------------------
(***************************************************************************)
(* Corpora of a project, the sentence quota, the deletion of a project and *)
(* the audit chain (services/project_workspaces.py, projects.py,           *)
(* project_deletion.py, and QuotaManager and AuditWriter of platform.py),  *)
(* with the row locks their transactions take one after the other.         *)
(*                                                                         *)
(* A transaction reads under each lock as it gets it, and its writes show  *)
(* when it commits.  Each project has one corpus; an organization has one  *)
(* usage row and one audit head.  Requests that lock the project row and   *)
(* then the usage row (submissions, artifact rows) stand as "submit".      *)
(***************************************************************************)
EXTENDS Integers, Sequences, FiniteSets, FiniteSetsExt, SequencesExt

CONSTANTS
    Txs,            \* transactions in progress, over all replicas
    Projects,
    CorpusContents,       \* normalized corpora, distinct content_sha256
    SizeOf,         \* sentences of a content
    SentenceLimit,  \* max_corpus_sentences
    PageLimit,      \* events of a page of the audit log
    MaxEvents       \* bound: audit events of a behaviour

ASSUME WorkspaceAssumption ==
    /\ IsFiniteSet(Txs) /\ IsFiniteSet(Projects)
    /\ SizeOf \in [CorpusContents -> Nat \ {0}]
    /\ SentenceLimit \in Nat /\ PageLimit \in Nat \ {0} /\ MaxEvents \in Nat

VARIABLES
    project,    \* lifecycle_state and deletion_corpus_sentences
    versions,   \* CorpusVersion rows of the corpus: content, number, parent
    sentences,  \* QuotaUsage.corpus_sentences
    audit,      \* AuditEvent rows: sequence, previous_hash, event_hash
    head,       \* AuditHead: last_sequence and last_hash
    tx,         \* open transactions: locks held and to come, and what was read
    reader,     \* an administrator who pages through the audit log
    verifier    \* AuditWriter.verify in progress

workspaceVars == <<project, versions, sentences, audit, head, tx, reader, verifier>>

Kinds == {"corpus", "version", "submit", "request", "purge"}
Writers == {"corpus", "version"}
Closed == [kind |-> "none", held |-> {}, todo |-> <<>>]

NoContent == "none"

Usage == <<"usage">>
AuditHead == <<"head">>
Row(p) == <<"project", p>>
Advisory(p) == <<"lifecycle", p>>

(* A genesis hash, and for other hashes the number of events: distinct     *)
(* events have distinct hashes.                                            *)
Genesis == 0

WorkspaceInit ==
    /\ project = [p \in Projects |-> [state |-> "active", counted |-> 0]]
    /\ versions = [p \in Projects |-> <<>>]
    /\ sentences = 0
    /\ audit = {}
    /\ head = [sequence |-> 0, hash |-> Genesis]
    /\ tx = [t \in Txs |-> Closed]
    /\ reader = [after |-> 0, seen |-> {}]
    /\ verifier = [at |-> "idle"]

SizeOfCorpus(p) == FoldSeq(LAMBDA v, n : SizeOf[v.content] + n, 0, versions[p])

-----------------------------------------------------------------------------
(* Transactions. *)

(* Mutant: the audit head is taken before the project row. *)
LockPlan_HeadFirst(k, p) ==
    CASE k \in Writers  -> <<AuditHead, Usage, Row(p)>>
      [] k = "submit"   -> <<Row(p), Usage, AuditHead>>
      [] k = "request"  -> <<Advisory(p), Row(p), AuditHead>>
      [] k = "purge"    -> <<Advisory(p), Usage, AuditHead, Row(p)>>

(* The order in which the statements of each handler lock rows: a corpus   *)
(* is charged before its project is looked at; the purge deletes the       *)
(* project row last.                                                       *)
LockPlan(k, p) ==
    CASE k \in Writers  -> <<Usage, Row(p), AuditHead>>
      [] k = "submit"   -> <<Row(p), Usage, AuditHead>>
      [] k = "request"  -> <<Advisory(p), Row(p), AuditHead>>
      [] k = "purge"    -> <<Advisory(p), Usage, AuditHead, Row(p)>>

Open(t) == tx[t].kind # "none"

Begin(t, k, p, c) ==
    /\ ~Open(t)
    /\ Cardinality(audit) + Cardinality({u \in Txs : Open(u)}) < MaxEvents
    /\ tx' = [tx EXCEPT ![t] =
          [kind |-> k, project |-> p, content |-> c, held |-> {}, todo |-> LockPlan(k, p),
           used |-> 0, latest |-> 0, counted |-> 0, last |-> [sequence |-> 0, hash |-> Genesis]]]
    /\ UNCHANGED <<project, versions, sentences, audit, head, reader, verifier>>

(* Every lock of a plan excludes the others. *)
Exclusive(l) == TRUE

Waits(t, u) ==
    /\ t # u /\ tx[t].todo # <<>>
    /\ Exclusive(Head(tx[t].todo)) /\ Head(tx[t].todo) \in tx[u].held

Current(t) == project[tx[t].project]

(* Mutant: the counter is compared before the increment. *)
OverLimit_Before(t) == tx[t].kind \in Writers /\ sentences >= SentenceLimit

(* consume_corpus_sentences: QuotaExceededError *)
OverLimit(t) ==
    tx[t].kind \in Writers /\ sentences + SizeOf[tx[t].content] > SentenceLimit

(* create_corpus, create_version: the name, the parent version and the     *)
(* unique content of a corpus                                              *)
Conflicts(t) ==
    LET stored == versions[tx[t].project]
    IN  \/ tx[t].kind = "corpus" /\ stored # <<>>
        \/ tx[t].kind = "version" /\
              (stored = <<>> \/ \E i \in DOMAIN stored : stored[i].content = tx[t].content)

(* _require_project, request and _due_project *)
WrongState(t) ==
    Current(t).state # IF tx[t].kind = "purge" THEN "deletion_pending" ELSE "active"

(* What the statement under a new lock raises, or returns early for *)
Refused(t, l) ==
    \/ l = Usage /\ OverLimit(t)
    \/ l = Row(tx[t].project) /\ tx[t].kind # "purge" /\ (WrongState(t) \/ Conflicts(t))
    \/ l = Advisory(tx[t].project) /\ tx[t].kind = "purge" /\
          (WrongState(t) \/ SizeOfCorpus(tx[t].project) # Current(t).counted)

(* The next lock is free: the statement reads what is committed now. *)
Acquire(t) ==
    /\ Open(t) /\ tx[t].todo # <<>>
    /\ \A u \in Txs : ~Waits(t, u)
    /\ LET l == Head(tx[t].todo)
           r == [tx[t] EXCEPT !.todo = Tail(@), !.held = @ \cup {l}]
           p == tx[t].project
       IN  tx' = [tx EXCEPT ![t] =
              IF Refused(t, l) THEN Closed
              ELSE CASE l = Usage     -> [r EXCEPT !.used = sentences]
                     [] l = AuditHead -> [r EXCEPT !.last = head]
                     [] l = Row(p)    -> [r EXCEPT !.latest = Len(versions[p]),
                                                   !.counted = SizeOfCorpus(p)]
                     [] OTHER         -> r]
    /\ UNCHANGED <<project, versions, sentences, audit, head, reader, verifier>>

(* Mutant: last_hash is left as it was. *)
NewHead_HashKept(last, hash) == [sequence |-> last.sequence + 1, hash |-> last.hash]

NewHead(last, hash) == [sequence |-> last.sequence + 1, hash |-> hash]

(* AuditWriter.append, which every one of these transactions ends with *)
AppendEvent(t) ==
    LET hash == Cardinality(audit) + 1
        last == tx[t].last
    IN  /\ audit' = audit \cup
              {[sequence |-> last.sequence + 1, previous |-> last.hash, hash |-> hash]}
        /\ head' = NewHead(last, hash)

Finish(t) ==
    /\ AppendEvent(t)
    /\ tx' = [tx EXCEPT ![t] = Closed]
    /\ UNCHANGED <<reader, verifier>>

Complete(t, K) == Open(t) /\ tx[t].todo = <<>> /\ tx[t].kind \in K

(* _persist_corpus and _persist_version: the new version follows the       *)
(* latest one, and the usage row is charged                                *)
StoreVersion(t) ==
    /\ Complete(t, Writers)
    /\ LET x == tx[t]
       IN  /\ versions' = [versions EXCEPT ![x.project] = Append(@,
                 [content |-> x.content, number |-> x.latest + 1, parent |-> x.latest])]
           /\ sentences' = x.used + SizeOf[x.content]
    /\ Finish(t)
    /\ UNCHANGED project

(* request: the sentences are counted under the project row *)
MarkForDeletion(t) ==
    /\ Complete(t, {"request"})
    /\ project' = [project EXCEPT ![tx[t].project] =
          [state |-> "deletion_pending", counted |-> tx[t].counted]]
    /\ Finish(t)
    /\ UNCHANGED <<versions, sentences>>

(* _purge_candidate: everything of the project goes, and what was counted  *)
(* is given back                                                           *)
PurgeProject(t) ==
    /\ Complete(t, {"purge"})
    /\ LET p == tx[t].project
       IN  /\ versions' = [versions EXCEPT ![p] = <<>>]
           /\ sentences' = tx[t].used - project[p].counted
           /\ project' = [project EXCEPT ![p] = [state |-> "gone", counted |-> 0]]
    /\ Finish(t)

Submitted(t) ==
    /\ Complete(t, {"submit"})
    /\ Finish(t)
    /\ UNCHANGED <<project, versions, sentences>>

(* The request fails or its process dies: everything is rolled back. *)
Rollback(t) ==
    /\ Open(t)
    /\ tx' = [tx EXCEPT ![t] = Closed]
    /\ UNCHANGED <<project, versions, sentences, audit, head, reader, verifier>>

(* Transactions each of which waits for another of them *)
WaitCycle(S) == S # {} /\ \A t \in S : \E u \in S : Waits(t, u)

(* PostgreSQL ends one transaction of a cycle, and the request fails. *)
DeadlockAbort(t) ==
    /\ \E S \in SUBSET Txs : t \in S /\ WaitCycle(S)
    /\ tx' = [tx EXCEPT ![t] = Closed]
    /\ UNCHANGED <<project, versions, sentences, audit, head, reader, verifier>>

-----------------------------------------------------------------------------
(* Readers of the audit log, without locks. *)

Sequences(E) == {e.sequence : e \in E}

(* audit_events: a page of the events after the cursor, and the cursor     *)
(* behind the last of them                                                 *)
ReadPage ==
    LET found == {s \in Sequences(audit) : s > reader.after}
        page == {s \in found : Cardinality({i \in found : i < s}) < PageLimit}
    IN  /\ page # {}
        /\ reader' = [after |-> Max(page), seen |-> reader.seen \cup page]
        /\ UNCHANGED <<project, versions, sentences, audit, head, tx, verifier>>

(* verify reads the head and then, in another statement, the events. *)
VerifyHead ==
    /\ verifier.at = "idle"
    /\ verifier' = [at |-> "head", head |-> head, size |-> Cardinality(audit)]
    /\ UNCHANGED <<project, versions, sentences, audit, head, tx, reader>>

(* The chain from the genesis hash to a head *)
Chained(E, h) ==
    LET event(i) == CHOOSE e \in E : e.sequence = i
        n == Cardinality(E)
    IN  /\ Sequences(E) = 1..n
        /\ \A i \in 1..n : event(i).previous = IF i = 1 THEN Genesis ELSE event(i - 1).hash
        /\ h.sequence = n
        /\ h.hash = IF n = 0 THEN Genesis ELSE event(n).hash

VerifyEvents ==
    /\ verifier.at = "head"
    /\ verifier' = [at |-> "done", ok |-> Chained(audit, verifier.head),
                    raced |-> Cardinality(audit) # verifier.size]
    /\ UNCHANGED <<project, versions, sentences, audit, head, tx, reader>>

VerifyAgain ==
    /\ verifier.at = "done"
    /\ verifier' = [at |-> "idle"]
    /\ UNCHANGED <<project, versions, sentences, audit, head, tx, reader>>

-----------------------------------------------------------------------------
Commit(t) == StoreVersion(t) \/ MarkForDeletion(t) \/ PurgeProject(t) \/ Submitted(t)

WorkspaceNext ==
    \/ \E t \in Txs, p \in Projects :
          \/ \E k \in Writers, c \in CorpusContents : Begin(t, k, p, c)
          \/ \E k \in Kinds \ Writers : Begin(t, k, p, NoContent)
    \/ \E t \in Txs : Acquire(t) \/ Commit(t) \/ Rollback(t) \/ DeadlockAbort(t)
    \/ ReadPage \/ VerifyHead \/ VerifyEvents \/ VerifyAgain

-----------------------------------------------------------------------------
WorkspaceTypeOK ==
    /\ \A p \in Projects : project[p].state \in {"active", "deletion_pending", "gone"}
    /\ \A p \in Projects : \A i \in DOMAIN versions[p] : versions[p][i].content \in CorpusContents
    /\ sentences \in 0..SentenceLimit
    /\ head.sequence \in 0..MaxEvents
    /\ \A t \in Txs : tx[t].kind \in Kinds \cup {"none"}
    /\ verifier.at \in {"idle", "head", "done"}

(* The sentence counter is the sum over the stored versions, and what a    *)
(* deletion request has counted is what the purge will find and release,   *)
(* whoever writes to the project at the same time ("project corpus quota   *)
(* accounting is inconsistent" is never raised); the versions of a corpus  *)
(* form one line, each the parent of the next.                             *)
CorpusAccounts ==
    /\ sentences = MapThenSumSet(SizeOfCorpus, Projects)
    /\ \A p \in Projects :
          /\ project[p].state = "deletion_pending" => project[p].counted = SizeOfCorpus(p)
          /\ \A i \in DOMAIN versions[p] :
                versions[p][i].number = i /\ versions[p][i].parent = i - 1

(* The committed chain verifies at every moment; a reader who follows the  *)
(* cursor has seen every event before it, none appearing there later; and  *)
(* verify, which reads head and events in two statements, answers False    *)
(* only when an event was appended between them.                           *)
AuditComplete ==
    /\ Chained(audit, head)
    /\ reader.seen = {s \in Sequences(audit) : s <= reader.after}
    /\ verifier.at = "done" => verifier.ok \/ verifier.raced

(* The only wait cycle of these lock orders: a corpus writer, who locks    *)
(* the usage row and then the project, and a request that locks the same   *)
(* project and then the usage row.                                         *)
OnlyKnownDeadlock ==
    \A S \in SUBSET Txs : WaitCycle(S) =>
        \E t, u \in S : /\ tx[t].kind \in Writers /\ tx[u].kind = "submit"
                        /\ tx[t].project = tx[u].project

(* What an organization can audit: the quota counter against the corpora,   *)
(* the versions against each other, and the chain of events.                *)
AccountsAudited == CorpusAccounts /\ AuditComplete
=============================================================================
