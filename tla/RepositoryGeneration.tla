------------------------- MODULE RepositoryGeneration -------------------------
(***************************************************************************)
(* Repository generation: the coordinator, CorpusKit's source-aware        *)
(* wrapper around CorpusGen's generation loop, the progress messages of    *)
(* the durable handler and the staged result.  The engine's choices (which *)
(* candidates it draws, how it ranks them, how many of them it takes per   *)
(* iteration) are nondeterministic; a text stands for a row's text and     *)
(* phonemes, which two rows may share.                                     *)
(***************************************************************************)
EXTENDS Integers, SequencesExt

CONSTANTS
  Pool,            \* the repository: the sequence of its rows' texts
  UnitsOf,         \* the target units each text covers
  Draws,           \* candidates_per_iteration of the requests explored
  SentenceCaps,    \* their max_sentences, 0 for none
  IterationLimit,  \* MAX_GENERATION_ITERATIONS
  IterationBound,  \* bound: iterations of a loop that has no iteration cap
  MessageLimit,    \* MAX_DURABLE_PROGRESS_MESSAGES
  MessageReserve   \* the messages candidate_budget leaves to the other phases

ASSUME GenerationAssumption ==
  /\ Pool \in Seq(DOMAIN UnitsOf) /\ \A text \in DOMAIN UnitsOf : IsFiniteSet(UnitsOf[text])
  /\ Draws # {} /\ Draws \subseteq Nat \ {0} /\ SentenceCaps # {} /\ SentenceCaps \subseteq Nat
  /\ IterationLimit \in Nat \ {0} /\ IterationBound \in Nat
  /\ MessageLimit \in Nat /\ MessageReserve \in 6..(MessageLimit - 1)

VARIABLES
  criteria,  \* the request: mode, source policy and stopping criteria
  phase,     \* how far the execution is
  pool,      \* CorpusGen's repository: texts by pool index
  rowIds,    \* _source_ids, the row each pool index is
  ranked,    \* _ranked_sources of this iteration
  taken,     \* how many of the ranked texts the engine has passed
  accepted,  \* the committed rows, with their coverage gain
  rounds,    \* iterations
  messages,  \* durable progress messages emitted
  ending     \* the outcome, "none" before

generationVars == <<criteria, phase, pool, rowIds, ranked, taken, accepted,
                    rounds, messages, ending>>

Rows == DOMAIN Pool

Units == UNION {UnitsOf[Pool[r]] : r \in Rows}

(* A stopping criterion that is not given is 0.                            *)
Stopping == [sentences : SentenceCaps, iterations : 0..IterationLimit,
             timed : BOOLEAN]

(* RepositoryGenerationRequest: at least one criterion.                    *)
Criteria ==
  {[mode |-> m, listed |-> l, draw |-> d, stop |-> s] :
     m \in {"preview", "worker"}, l \in BOOLEAN, d \in Draws,
     s \in {t \in Stopping : t.sentences > 0 \/ t.iterations > 0 \/ t.timed}}

CoveredUnits == UNION {UnitsOf[accepted[i].text] : i \in DOMAIN accepted}

Gain(text) == Cardinality(UnitsOf[text] \ CoveredUnits)

GenerationInit ==
  /\ criteria = CHOOSE c \in Criteria : TRUE
  /\ phase = "ended"
  /\ pool = <<>>
  /\ rowIds = <<>>
  /\ ranked = <<>>
  /\ taken = 0
  /\ accepted = <<>>
  /\ rounds = 0
  /\ messages = 0
  /\ ending = "none"

--------------------------------------------------------------------------------
(* Progress.                                                               *)

TotalIterations ==
  IF criteria.stop.iterations > 0 THEN criteria.stop.iterations ELSE IterationLimit

Ceiling ==
  IF criteria.stop.sentences > 0 THEN criteria.stop.sentences
  ELSE TotalIterations * criteria.draw

Budget == MessageLimit - MessageReserve

(* Mutant: the quotient rounded down.                                      *)
Stride_Down == IF Ceiling \div Budget > 1 THEN Ceiling \div Budget ELSE 1

(* candidate_stride: every how many accepted candidates one is reported.   *)
Stride ==
  IF (Ceiling + Budget - 1) \div Budget > 1 THEN (Ceiling + Budget - 1) \div Budget
  ELSE 1

Reported(count) == count = 1 \/ count % Stride = 0

(* publish, then go on to the next phase.  A message numbered past the     *)
(* limit is not a DurableRunProgress: the ValidationError escapes, through *)
(* the FAILED message that meets the same limit, as invalid_run_spec.      *)
PublishProgress(next) ==
  IF criteria.mode = "preview"
    THEN phase' = next /\ UNCHANGED <<messages, ending>>
  ELSE IF messages < MessageLimit
    THEN phase' = next /\ messages' = messages + 1 /\ UNCHANGED ending
  ELSE phase' = "ended" /\ ending' = "invalid_run_spec" /\ UNCHANGED messages

(* Every failure is reported as the phase FAILED, where there is room.     *)
FailWith(code) ==
  /\ phase' = "ended"
  /\ IF criteria.mode = "worker"
       THEN /\ messages' = IF messages < MessageLimit THEN messages + 1 ELSE messages
            /\ ending' = IF messages < MessageLimit THEN code ELSE "invalid_run_spec"
       ELSE ending' = code /\ UNCHANGED messages

--------------------------------------------------------------------------------
(* The coordinator and the loop.                                           *)

(* A new execution, of any request; its first message is VALIDATING.       *)
Request ==
  /\ phase = "ended"
  /\ criteria' \in Criteria
  /\ phase' = "validating"
  /\ accepted' = <<>> /\ rounds' = 0 /\ ending' = "none"
  /\ UNCHANGED <<pool, rowIds, ranked, taken>>
  /\ messages' = IF criteria'.mode = "worker" THEN 1 ELSE 0

(* validate_repository_request: a remote source must match a policy of the *)
(* server and is never previewed; local rows must fit the limits.          *)
Refuse ==
  /\ phase = "validating"
  /\ ~criteria.listed
  /\ FailWith("invalid_request")
  /\ UNCHANGED <<criteria, pool, rowIds, ranked, taken, accepted, rounds>>

Validate ==
  /\ phase = "validating"
  /\ criteria.listed
  /\ PublishProgress("preparing")
  /\ UNCHANGED <<criteria, pool, rowIds, ranked, taken, accepted, rounds>>

(* _prepare_repository: the engine's pool and the row ids, index by index. *)
Prepare ==
  /\ phase = "preparing"
  /\ PublishProgress("looping")
  /\ pool' = Pool
  /\ rowIds' = [i \in Rows |-> i]
  /\ ranked' = <<>> /\ taken' = 0
  /\ UNCHANGED <<criteria, accepted, rounds>>

(* The rankings of up to `draw` distinct candidates, as pool indexes.      *)
Rankings ==
  {order \in BoundedSeq(DOMAIN pool, criteria.draw) :
     order # <<>> /\ IsInjective(order)}

(* _SourceAwareScorer.rank: the engine returns texts; each takes the first *)
(* candidate of its text that no earlier one took.                         *)
Identified(order) ==
  LET Same(i) == {j \in DOMAIN order : pool[order[j]] = pool[order[i]]}
      Nth(i) == Cardinality({j \in Same(i) : j <= i})
      Indexes(i) == {order[j] : j \in Same(i)}
      Taken(i) == CHOOSE x \in Indexes(i) :
                    Cardinality({y \in Indexes(i) : y < x}) = Nth(i) - 1
  IN [i \in DOMAIN order |-> [text |-> pool[order[i]], row |-> rowIds[Taken(i)]]]

(* One iteration begins: candidates are drawn and ranked.                  *)
Draw ==
  /\ phase = "looping"
  /\ rounds < IF criteria.stop.iterations > 0 THEN criteria.stop.iterations
              ELSE IterationBound
  /\ \E order \in Rankings :
       ranked' = Identified(order)
  /\ taken' = 0
  /\ rounds' = rounds + 1
  /\ UNCHANGED <<criteria, phase, pool, rowIds, accepted, messages, ending>>

(* Mutant: the row ids keep their places when a row leaves the pool.       *)
MarkUsed_IdsStay(row) ==
  /\ pool' = RemoveAt(pool, SelectInSeq(rowIds, LAMBDA r : r = row))
  /\ rowIds' = SubSeq(rowIds, 1, Len(rowIds) - 1)

(* mark_source_used: the row leaves the engine's pool and the id list at   *)
(* its present index.                                                      *)
MarkUsed(row) ==
  LET index == SelectInSeq(rowIds, LAMBDA r : r = row) IN
  /\ pool' = RemoveAt(pool, index)
  /\ rowIds' = RemoveAt(rowIds, index)

Wanting ==
  /\ criteria.stop.sentences > 0 => Len(accepted) < criteria.stop.sentences
  /\ CoveredUnits # Units

(* score_and_commit: the engine takes the next ranked text that still      *)
(* gains; it is the first ranked row of that text not accepted before.     *)
Accept ==
  /\ phase = "looping"
  /\ Wanting
  /\ LET gaining == {i \in DOMAIN ranked : i > taken /\ Gain(ranked[i].text) > 0}
         position == CHOOSE i \in gaining : \A j \in gaining : i <= j
         text == ranked[position].text
         rows == {ranked[i].row : i \in {j \in DOMAIN ranked : ranked[j].text = text}}
                   \ {accepted[i].row : i \in DOMAIN accepted}
         row == ranked[SelectInSeq(ranked, LAMBDA c : c.row \in rows)].row
     IN /\ gaining # {}
        /\ taken' = position
        /\ accepted' = Append(accepted, [row |-> row, text |-> text, gain |-> Gain(text)])
        /\ MarkUsed(row)
        /\ IF Reported(Len(accepted) + 1)
             THEN PublishProgress("looping")
             ELSE UNCHANGED <<phase, messages, ending>>
  /\ UNCHANGED <<criteria, ranked, rounds>>

(* The engine's objects end with the adapter's call.                       *)
Release == pool' = <<>> /\ rowIds' = <<>> /\ ranked' = <<>> /\ taken' = 0

(* CorpusGen stops for one of its reasons.                                 *)
StopReached ==
  \/ CoveredUnits = Units
  \/ criteria.stop.sentences > 0 /\ Len(accepted) >= criteria.stop.sentences
  \/ criteria.stop.iterations > 0 /\ rounds >= criteria.stop.iterations
  \/ criteria.stop.timed
  \/ pool = <<>>

(* _normalize_result and the coordinator: the result must be a             *)
(* RepositoryGenerationResult, whose iterations are bounded, of distinct   *)
(* rows.  Its FINISHED event is the durable phase STAGING_RESULT.          *)
LoopEnds ==
  /\ phase = "looping"
  /\ StopReached
  /\ IF rounds > IterationLimit \/ ~IsInjective([i \in DOMAIN accepted |-> accepted[i].row])
       THEN FailWith("engine_contract_violation")
     ELSE IF criteria.mode = "preview"
       THEN phase' = "ended" /\ ending' = "ok" /\ UNCHANGED messages
     ELSE PublishProgress("staging")
  /\ Release
  /\ UNCHANGED <<criteria, accepted, rounds>>

EngineFails ==
  /\ phase \in {"preparing", "looping"}
  /\ FailWith("engine_unavailable")
  /\ Release
  /\ accepted' = <<>>
  /\ UNCHANGED <<criteria, rounds>>

(* The canonical result is staged, the claim built and FINISHED published. *)
StageGenerated ==
  /\ phase = "staging"
  /\ PublishProgress("finished")
  /\ UNCHANGED <<criteria, pool, rowIds, ranked, taken, accepted, rounds>>

StagingFails ==
  /\ phase = "staging"
  /\ FailWith("engine_unavailable")
  /\ UNCHANGED <<criteria, pool, rowIds, ranked, taken, accepted, rounds>>

ReturnClaim ==
  /\ phase = "finished"
  /\ phase' = "ended"
  /\ ending' = "ok"
  /\ UNCHANGED <<criteria, pool, rowIds, ranked, taken, accepted, rounds, messages>>

(* The parent's hard deadline ends the child anywhere.                     *)
DeadlineKills ==
  /\ phase # "ended"
  /\ criteria.mode = "worker"
  /\ phase' = "ended"
  /\ ending' = "execution_timeout"
  /\ Release
  /\ accepted' = <<>> /\ rounds' = 0
  /\ UNCHANGED <<criteria, messages>>

GenerationNext ==
  \/ Request
  \/ Refuse
  \/ Validate
  \/ Prepare
  \/ Draw
  \/ Accept
  \/ LoopEnds
  \/ EngineFails
  \/ StageGenerated
  \/ StagingFails
  \/ ReturnClaim
  \/ DeadlineKills

--------------------------------------------------------------------------------
GenerationTypeOK ==
  /\ criteria \in Criteria
  /\ phase \in {"validating", "preparing", "looping", "staging",
                "finished", "ended"}
  /\ Len(pool) = Len(rowIds)
  /\ rounds \in 0..(IterationLimit + IterationBound)
  /\ messages \in 0..MessageLimit

(* Provenance: every accepted sentence carries the id of the very row it   *)
(* came from, no row twice, although the engine names rows by a text that  *)
(* several share and by an index that moves with every commit; and the     *)
(* gains reported add up to what is covered.                               *)
SourcesTrue ==
  /\ \A i \in DOMAIN accepted : Pool[accepted[i].row] = accepted[i].text
  /\ IsInjective([i \in DOMAIN accepted |-> accepted[i].row])
  /\ MapThenSumSet(LAMBDA i : accepted[i].gain, DOMAIN accepted)
       = Cardinality(CoveredUnits)

(* Whatever the limits and however many candidates are accepted, a request *)
(* that bounds its candidates never runs out of progress messages, which   *)
(* would fail it as an invalid specification after the work was done.      *)
ProgressFits ==
  criteria.stop.sentences > 0 \/ criteria.stop.iterations > 0
    => ending # "invalid_run_spec"

(* What a generation owes its caller: provenance, gains, and a result that *)
(* is not lost for want of a message.                                      *)
GenerationSound == SourcesTrue /\ ProgressFits

(* What the documentation says of every accepted request: any one of the   *)
(* three safety stops is enough, so an execution whose engine stops for    *)
(* one of its reasons does not fail by its own limits.                     *)
AnySafetyStopSuffices ==
  ending \notin {"invalid_run_spec", "engine_contract_violation"}
================================================================================
