------------------------------- MODULE PhonRl -------------------------------
(***************************************************************************)
(* Phonetic rewards and their training (domain/phon_rl.py,                 *)
(* services/phon_rl.py, adapters/corpusgen/phon_rl.py,                     *)
(* worker/phon_rl_registry.py).                                            *)
(*                                                                         *)
(* The laboratory keeps nothing: a client sends the whole reward state and *)
(* gets the next one back, so an answer may be lost and a commit repeated. *)
(* A training is driven by CorpusGen's trainer, which reports its steps;   *)
(* the worker turns them into a bounded number of progress messages.       *)
(***************************************************************************)
EXTENDS Integers, Sequences, FiniteSets, FiniteSetsExt, Functions

CONSTANTS
    Sources,        \* ids a client gives its sentences
    Sounds,         \* target units of a sentence, by sentence
    StateLimit,     \* MAX_RL_STATE_SENTENCES
    StepCounts,     \* num_steps of a training
    TrainMessages,  \* MAX_DURABLE_PROGRESS_MESSAGES
    TrainReserve    \* messages kept for the phases around the steps

ASSUME PhonRlAssumption ==
    /\ StateLimit \in Nat /\ StepCounts \subseteq Nat \ {0}
    /\ TrainMessages \in Nat /\ TrainReserve \in 4..(TrainMessages - 1)
    /\ \A sentence \in DOMAIN Sounds : IsFiniteSet(Sounds[sentence])

VARIABLES
    lab,        \* reward state a client holds, and the gains it was told of
    course      \* training run: its place, steps seen and messages sent

phonRlVars == <<lab, course>>

IdleCourse == [at |-> "idle", steps |-> 0, seen |-> 0, sent |-> 0, refused |-> FALSE]

PhonRlInit ==
    /\ lab = [committed |-> <<>>, gained |-> 0]
    /\ course = IdleCourse

-----------------------------------------------------------------------------
(* Laboratory. *)

Committed == Range([i \in DOMAIN lab.committed |-> lab.committed[i].source])

(* Mutant: only the last sentence is replayed. *)
Covered_LastOnly(committed) ==
    IF committed = <<>> THEN {} ELSE Sounds[committed[Len(committed)].sentence]

(* _targets: an inventory made anew and fed every committed sentence *)
RewardCovered(committed) == UNION {Sounds[committed[i].sentence] : i \in DOMAIN committed}

NewUnits(sentence) == Sounds[sentence] \ RewardCovered(lab.committed)

(* commit: a known source is refused, and so is a state beyond its limit;  *)
(* the answer may be lost, and then the client still holds the old state   *)
CommitReward(source, sentence) ==
    /\ source \notin Committed /\ Len(lab.committed) < StateLimit
    /\ lab' = [committed |-> lab.committed \o <<[source |-> source, sentence |-> sentence]>>,
               gained |-> lab.gained + Cardinality(NewUnits(sentence))]
    /\ UNCHANGED course

-----------------------------------------------------------------------------
(* Training. *)

(* Mutant: the quotient rounded down. *)
TrainStride_Down(steps) ==
    LET budget == TrainMessages - TrainReserve
    IN  Max({1, steps \div budget})

(* every stride-th step is reported *)
TrainStride(steps) ==
    LET budget == TrainMessages - TrainReserve
    IN  Max({1, (steps + budget - 1) \div budget})

Told(steps, done) == done = 1 \/ done = steps \/ done % TrainStride(steps) = 0

(* publish: the sequence number of a message is below the limit *)
Say(c) == IF c.sent < TrainMessages THEN [c EXCEPT !.sent = @ + 1] ELSE [c EXCEPT !.refused = TRUE]

Failed(c) == [Say(c) EXCEPT !.at = "failed"]

(* PREPARING_TRAINING; the policy, the snapshot or the prompts may be refused *)
BeginTraining(steps) ==
    LET c == Say([IdleCourse EXCEPT !.at = "training", !.steps = steps])
    IN  /\ course.at = "idle"
        /\ course' \in {c, Failed(c)}
        /\ UNCHANGED lab

(* capture and track: steps come in order; a step too many is only noticed  *)
(* when it is to be reported                                                *)
TrainerStep(step) ==
    LET c == [course EXCEPT !.seen = @ + 1]
    IN  /\ course.at = "training"
        /\ course' = CASE step # course.seen -> Failed(course)
                       [] Told(course.steps, c.seen) ->
                            IF c.seen > c.steps THEN Failed(c) ELSE Say(c)
                       [] OTHER -> c
        /\ UNCHANGED lab

(* the trainer returns; its checkpoint may be no bundle the contract allows *)
TrainerEnds ==
    /\ course.at = "training"
    /\ course' \in (IF course.seen = course.steps THEN {[Say(course) EXCEPT !.at = "staging"]} ELSE {})
                   \cup {Failed(course)}
    /\ UNCHANGED lab

StageTraining ==
    /\ course.at = "staging"
    /\ course' \in {[Say(course) EXCEPT !.at = "finished"], Failed(course)}
    /\ UNCHANGED lab

PhonRlNext ==
    \/ \E source \in Sources, sentence \in DOMAIN Sounds : CommitReward(source, sentence)
    \/ \E steps \in StepCounts : BeginTraining(steps)
    \/ \E step \in 0..course.steps + 1 : TrainerStep(step)
    \/ TrainerEnds
    \/ StageTraining

-----------------------------------------------------------------------------
(* Properties. *)

PhonRlTypeOK ==
    /\ lab.committed \in Seq([source : Sources, sentence : DOMAIN Sounds])
    /\ lab.gained \in Nat
    /\ course \in [at : {"idle", "training", "staging", "finished", "failed"},
                   steps : StepCounts \cup {0}, seen : Nat, sent : 0..TrainMessages,
                   refused : BOOLEAN]

(* However often commits are repeated from an older state, the gains along  *)
(* a chain of commits add up to the target units it covers: no unit is paid *)
(* twice and none is lost (_targets, commit_sentence_reward).               *)
RewardsAddUp == lab.gained = Cardinality(RewardCovered(lab.committed))

(* Whatever the number of steps and whatever the trainer reports, a         *)
(* training never needs a progress message beyond the limit of an attempt   *)
(* (step_stride in TrainPhonRlDurableHandler._execute; docs/operations/     *)
(* phon-rl.md: "caps each activity attempt at 128 messages even when the    *)
(* requested training step count is 10,000").                               *)
TrainingMessagesFit == ~course.refused

(* What a client of the laboratory and a training rely on.                  *)
PhonRlSound == RewardsAddUp /\ TrainingMessagesFit

=============================================================================
