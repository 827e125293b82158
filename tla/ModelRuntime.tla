---------------------------- MODULE ModelRuntime ----------------------------
(***************************************************************************)
(* Hosted and local text generation (services/model_runtime.py,            *)
(* adapters/corpusgen/model_runtime.py, worker/model_registry.py): the     *)
(* policy that admits a request and prices it, the ledger of provider      *)
(* calls, retries with delays under one deadline, the generation loop with *)
(* its candidates, and the staging of the result.                          *)
(*                                                                         *)
(* A run is executed by up to MaxAttempts activity attempts; one that the  *)
(* workflow service has given up may go on beside its successor.  Tokens   *)
(* stand for input, output and cost, which are reserved and compared       *)
(* alike.                                                                  *)
(***************************************************************************)
EXTENDS Integers, FiniteSets, FiniteSetsExt

CONSTANTS
    Requests,       \* runs of a model: kind, adapter, prompt and limits
    Texts,          \* candidates a model may write
    Covers,         \* units of the target a text covers
    Output,         \* max_tokens_per_request
    Delay,          \* request_delay_seconds and the delay before a retry
    Timeout,        \* activity_timeout_seconds
    MaxAttempts     \* EXECUTION_MAX_ATTEMPTS

ASSUME RuntimeAssumption ==
    /\ \A q \in Requests :
          /\ q.kind \in {"hosted", "local", "analysis"}
          /\ q.adapter \in BOOLEAN /\ (q.adapter => q.kind = "local")
          /\ q.prompt \in Nat \ {0} /\ q.calls \in Nat \ {0} /\ q.tokens \in Nat \ {0}
          /\ q.retries \in Nat /\ q.iterations \in Nat
    /\ Output \in Nat \ {0} /\ Delay \in Nat /\ Timeout \in Nat \ {0}
    /\ MaxAttempts \in Nat \ {0}

VARIABLES
    wanted,     \* the request of the run
    outcome,    \* pending, staged, failed
    ledger,     \* _HostedBudgetRunner of an attempt
    loop,       \* generation loop of an attempt
    calls       \* history: what the provider was asked by an attempt

runtimeVars == <<wanted, outcome, ledger, loop, calls>>

Tries == 1..MaxAttempts
Target == UNION {Covers[t] : t \in Texts}

NewLedger == [requests |-> 0, retries |-> 0, reserved |-> 0, used |-> 0, left |-> Timeout]
NewLoop == [at |-> "none", prompt |-> 0, try |-> 0, iteration |-> 0,
            seen |-> {}, accepted |-> {}, lost |-> FALSE]

RuntimeInit ==
    /\ wanted \in Requests
    /\ outcome = "pending"
    /\ ledger = [a \in Tries |-> NewLedger]
    /\ loop = [a \in Tries |-> NewLoop]
    /\ calls = [a \in Tries |-> [count |-> 0, billed |-> 0]]

Running(a) == loop[a].at \notin {"none", "ended"}

(* Steps of an attempt write the one loop record *)
LoopTo(a, at) == loop' = [loop EXCEPT ![a].at = at]

-----------------------------------------------------------------------------
(* Policy. *)

(* Mutant: retries are forgotten. *)
Estimate_NoRetries(q) ==
    LET iterations == IF q.iterations = 0 THEN q.calls ELSE q.iterations
        most == Min({q.calls, iterations})
    IN  [calls |-> most, tokens |-> Min({q.tokens, (q.prompt + Output) * most})]

(* estimate_hosted: the ceiling shown to the user before a run *)
Estimate(q) ==
    LET iterations == IF q.iterations = 0 THEN q.calls ELSE q.iterations
        most == Min({q.calls, iterations * (q.retries + 1)})
    IN  [calls |-> most, tokens |-> Min({q.tokens, (q.prompt + Output) * most})]

(* _require_first_hosted_call_fits *)
FirstCallFits(q) == q.prompt + Output <= q.tokens

(* authorize_hosted, validate_hosted, authorize_local, validate_local *)
Authorized(q) == q.kind = "hosted" => FirstCallFits(q)

(* A failure that is not worth another attempt ends the run. *)
Fails(a, retryable) ==
    /\ LoopTo(a, "ended")
    /\ outcome' = IF outcome = "pending" /\ (~retryable \/ a = MaxAttempts)
                     /\ ~loop[a].lost
                  THEN "failed" ELSE outcome

(* A step of the preparation succeeds or fails, for this attempt or for all *)
Proceeds(a, at) ==
    \/ LoopTo(a, at) /\ UNCHANGED outcome
    \/ \E retryable \in BOOLEAN : Fails(a, retryable)

(* execute: the coordinator authorizes the request again; an attempt       *)
(* builds its ledger, its scorer and its loop anew.                        *)
StartAttempt(a) ==
    /\ outcome = "pending" /\ loop[a].at = "none"
    /\ \A b \in Tries : b < a => loop[b].at = "ended" \/ loop[b].lost
    /\ IF Authorized(wanted)
       THEN LoopTo(a, CASE wanted.kind = "hosted" -> "opening"
                        [] wanted.adapter -> "claiming"
                        [] OTHER -> "verifying")
            /\ UNCHANGED outcome
       ELSE Fails(a, FALSE)
    /\ UNCHANGED <<wanted, ledger, calls>>

(* The credential and the prompt template, a pinned secret, are resolved. *)
OpenHosted(a) ==
    /\ loop[a].at = "opening" /\ Proceeds(a, "loop")
    /\ UNCHANGED <<wanted, ledger, calls>>

(* The adapter the parent materialized must be the one that was asked for. *)
ClaimAdapter(a) ==
    /\ loop[a].at = "claiming" /\ Proceeds(a, "verifying")
    /\ UNCHANGED <<wanted, ledger, calls>>

(* Every byte of the pinned snapshot is digested before it is loaded. *)
VerifySnapshot(a) ==
    /\ loop[a].at = "verifying" /\ Proceeds(a, "weights")
    /\ UNCHANGED <<wanted, ledger, calls>>

(* The cache of a spawned child is empty, so an attempt loads by itself. *)
LoadModel(a) ==
    /\ loop[a].at = "weights"
    /\ Proceeds(a, IF wanted.adapter THEN "merging" ELSE "loop")
    /\ UNCHANGED <<wanted, ledger, calls>>

(* The adapter was trained on this very snapshot by these versions. *)
MergeAdapter(a) ==
    /\ loop[a].at = "merging" /\ Proceeds(a, "loop")
    /\ UNCHANGED <<wanted, ledger, calls>>

-----------------------------------------------------------------------------
(* _HostedBudgetRunner.complete *)

Covered(a) == UNION {Covers[t] : t \in loop[a].accepted}

(* StoppingCriteria of the loop; an analysis has one round *)
Stops(a) ==
    \/ wanted.kind = "analysis" /\ loop[a].iteration = 1
    \/ Covered(a) = Target
    \/ wanted.iterations # 0 /\ loop[a].iteration >= wanted.iterations
    \/ ledger[a].left = 0

(* The loop asks the backend for units that are still missing. *)
NextIteration(a, p) ==
    /\ loop[a].at = "loop" /\ ~Stops(a)
    /\ wanted.kind = "hosted" /\ p <= wanted.prompt
    /\ loop' = [loop EXCEPT ![a].at = "ready", ![a].prompt = p, ![a].try = 0]
    /\ UNCHANGED <<wanted, outcome, ledger, calls>>

(* _reserve: the whole prompt and the whole output, before the call *)
Reserved(l, x) ==
    [l EXCEPT !.requests = @ + 1,
              !.reserved = @ + x.prompt + Output,
              !.retries = IF x.try > 0 THEN @ + 1 ELSE @]

(* The next attempt of a call: the delay, the deadline, the reservation,   *)
(* and the client.  The budget ends the run, the deadline the attempt.     *)
CallProvider(a) ==
    LET x == loop[a]
        l == [ledger[a] EXCEPT !.left = @ - Delay]
        r == Reserved(l, x)
    IN  /\ x.at = "ready"
        /\ IF l.left <= 0 THEN Fails(a, TRUE) /\ UNCHANGED <<ledger, calls>>
           ELSE IF r.requests > wanted.calls \/ r.reserved > wanted.tokens
           THEN Fails(a, FALSE) /\ UNCHANGED <<ledger, calls>>
           ELSE /\ LoopTo(a, "calling")
                /\ ledger' = [ledger EXCEPT ![a] = r]
                /\ calls' = [calls EXCEPT ![a].count = @ + 1]
                /\ UNCHANGED outcome
        /\ UNCHANGED wanted

(* _record: usage beyond the reservation is a broken contract. *)
Plausible(x, u) == u <= x.prompt + Output

(* The provider answers after a second and bills u tokens; without a text  *)
(* the attempt is over.                                                    *)
Answered(a, u) ==
    LET x == loop[a]
        l == [ledger[a] EXCEPT !.left = @ - 1]
    IN  /\ x.at = "calling"
        /\ calls' = [calls EXCEPT ![a].billed = @ + u]
        /\ IF Plausible(x, u)
           THEN /\ ledger' = [ledger EXCEPT ![a] = [l EXCEPT !.used = @ + u]]
                /\ \/ LoopTo(a, "answered") /\ UNCHANGED outcome
                   \/ Fails(a, TRUE)
           ELSE Fails(a, FALSE) /\ UNCHANGED ledger
        /\ UNCHANGED wanted

(* ProviderCallError: a retryable one is tried again after a delay that    *)
(* fits under the deadline.                                                *)
CallFails(a, retryable) ==
    LET x == loop[a]
        left == ledger[a].left - Delay
    IN  /\ x.at = "calling"
        /\ IF retryable /\ x.try < wanted.retries /\ left > 0
           THEN /\ ledger' = [ledger EXCEPT ![a].left = left]
                /\ loop' = [loop EXCEPT ![a].at = "ready", ![a].try = @ + 1]
                /\ UNCHANGED outcome
           ELSE Fails(a, TRUE) /\ UNCHANGED ledger
        /\ UNCHANGED <<wanted, calls>>

-----------------------------------------------------------------------------
(* analyze_language_model: fluency and perplexity of the given texts by    *)
(* one model; a sentence the engine skipped must not shift the others.     *)
AnalyzeTexts(a) ==
    /\ loop[a].at = "loop" /\ ~Stops(a) /\ wanted.kind = "analysis"
    /\ \/ loop' = [loop EXCEPT ![a].iteration = 1] /\ UNCHANGED outcome
       \/ \E retryable \in BOOLEAN : Fails(a, retryable)
    /\ UNCHANGED <<wanted, ledger, calls>>

(* Candidates. *)

(* A local model writes, or writes nothing. *)
GenerateLocal(a) ==
    /\ loop[a].at = "loop" /\ ~Stops(a) /\ wanted.kind = "local"
    /\ \/ LoopTo(a, "answered") /\ UNCHANGED outcome
       \/ Fails(a, TRUE)
    /\ UNCHANGED <<wanted, ledger, calls>>

(* _DeduplicatingBackend *)
Unseen(a, C) == C \ loop[a].seen

(* Candidates the engine may rank first: those that add to the coverage *)
Useful(a, C) == {t \in Unseen(a, C) : ~(Covers[t] \subseteq Covered(a))}

(* generate, rank and score_and_commit: the candidates, whatever becomes   *)
(* of them, are not offered again; at most one is accepted.                *)
RankAndCommit(a, C) ==
    /\ loop[a].at = "answered"
    /\ \E A \in {{t} : t \in Useful(a, C)} \cup {{}} :
          loop' = [loop EXCEPT ![a].at = "loop", ![a].iteration = @ + 1,
                               ![a].seen = @ \cup C, ![a].accepted = @ \cup A]
    /\ UNCHANGED <<wanted, outcome, ledger, calls>>

(* _stage, then the parent commits the run: the first result wins. *)
StageResult(a) ==
    /\ loop[a].at = "loop" /\ Stops(a)
    /\ \/ LoopTo(a, "ended") /\ outcome' = IF outcome = "pending" THEN "staged" ELSE outcome
       \/ \E retryable \in BOOLEAN : Fails(a, retryable)
    /\ UNCHANGED <<wanted, ledger, calls>>

(* The child is killed at its deadline, or its worker dies. *)
KillAttempt(a) ==
    /\ Running(a)
    /\ \E retryable \in BOOLEAN : Fails(a, retryable)
    /\ UNCHANGED <<wanted, ledger, calls>>

(* The heartbeat is late: another attempt starts while this one goes on. *)
LoseAttempt(a) ==
    /\ Running(a) /\ ~loop[a].lost /\ a < MaxAttempts
    /\ loop' = [loop EXCEPT ![a].lost = TRUE]
    /\ UNCHANGED <<wanted, outcome, ledger, calls>>

RuntimeNext ==
    \E a \in Tries :
        \/ StartAttempt(a) \/ OpenHosted(a) \/ ClaimAdapter(a) \/ VerifySnapshot(a)
        \/ LoadModel(a) \/ MergeAdapter(a) \/ CallProvider(a) \/ GenerateLocal(a)
        \/ AnalyzeTexts(a) \/ StageResult(a) \/ KillAttempt(a) \/ LoseAttempt(a)
        \/ \E p \in 1..wanted.prompt : NextIteration(a, p)
        \/ \E u \in {1, wanted.prompt + Output, wanted.prompt + Output + 1} : Answered(a, u)
        \/ \E retryable \in BOOLEAN : CallFails(a, retryable)
        \/ \E C \in SUBSET Texts \ {{}} : RankAndCommit(a, C)

-----------------------------------------------------------------------------
RuntimeTypeOK ==
    /\ wanted \in Requests /\ outcome \in {"pending", "staged", "failed"}
    /\ \A a \in Tries :
          /\ loop[a].at \in {"none", "opening", "claiming", "verifying", "weights", "merging",
                            "loop", "ready", "calling", "answered", "ended"}
          /\ loop[a].accepted \subseteq loop[a].seen
          /\ ledger[a].left \in 0..Timeout

(* What an attempt asks of the provider, retries included, stays within    *)
(* the ceiling that was estimated and shown before the run, although the   *)
(* estimate knows neither the number of iterations nor the failures; and   *)
(* what is billed to it was reserved, unless the provider broke its word.  *)
SpendWithinEstimate ==
    \A a \in Tries :
        LET l == ledger[a]
        IN  /\ calls[a].count = l.requests
            /\ l.requests <= Estimate(wanted).calls
            /\ l.used <= l.reserved /\ l.reserved <= Estimate(wanted).tokens
            /\ calls[a].billed > l.used => loop[a].at = "ended"

(* The limits of a request hold for the run ("keeps all provider attempts  *)
(* inside CorpusKit's budget ledger", docs/operations/model-runtimes.md).  *)
RunWithinBudget ==
    MapThenSumSet(LAMBDA a : calls[a].count, Tries) <= wanted.calls
=============================================================================
