------------------------------- MODULE HttpApi -------------------------------
(***************************************************************************)
(* One API process (api/app.py, api/telemetry.py, telemetry/, auth/        *)
(* dependencies.py, adapters/corpusgen/probe.py): what a request meets     *)
(* between the access log and its handler, requests for readiness that     *)
(* share one cached probe, and downloads that are verified as they stream. *)
(*                                                                         *)
(* A status is its class.  The handlers of the other services answer or    *)
(* fail here; what they do is in the modules of those services.            *)
(***************************************************************************)
EXTENDS Integers, FiniteSets

CONSTANTS
    Exchanges,      \* HTTP requests to one process
    Checks,         \* the required capabilities
    CapabilitySeconds,   \* capability_cache_seconds
    LastInstant,    \* bound: the clock stops here
    MaxBytes,       \* max_upload_bytes
    ObjectSize      \* chunks of the artifact that is downloaded

ASSUME HttpAssumption ==
    /\ IsFiniteSet(Exchanges)
    /\ CapabilitySeconds \in Nat /\ LastInstant \in Nat
    /\ MaxBytes \in Nat \ {0} /\ ObjectSize \in Nat \ {0}

StatusClasses == {"2xx", "4xx", "5xx"}

VARIABLES
    exchange,    \* the requests
    gauge,       \* corpuskit_http_requests_in_progress
    totals,      \* corpuskit_http_requests_total, by status class
    unhandled,   \* corpuskit_http_unhandled_exceptions_total
    eventLog,    \* the access events
    report,      \* the cached capability report
    prober,      \* the request that holds the probe's lock
    machine,     \* the capabilities the machine has now
    instant      \* the monotonic clock

httpVars == <<exchange, gauge, totals, unhandled, eventLog, report, prober, machine, instant>>
meters == <<gauge, totals, unhandled, eventLog>>
probe == <<report, prober>>

NotSeen == [c \in Checks |-> [known |-> FALSE, has |-> FALSE, at |-> 0]]
NoReport == [made |-> FALSE, at |-> 0, seen |-> NotSeen]
NoExchange == [stage |-> "new", kind |-> "none", since |-> 0, got |-> 0, whole |-> TRUE,
               sent |-> 0, intact |-> TRUE, left |-> FALSE, status |-> "none",
               secured |-> FALSE, seen |-> NotSeen, asked |-> 0, decided |-> 0]

HttpInit ==
    /\ exchange = [x \in Exchanges |-> NoExchange]
    /\ gauge = 0
    /\ totals = [class \in StatusClasses |-> 0]
    /\ unhandled = 0
    /\ eventLog = {}
    /\ report = NoReport
    /\ prober = "none"
    /\ machine \in [Checks -> BOOLEAN]
    /\ instant = 0

StageOf(x) == exchange[x].stage
Becomes(x, next) == exchange' = [exchange EXCEPT ![x] = next]
GoesTo(x, stage) == Becomes(x, [exchange[x] EXCEPT !.stage = stage])
WillAnswer(x, class) ==
    Becomes(x, [exchange[x] EXCEPT !.stage = "responding", !.status = class])
OnlyExchange == UNCHANGED <<meters, probe, machine, instant>>

(* A target beyond its bound answers 414, a refused length 413. *)
TooLarge(came) == [came EXCEPT !.stage = "responding", !.status = "4xx"]

(* The bodies of writing methods are buffered before anything else. *)
ReceiveRequest(x) ==
    /\ StageOf(x) = "new"
    /\ gauge' = gauge + 1
    /\ \E kind \in {"ready", "write", "download"} :
         LET came == [NoExchange EXCEPT !.kind = kind, !.since = instant] IN
         \/ Becomes(x, TooLarge(came))
         \/ Becomes(x, [came EXCEPT !.stage = CASE kind = "ready" -> "asking"
                                                [] kind = "write" -> "buffering"
                                                [] kind = "download" -> "guarding"])
    /\ UNCHANGED <<totals, unhandled, eventLog, probe, machine, instant>>

(* RequestSizeLimitMiddleware: one http.request message *)
ReceiveBody(x) ==
    /\ StageOf(x) = "buffering"
    /\ \E size \in 0..(MaxBytes + 1), more \in BOOLEAN :
         LET got == exchange[x].got + size IN
         IF got > MaxBytes THEN WillAnswer(x, "4xx")
         ELSE Becomes(x, [exchange[x] EXCEPT !.got = got,
                                             !.stage = IF more THEN "buffering" ELSE "guarding"])
    /\ OnlyExchange

(* require_principal, the rate limiter, require_roles *)
Refusals == {"4xx", "5xx"}

(* Every router but the control plane's stands behind them.  A body that   *)
(* never came to its end is refused before.                                *)
Guard(x) ==
    /\ StageOf(x) = "guarding"
    /\ IF exchange[x].whole
       THEN \/ \E class \in Refusals : WillAnswer(x, class)
            \/ GoesTo(x, IF exchange[x].kind = "write" THEN "handling" ELSE "opening")
       ELSE WillAnswer(x, "4xx")
    /\ OnlyExchange

(* A handler returns, raises an ApplicationError, or something unexpected. *)
Handle(x) ==
    /\ StageOf(x) = "handling"
    /\ \/ \E class \in StatusClasses : WillAnswer(x, class)
       \/ GoesTo(x, "raising")
    /\ OnlyExchange

-----------------------------------------------------------------------------

(* Readiness: one probe at a time, its report shared for CacheSeconds. *)

Reusable == report.made /\ instant - report.at <= CapabilitySeconds

(* Mutant: a report is as old as the end of its probe. *)
Stamp_End(x) == instant

Stamp(x) == exchange[x].asked

Decide(x, seen) ==
    Becomes(x, [exchange[x] EXCEPT
        !.stage = "responding", !.seen = seen, !.decided = instant,
        !.status = IF \A c \in Checks : seen[c].has THEN "2xx" ELSE "5xx"])

(* report: a thread takes the lock; the clock is read under it. *)
AskReport(x) ==
    /\ StageOf(x) = "asking" /\ prober = "none"
    /\ IF Reusable THEN Decide(x, report.seen) /\ UNCHANGED prober
       ELSE /\ Becomes(x, [exchange[x] EXCEPT !.stage = "probing", !.asked = instant])
            /\ prober' = x
    /\ UNCHANGED <<meters, report, machine, instant>>

ProbeCapability(x, c) ==
    /\ StageOf(x) = "probing" /\ ~exchange[x].seen[c].known
    /\ Becomes(x, [exchange[x] EXCEPT
           !.seen[c] = [known |-> TRUE, has |-> machine[c], at |-> instant]])
    /\ OnlyExchange

FinishProbe(x) ==
    /\ StageOf(x) = "probing" /\ \A c \in Checks : exchange[x].seen[c].known
    /\ report' = [made |-> TRUE, at |-> Stamp(x), seen |-> exchange[x].seen]
    /\ prober' = "none"
    /\ Decide(x, exchange[x].seen)
    /\ UNCHANGED <<meters, machine, instant>>

(* A check that raises (the snapshot unreadable after it was found) leaves *)
(* the lock and the cached report as it was.                               *)
ProbeBreaks(x) ==
    /\ StageOf(x) = "probing"
    /\ prober' = "none"
    /\ GoesTo(x, "raising")
    /\ UNCHANGED <<meters, report, machine, instant>>

-----------------------------------------------------------------------------
(* Downloads: the response starts once the descriptor fits the row. *)

OpenDownload(x) ==
    /\ StageOf(x) = "opening"
    /\ \/ \E class \in {"4xx", "5xx"} : WillAnswer(x, class)
       \/ Becomes(x, [exchange[x] EXCEPT !.stage = "streaming", !.status = "2xx",
                                         !.secured = TRUE])
    /\ OnlyExchange

(* A chunk from the store; one beyond the declared size is never sent. *)
StreamChunk(x) ==
    /\ StageOf(x) = "streaming"
    /\ IF exchange[x].sent = ObjectSize THEN GoesTo(x, "raising")
       ELSE \E right \in BOOLEAN :
              Becomes(x, [exchange[x] EXCEPT !.sent = @ + 1, !.intact = @ /\ right])
    /\ OnlyExchange

StreamVerified(x) == exchange[x].sent = ObjectSize /\ exchange[x].intact

(* The store's stream ends, or fails before its end. *)
EndStream(x) ==
    /\ StageOf(x) = "streaming"
    /\ \/ GoesTo(x, IF StreamVerified(x) THEN "streamed" ELSE "raising")
       \/ exchange[x].sent < ObjectSize /\ GoesTo(x, "raising")
    /\ OnlyExchange

-----------------------------------------------------------------------------
(* The way out, through the middlewares. *)

Seen(x) == IF exchange[x].status = "none" THEN "5xx" ELSE exchange[x].status

(* the access event *)
Logged(x, class, outcome) ==
    eventLog' = eventLog \cup {[of |-> x, class |-> class, outcome |-> outcome]}

(* the `finally` of both observers *)
Metered(x, class, outcome) ==
    /\ gauge' = gauge - 1
    /\ totals' = [totals EXCEPT ![class] = @ + 1]
    /\ Logged(x, class, outcome)

(* What is left of a request: the fields no property reads are cleared. *)
Departs(x, status, left, secured) ==
    LET e == exchange[x] IN
    Becomes(x, [NoExchange EXCEPT !.stage = "done", !.kind = e.kind, !.status = status,
                                  !.sent = e.sent, !.intact = e.intact,
                                  !.left = e.left \/ left, !.secured = e.secured \/ secured])

Answer(x) ==
    /\ StageOf(x) \in {"responding", "streamed"}
    /\ Departs(x, exchange[x].status, FALSE, TRUE)
    /\ Metered(x, Seen(x), "completed")
    /\ UNCHANGED <<unhandled, probe, machine, instant>>

(* What no handler catches leaves every middleware.  The outermost layer   *)
(* answers 500 when nothing was sent; a body that began just ends.         *)
Escape(x) ==
    /\ StageOf(x) = "raising"
    /\ Departs(x, Seen(x), FALSE, FALSE)
    /\ Metered(x, Seen(x), "unhandled_exception")
    /\ unhandled' = unhandled + 1
    /\ UNCHANGED <<probe, machine, instant>>

(* The client leaves: a body that is being buffered stays half, a download *)
(* ends without its last comparison; the other stages do not listen for it. *)
HangUp(x) ==
    /\ \/ /\ StageOf(x) = "buffering"
          /\ Becomes(x, [exchange[x] EXCEPT !.stage = "guarding", !.whole = FALSE])
       \/ /\ StageOf(x) = "streaming"
          /\ Becomes(x, [exchange[x] EXCEPT !.stage = "streamed", !.left = TRUE])
    /\ OnlyExchange

(* The server stops waiting at its own shutdown; threads are waited for. *)
Cancel(x) ==
    /\ StageOf(x) \in {"buffering", "guarding", "handling", "opening", "streaming", "responding"}
    /\ LET begun == StageOf(x) = "streaming" IN
       /\ Departs(x, IF begun THEN "2xx" ELSE "none", TRUE, FALSE)
       /\ Metered(x, IF begun THEN "2xx" ELSE "5xx", "completed")
    /\ UNCHANGED <<unhandled, probe, machine, instant>>

(* Provisioning and outages, and the clock *)
MachineChanges(c) ==
    /\ machine' = [machine EXCEPT ![c] = ~@]
    /\ UNCHANGED <<exchange, meters, probe, instant>>

Passes ==
    /\ instant < LastInstant
    /\ instant' = instant + 1
    /\ UNCHANGED <<exchange, meters, probe, machine>>

HttpNext ==
    \/ \E x \in Exchanges :
         \/ ReceiveRequest(x) \/ ReceiveBody(x) \/ Guard(x) \/ Handle(x)
         \/ AskReport(x) \/ FinishProbe(x) \/ ProbeBreaks(x)
         \/ OpenDownload(x) \/ StreamChunk(x) \/ EndStream(x)
         \/ Answer(x) \/ Escape(x) \/ HangUp(x) \/ Cancel(x)
         \/ \E c \in Checks : ProbeCapability(x, c)
    \/ \E c \in Checks : MachineChanges(c)
    \/ Passes

HttpSpec == HttpInit /\ [][HttpNext]_httpVars

-----------------------------------------------------------------------------
CapabilityViews == [Checks -> [known : BOOLEAN, has : BOOLEAN, at : 0..LastInstant]]

HttpTypeOK ==
    /\ exchange \in [Exchanges -> [
         stage : {"new", "buffering", "guarding", "handling", "asking", "probing", "opening",
                  "streaming", "streamed", "responding", "raising", "done"},
         kind : {"none", "ready", "write", "download"}, since : 0..LastInstant,
         got : 0..MaxBytes, whole : BOOLEAN, sent : 0..ObjectSize, intact : BOOLEAN,
         left : BOOLEAN, status : StatusClasses \cup {"none"}, secured : BOOLEAN,
         seen : CapabilityViews, asked : 0..LastInstant, decided : 0..LastInstant]]
    /\ gauge \in Nat
    /\ totals \in [StatusClasses -> Nat]
    /\ unhandled \in Nat
    /\ eventLog \subseteq [of : Exchanges, class : StatusClasses,
                           outcome : {"completed", "unhandled_exception"}]
    /\ report \in [made : BOOLEAN, at : 0..LastInstant, seen : CapabilityViews]
    /\ prober \in Exchanges \cup {"none"}
    /\ machine \in [Checks -> BOOLEAN]
    /\ instant \in 0..LastInstant

(* A readiness answer rests on no check older than the cache time, unless  *)
(* it was made after the request itself arrived: neither the wait for the  *)
(* lock nor a slow probe lets an older finding through.                    *)
ReadinessFresh ==
    \A x \in Exchanges, c \in Checks :
      LET e == exchange[x] IN
      e.kind = "ready" /\ e.status # "none" /\ e.seen[c].known =>
        \/ e.seen[c].at >= e.decided - CapabilitySeconds
        \/ e.seen[c].at >= e.since

(* A client that stayed and holds a whole body of wrong bytes, ended as if *)
(* nothing were wrong, is in the access log as an unhandled exception.     *)
WrongBytesNoticed ==
    \A x \in Exchanges :
      LET e == exchange[x] IN
      e.stage = "done" /\ e.sent = ObjectSize /\ ~e.intact /\ ~e.left =>
        [of |-> x, class |-> "2xx", outcome |-> "unhandled_exception"] \in eventLog

(* The meters account for every request: the gauge for those inside, one   *)
(* count and one event for each that left, with the status its client got, *)
(* whatever ended it.                                                      *)
MeteredOnce ==
    LET Inside == {x \in Exchanges : StageOf(x) \notin {"new", "done"}}
        Gone == {x \in Exchanges : StageOf(x) = "done"}
    IN
    /\ gauge = Cardinality(Inside)
    /\ {e.of : e \in eventLog} = Gone /\ Cardinality(eventLog) = Cardinality(Gone)
    /\ \A class \in StatusClasses :
         totals[class] = Cardinality({e \in eventLog : e.class = class})
    /\ unhandled = Cardinality({e \in eventLog : e.outcome = "unhandled_exception"})
    /\ \A e \in eventLog : exchange[e.of].status \in {e.class, "none"}

(* What operators and clients read from the API is so: readiness, the end   *)
(* of a download, and the meters.                                           *)
AnswersTrue == ReadinessFresh /\ WrongBytesNoticed /\ MeteredOnce

(* "Attach conservative browser security headers to every response."       *)
(* (api/app.py:168)                                                        *)
EveryResponseSecured ==
    \A x \in Exchanges :
      StageOf(x) = "done" /\ exchange[x].status # "none" => exchange[x].secured
=============================================================================
