----------------------------- MODULE RateLimits -----------------------------
(***************************************************************************)
(* The fixed-window limiter of authenticated requests                      *)
(* (services/rate_limits.py), shared by every API replica through one      *)
(* table, and the purge of expired windows by the maintenance job.         *)
(*                                                                         *)
(* A request reads the database clock, counts itself in the window it read *)
(* and commits; the clock may pass into the next window, and the purge may *)
(* run, between any two of these.  A scope is one organization, subject,   *)
(* method and route.                                                       *)
(***************************************************************************)
EXTENDS Integers, FiniteSets, FiniteSetsExt

CONSTANTS
    ApiRequests,       \* requests in progress, over all replicas
    Scopes,
    LimitOf,        \* read_requests or write_requests, by the scope's method
    WindowSeconds,
    Retention,      \* retention_windows
    PurgeLimit,     \* rows of one purge
    MaxClock        \* bound: the last second of a behaviour

ASSUME RateAssumption ==
    /\ IsFiniteSet(Scopes)
    /\ LimitOf \in [Scopes -> Nat \ {0}]
    /\ WindowSeconds \in Nat \ {0} /\ Retention \in Nat \ {0}
    /\ PurgeLimit \in Nat \ {0} /\ MaxClock \in Nat

VARIABLES
    clock,      \* the database clock, in seconds
    counts,     \* request_count of each row; 0 without a row
    admitted,   \* history: requests let through, by scope and window
    request,    \* locals of a request
    doomed      \* ids the running purge has selected

rateVars == <<clock, counts, admitted, request, doomed>>

Epochs == 0..(MaxClock \div WindowSeconds)
Windows == Scopes \X Epochs

(* _window_state: the window of a moment and the seconds it still lasts *)
WindowState(t) ==
    [epoch |-> t \div WindowSeconds, after |-> WindowSeconds - (t % WindowSeconds)]

Idle == [at |-> "idle"]

RateInit ==
    /\ clock = 0
    /\ counts = [w \in Windows |-> 0]
    /\ admitted = [w \in Windows |-> 0]
    /\ request = [r \in ApiRequests |-> Idle]
    /\ doomed = {}

Advance(r, at) == request' = [request EXCEPT ![r].at = at]
RowOf(r) == <<request[r].scope, request[r].epoch>>

(* What a request keeps of the clock it reads *)
Reading(s) ==
    LET w == WindowState(clock)
    IN  [at |-> "read", scope |-> s, epoch |-> w.epoch, after |-> w.after, time |-> clock]

(* enforce: the transaction opens and reads the clock.  A method or route   *)
(* outside the contract is rejected before and touches nothing.            *)
RequestArrives(r, s) ==
    /\ request[r].at = "idle"
    /\ request' = [request EXCEPT ![r] = Reading(s)]
    /\ UNCHANGED <<clock, counts, admitted, doomed>>

(* Mutant: one request too many. *)
Countable_OneOver(w) == counts[w] <= LimitOf[w[1]]

(* The WHERE of ON CONFLICT DO UPDATE; a new row starts at one. *)
Countable(w) == counts[w] < LimitOf[w[1]]

(* The statement waits for an uncommitted count of the same row. *)
RowFree(r, w) ==
    \A q \in ApiRequests \ {r} : request[q].at = "counted" => RowOf(q) # w

Count(r) ==
    /\ request[r].at = "read"
    /\ RowFree(r, RowOf(r))
    /\ Advance(r, IF Countable(RowOf(r)) THEN "counted" ELSE "rejected")
    /\ UNCHANGED <<clock, counts, admitted, doomed>>

(* The count commits and the handler of the route runs. *)
Admit(r) ==
    /\ request[r].at = "counted"
    /\ counts' = [counts EXCEPT ![RowOf(r)] = @ + 1]
    /\ admitted' = [admitted EXCEPT ![RowOf(r)] = @ + 1]
    /\ request' = [request EXCEPT ![r] = Idle]
    /\ UNCHANGED <<clock, doomed>>

(* SQLAlchemyError: rolled back, DependencyUnavailable, no handler runs *)
Unavailable(r) ==
    /\ request[r].at \in {"read", "counted"}
    /\ request' = [request EXCEPT ![r] = Idle]
    /\ UNCHANGED <<clock, counts, admitted, doomed>>

(* The client of a rejected request obeys Retry-After, or gives up. *)
Retry429(r) ==
    /\ request[r].at = "rejected"
    /\ clock >= request[r].time + request[r].after
    /\ request' = [request EXCEPT ![r] = Reading(request[r].scope)]
    /\ UNCHANGED <<clock, counts, admitted, doomed>>

ClientGivesUp(r) ==
    /\ request[r].at = "rejected"
    /\ request' = [request EXCEPT ![r] = Idle]
    /\ UNCHANGED <<clock, counts, admitted, doomed>>

(* purge_expired: rows of windows before the retained ones ... *)
Expired(w) == counts[w] > 0 /\ w[2] < WindowState(clock).epoch - Retention

(* ... the oldest first, at most PurgeLimit of them *)
SelectExpired ==
    /\ doomed = {}
    /\ \E W \in SUBSET {w \in Windows : Expired(w)} :
          /\ Cardinality(W) = Min({PurgeLimit, Cardinality({w \in Windows : Expired(w)})})
          /\ \A w \in W, v \in {u \in Windows : Expired(u)} \ W : w[2] <= v[2]
          /\ W # {}
          /\ doomed' = W
    /\ UNCHANGED <<clock, counts, admitted, request>>

(* The DELETE waits for requests that have counted in one of the rows. *)
DeleteExpired ==
    /\ doomed # {}
    /\ \A r \in ApiRequests : request[r].at = "counted" => RowOf(r) \notin doomed
    /\ counts' = [w \in Windows |-> IF w \in doomed THEN 0 ELSE counts[w]]
    /\ doomed' = {}
    /\ UNCHANGED <<clock, admitted, request>>

ClockTicks ==
    /\ clock < MaxClock
    /\ clock' = clock + 1
    /\ UNCHANGED <<counts, admitted, request, doomed>>

RateNext ==
    \/ \E r \in ApiRequests, s \in Scopes : RequestArrives(r, s)
    \/ \E r \in ApiRequests : Count(r) \/ Admit(r) \/ Unavailable(r) \/ Retry429(r) \/ ClientGivesUp(r)
    \/ SelectExpired \/ DeleteExpired \/ ClockTicks

RateSpec == RateInit /\ [][RateNext]_rateVars

-----------------------------------------------------------------------------
RateTypeOK ==
    /\ clock \in 0..MaxClock
    /\ counts \in [Windows -> Nat] /\ admitted \in [Windows -> Nat]
    /\ \A r \in ApiRequests : request[r].at \in {"idle", "read", "counted", "rejected"}
    /\ doomed \subseteq Windows

(* Within its retention a window lets through what it counts and never     *)
(* more than the limit, over all replicas, although a request may commit   *)
(* after the clock has left its window, fail after it was counted, or meet *)
(* the purge ("increments are atomic across replicas",                     *)
(* tenant-isolation-quotas-audit.md).  A request that stalls longer than   *)
(* the retention may find its window purged and be counted from one again. *)
RateAdmissionsBounded ==
    \A w \in Windows : w[2] >= WindowState(clock).epoch - Retention =>
        /\ admitted[w] = counts[w]
        /\ admitted[w] <= LimitOf[w[1]]

(* Retry-After leads out of the exhausted window and not further than its  *)
(* end: the second before it is in the window, the second itself is not.   *)
RetryAfterExact ==
    \A r \in ApiRequests : request[r].at = "rejected" =>
        /\ (request[r].time + request[r].after) \div WindowSeconds = request[r].epoch + 1
        /\ (request[r].time + request[r].after - 1) \div WindowSeconds = request[r].epoch

(* What a client may rely on: the limit, and when to come back.            *)
LimiterHonest == RateAdmissionsBounded /\ RetryAfterExact
=============================================================================
