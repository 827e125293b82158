------------------------------ MODULE ApiProofs ------------------------------
(***************************************************************************)
(* Proofs about what stands between a user and the services: the limits    *)
(* on requests (RateLimits), the keys tokens are checked with              *)
(* (Authentication), the answers of the API (HttpApi) and the sessions of  *)
(* the web server (WebSession).                                            *)
(***************************************************************************)
EXTENDS RateLimits, Authentication, HttpApi, WebSession,
        FiniteSetTheorems, Integers, WellFoundedInduction, SequenceTheorems, TLAPS

-----------------------------------------------------------------------------
(***************************************************************************)
(* The limit holds over any number of replicas and requests, and           *)
(* Retry-After is exact, for any limits, window and retention.             *)
(***************************************************************************)

Requests == {Idle} \cup [at : {"read", "counted", "rejected"}, scope : Scopes, epoch : Epochs,
                         after : Nat, time : 0..MaxClock]

RateTypes ==
    /\ clock \in 0..MaxClock
    /\ counts \in [Windows -> Nat] /\ admitted \in [Windows -> Nat]
    /\ request \in [ApiRequests -> Requests]
    /\ doomed \in SUBSET Windows

CountedIn(r, w) == request[r].at = "counted" /\ RowOf(r) = w
Retained(w) == w[2] >= WindowState(clock).epoch - Retention

(* The inductive invariant: one request at a time has counted in a row     *)
(* that is not yet committed, and it had room there; what the purge chose  *)
(* is still beyond the retention when it goes.                             *)
RowsOK ==
    /\ \A w \in Windows : counts[w] <= LimitOf[w[1]]
    /\ \A r \in ApiRequests, w \in Windows : CountedIn(r, w) => counts[w] < LimitOf[w[1]]
    /\ \A q, r \in ApiRequests, w \in Windows : CountedIn(q, w) /\ CountedIn(r, w) => q = r
HistoryOK == \A w \in Windows : Retained(w) => admitted[w] = counts[w]
PurgeOK == \A w \in doomed : ~Retained(w)
TimesOK ==
    \A r \in ApiRequests : request[r].at # "idle" =>
        /\ request[r].epoch = request[r].time \div WindowSeconds
        /\ request[r].after = WindowSeconds - (request[r].time % WindowSeconds)

RateInv == RateTypes /\ RowsOK /\ HistoryOK /\ PurgeOK /\ TimesOK

-----------------------------------------------------------------------------
(* Time goes on, and so do windows. *)
LEMMA DivMonotonic ==
    ASSUME NEW a \in Nat, NEW b \in Nat, NEW w \in Nat \ {0}, a <= b
    PROVE  a \div w \in Nat /\ a \div w <= b \div w
  OBVIOUS

LEMMA EpochOfClock ==
    ASSUME NEW t \in 0..MaxClock
    PROVE  WindowState(t).epoch \in Epochs /\ WindowState(t).after \in Nat
<1>1. WindowState(t).epoch \in Epochs
  BY RateAssumption, DivMonotonic DEF WindowState, Epochs
<1>2. t % WindowSeconds \in 0..(WindowSeconds - 1)
  BY RateAssumption
<1> QED
  BY <1>1, <1>2, RateAssumption DEF WindowState

(* The second before Retry-After is in the window of the request, the      *)
(* second itself in the next.                                              *)
LEMMA WindowEnds ==
    ASSUME NEW t \in Nat, NEW w \in Nat \ {0}
    PROVE  /\ (t + (w - (t % w))) \div w = t \div w + 1
           /\ (t + (w - (t % w)) - 1) \div w = t \div w
  OBVIOUS

(* Initially no row exists. *)
LEMMA RateStart == RateInit => RateInv
<1> SUFFICES ASSUME RateInit PROVE RateInv
  OBVIOUS
<1>1. RateTypes
  BY RateAssumption DEF RateInit, RateTypes, Requests
<1>2. \A w \in Windows : LimitOf[w[1]] \in Nat
  BY RateAssumption DEF Windows
<1>3. \A r \in ApiRequests : request[r].at = "idle"
  BY DEF RateInit, Idle
<1>4. RowsOK /\ HistoryOK /\ PurgeOK /\ TimesOK
  BY <1>2, <1>3 DEF RateInit, RowsOK, CountedIn, HistoryOK, PurgeOK, TimesOK
<1> QED
  BY <1>1, <1>4 DEF RateInv

(* Arriving, rejected, failing and retrying requests touch no row and do   *)
(* not count.                                                              *)
LEMMA OthersKeepInv ==
    ASSUME RateInv, NEW r \in ApiRequests, NEW c \in Requests,
           request' = [request EXCEPT ![r] = c],
           UNCHANGED <<clock, counts, admitted, doomed>>,
           c.at # "counted",
           c.at # "idle" => /\ c.epoch = c.time \div WindowSeconds
                            /\ c.after = WindowSeconds - (c.time % WindowSeconds)
    PROVE  RateInv'
<1>1. RateTypes' /\ TimesOK'
  BY DEF RateInv, RateTypes, TimesOK
<1>2. \A q \in ApiRequests, w \in Windows : CountedIn(q, w)' => CountedIn(q, w)
  BY DEF RateInv, RateTypes, CountedIn, RowOf
<1>3. RowsOK' /\ HistoryOK' /\ PurgeOK'
  BY <1>2 DEF RateInv, RowsOK, HistoryOK, PurgeOK, Retained
<1> QED
  BY <1>1, <1>3 DEF RateInv

LEMMA RequestsKeepInv ==
    ASSUME RateInv, NEW r \in ApiRequests,
           \/ \E s \in Scopes : RequestArrives(r, s)
           \/ Unavailable(r) \/ Retry429(r) \/ ClientGivesUp(r)
    PROVE  RateInv'
<1>0. /\ Idle \in Requests /\ Idle.at = "idle" /\ clock \in 0..MaxClock
      /\ WindowState(clock).epoch \in Epochs /\ WindowState(clock).after \in Nat
  BY EpochOfClock DEF Requests, Idle, RateInv, RateTypes
<1>1. ASSUME NEW s \in Scopes, request' = [request EXCEPT ![r] = Reading(s)],
             UNCHANGED <<clock, counts, admitted, doomed>>
      PROVE  RateInv'
  <2>1. Reading(s) \in Requests
    BY <1>0 DEF Reading, Requests
  <2>2. /\ Reading(s).at = "read" /\ Reading(s).epoch = Reading(s).time \div WindowSeconds
        /\ Reading(s).after = WindowSeconds - (Reading(s).time % WindowSeconds)
    BY DEF Reading, WindowState
  <2> QED
    BY <1>1, <2>1, <2>2, OthersKeepInv
<1>2. ASSUME NEW s \in Scopes, RequestArrives(r, s) PROVE RateInv'
  BY <1>1, <1>2 DEF RequestArrives
<1>3. CASE Unavailable(r) \/ ClientGivesUp(r)
  BY <1>0, <1>3, OthersKeepInv DEF Unavailable, ClientGivesUp
<1>4. CASE Retry429(r)
  <2>1. request[r].scope \in Scopes
    BY <1>4 DEF Retry429, RateInv, RateTypes, Requests, Idle
  <2> QED
    BY <1>1, <1>4, <2>1 DEF Retry429
<1> QED
  BY <1>2, <1>3, <1>4

(* A request counts only where there is room and nobody else is counting;  *)
(* a row without room rejects it.                                          *)
LEMMA CountKeepsInv ==
    ASSUME RateInv, NEW r \in ApiRequests, Count(r)
    PROVE  RateInv'
<1>0. /\ request[r] \in Requests \ {Idle} /\ request[r].at = "read"
      /\ UNCHANGED <<clock, counts, admitted, doomed>>
  BY DEF Count, RateInv, RateTypes, Idle
<1>1. CASE ~Countable(RowOf(r))
  <2> DEFINE c == [request[r] EXCEPT !.at = "rejected"]
  <2>1. c \in Requests
    BY <1>0 DEF Requests
  <2>2. /\ c.at = "rejected" /\ c.epoch = c.time \div WindowSeconds
        /\ c.after = WindowSeconds - (c.time % WindowSeconds)
    BY <1>0 DEF RateInv, TimesOK, Requests
  <2>3. request' = [request EXCEPT ![r] = c]
    BY <1>1 DEF Count, Advance
  <2> HIDE DEF c
  <2> QED
    BY <1>0, <2>1, <2>2, <2>3, OthersKeepInv
<1>2. CASE Countable(RowOf(r))
  <2>1. request' = [request EXCEPT ![r] = [request[r] EXCEPT !.at = "counted"]]
    BY <1>2 DEF Count, Advance
  <2>2. RateTypes' /\ TimesOK'
    BY <1>0, <2>1 DEF RateInv, RateTypes, TimesOK, Requests
  <2>3. /\ RowOf(r)' = RowOf(r) /\ RowFree(r, RowOf(r))
        /\ \A q \in ApiRequests \ {r}, w \in Windows : CountedIn(q, w)' = CountedIn(q, w)
    BY <1>0, <2>1 DEF RateInv, RateTypes, CountedIn, RowOf, Count, Requests
  <2>4. RowsOK'
    BY <1>0, <1>2, <2>3 DEF RateInv, RowsOK, CountedIn, RowFree, Countable
  <2>5. HistoryOK' /\ PurgeOK'
    BY <1>0 DEF RateInv, HistoryOK, PurgeOK, Retained
  <2> QED
    BY <2>2, <2>4, <2>5 DEF RateInv
<1> QED
  BY <1>1, <1>2

(* The commit adds the request to its row, which had room. *)
LEMMA AdmitKeepsInv ==
    ASSUME RateInv, NEW r \in ApiRequests, Admit(r)
    PROVE  RateInv'
<1> DEFINE row == RowOf(r)
<1>0. /\ request[r] \in Requests \ {Idle} /\ CountedIn(r, row)
      /\ UNCHANGED <<clock, doomed>> /\ Idle \in Requests /\ Idle.at = "idle"
  BY DEF Admit, RateInv, RateTypes, Idle, CountedIn, Requests
<1>1. row \in Windows
  BY <1>0 DEF RowOf, Windows, Requests
<1>2. /\ counts' = [counts EXCEPT ![row] = @ + 1] /\ admitted' = [admitted EXCEPT ![row] = @ + 1]
      /\ request' = [request EXCEPT ![r] = Idle]
  BY DEF Admit
<1>3. RateTypes' /\ TimesOK'
  BY <1>0, <1>1, <1>2 DEF RateInv, RateTypes, TimesOK
<1>4. /\ counts[row] < LimitOf[row[1]] /\ counts[row] \in Nat /\ LimitOf[row[1]] \in Nat
      /\ \A q \in ApiRequests : CountedIn(q, row) => q = r
  BY <1>0, <1>1, RateAssumption DEF RateInv, RateTypes, RowsOK, Windows
<1>5. \A q \in ApiRequests, w \in Windows : CountedIn(q, w)' => CountedIn(q, w) /\ q # r /\ w # row
  BY <1>0, <1>2, <1>4 DEF RateInv, RateTypes, CountedIn, RowOf
<1>6. RowsOK'
  BY <1>1, <1>2, <1>4, <1>5 DEF RateInv, RateTypes, RowsOK
<1>7. HistoryOK' /\ PurgeOK'
  BY <1>0, <1>1, <1>2 DEF RateInv, RateTypes, HistoryOK, PurgeOK, Retained
<1> QED
  BY <1>3, <1>6, <1>7 DEF RateInv

(* The purge chooses rows beyond the retention, and takes no row that a    *)
(* request has counted in.                                                 *)
LEMMA PurgeKeepsInv ==
    ASSUME RateInv, SelectExpired \/ DeleteExpired
    PROVE  RateInv'
<1>0. UNCHANGED <<clock, admitted, request>>
  BY DEF SelectExpired, DeleteExpired
<1>1. CASE SelectExpired
  <2>1. /\ doomed' \in SUBSET {w \in Windows : Expired(w)} /\ counts' = counts
    BY <1>1 DEF SelectExpired
  <2>2. clock \in Nat /\ WindowState(clock).epoch \in Int /\ \A w \in Windows : w[2] \in Int
    BY EpochOfClock DEF RateInv, RateTypes, Windows, Epochs
  <2>3. \A w \in Windows : Expired(w) => ~Retained(w)
    BY <2>2, RateAssumption DEF Expired, Retained
  <2>4. \A q \in ApiRequests, w \in Windows : CountedIn(q, w)' = CountedIn(q, w)
    BY <1>0 DEF CountedIn, RowOf
  <2> QED
    BY <1>0, <2>1, <2>3, <2>4
    DEF RateInv, RateTypes, RowsOK, HistoryOK, PurgeOK, TimesOK, Retained
<1>2. CASE DeleteExpired
  <2>1. /\ counts' = [w \in Windows |-> IF w \in doomed THEN 0 ELSE counts[w]] /\ doomed' = {}
        /\ \A q \in ApiRequests, w \in Windows : CountedIn(q, w) => w \notin doomed
    BY <1>2 DEF DeleteExpired, CountedIn
  <2>2. \A q \in ApiRequests, w \in Windows : CountedIn(q, w)' = CountedIn(q, w)
    BY <1>0 DEF CountedIn, RowOf
  <2>3. \A w \in Windows : LimitOf[w[1]] \in Nat
    BY RateAssumption DEF Windows
  <2>4. RateTypes' /\ TimesOK'
    BY <1>0, <2>1 DEF RateInv, RateTypes, TimesOK
  <2>5. RowsOK'
    BY <2>1, <2>2, <2>3 DEF RateInv, RateTypes, RowsOK
  <2>6. HistoryOK' /\ PurgeOK'
    BY <1>0, <2>1 DEF RateInv, HistoryOK, PurgeOK, Retained
  <2> QED
    BY <2>4, <2>5, <2>6 DEF RateInv
<1> QED
  BY <1>1, <1>2

(* The clock only takes windows out of the retention. *)
LEMMA ClockKeepsInv ==
    ASSUME RateInv, ClockTicks
    PROVE  RateInv'
<1>1. /\ clock \in Nat /\ clock' = clock + 1 /\ clock' \in 0..MaxClock
      /\ UNCHANGED <<counts, admitted, request, doomed>>
  BY RateAssumption DEF ClockTicks, RateInv, RateTypes
<1>2. clock \div WindowSeconds \in Nat /\ clock \div WindowSeconds <= clock' \div WindowSeconds
  BY <1>1, RateAssumption, DivMonotonic
<1>3. clock' \div WindowSeconds \in Nat
  BY <1>1, RateAssumption, DivMonotonic
<1>4. \A w \in Windows : Retained(w)' => Retained(w)
  BY <1>2, <1>3, RateAssumption DEF Retained, WindowState, Windows, Epochs
<1>5. \A q \in ApiRequests, w \in Windows : CountedIn(q, w)' = CountedIn(q, w)
  BY <1>1 DEF CountedIn, RowOf
<1> QED
  BY <1>1, <1>4, <1>5 DEF RateInv, RateTypes, RowsOK, HistoryOK, PurgeOK, TimesOK

(* Every step keeps the invariant. *)
LEMMA RateStep == RateInv /\ [RateNext]_rateVars => RateInv'
<1> SUFFICES ASSUME RateInv, [RateNext]_rateVars PROVE RateInv'
  OBVIOUS
<1>1. CASE UNCHANGED rateVars
  BY <1>1
  DEF rateVars, RateInv, RateTypes, RowsOK, CountedIn, RowOf, HistoryOK, PurgeOK, Retained, TimesOK
<1> QED
  BY <1>1, RequestsKeepInv, CountKeepsInv, AdmitKeepsInv, PurgeKeepsInv, ClockKeepsInv DEF RateNext

-----------------------------------------------------------------------------
(* No window within its retention lets through more than its limit. *)
LEMMA InvBoundsAdmissions == RateInv => RateAdmissionsBounded
<1> SUFFICES ASSUME RateInv, NEW w \in Windows, Retained(w)
             PROVE  admitted[w] = counts[w] /\ admitted[w] <= LimitOf[w[1]]
  BY DEF RateAdmissionsBounded, Retained
<1> QED
  BY DEF RateInv, RowsOK, HistoryOK

(* Retry-After leads to the first second of the next window. *)
LEMMA InvExactRetries == RateInv => RetryAfterExact
<1> SUFFICES ASSUME RateInv, NEW r \in ApiRequests, request[r].at = "rejected"
             PROVE  /\ (request[r].time + request[r].after) \div WindowSeconds
                          = request[r].epoch + 1
                    /\ (request[r].time + request[r].after - 1) \div WindowSeconds
                          = request[r].epoch
  BY DEF RetryAfterExact
<1> DEFINE t == request[r].time
           w == WindowSeconds
<1>1. t \in Nat /\ w \in Nat \ {0}
  BY RateAssumption DEF RateInv, RateTypes, Requests, Idle
<1>2. request[r].epoch = t \div w /\ request[r].after = w - (t % w)
  BY DEF RateInv, TimesOK
<1>3. (t + (w - (t % w))) \div w = t \div w + 1 /\ (t + (w - (t % w)) - 1) \div w = t \div w
  BY <1>1, WindowEnds
<1> QED
  BY <1>2, <1>3

(* Over any number of replicas and requests the limit holds and the client *)
(* is told the right second (enforce, _window_state, purge_expired).       *)
THEOREM LimiterIsHonest == RateSpec => []LimiterHonest
<1>1. RateInv => LimiterHonest
  BY InvBoundsAdmissions, InvExactRetries DEF LimiterHonest
<1> QED
  BY <1>1, RateStart, RateStep, PTL DEF RateSpec

-----------------------------------------------------------------------------
(* Types *)

(* What a window counts and lets through are numbers, no window but one of *)
(* those kept is due to go, and every request is where a request can be    *)
(* (enforce, purge_expired).                                               *)
THEOREM RateTypesKept == RateSpec => []RateTypeOK
<1>1. RateInv => RateTypeOK
  BY DEF RateInv, RateTypes, RateTypeOK, Requests, Idle
<1> QED
  BY <1>1, RateStart, RateStep, PTL DEF RateSpec

-----------------------------------------------------------------------------
(***************************************************************************)
(* The keys a process accepts (Authentication), for any number of          *)
(* connections and any durations.  The induction follows the keys of a     *)
(* refresh from the request to their installation (FetchTrue), and relates *)
(* the age of what is cached and of the tokens about to the waits of the   *)
(* operator's rotation (RotationTrue).                                     *)
(***************************************************************************)

Kids == {"old", "new"}
AuthTokens == [kid : {"none", "forged"} \cup Kids, age : 0 .. TokenLife + 1]

Providers == [planned : BOOLEAN, published : SUBSET Kids, signs : Kids,
              waited : 0 .. TokenLife + CacheSeconds]

CallStates == [at : {"idle", "came", "queued", "fetching"} \cup Done, token : AuthTokens]
Refreshes == [holder : Calls \cup {0}, tried : 0 .. Old, failed : BOOLEAN,
              stage : {"none", "metadata", "keys", "read"}, got : SUBSET Kids]

AuthTypes ==
    /\ provider \in Providers
    /\ keys \in [set : SUBSET Kids, age : 0 .. Old, asked : 0 .. Old]
    /\ refresh \in Refreshes
    /\ call \in [Calls -> CallStates]

(* One refresh at a time, of the request that holds the lock; what it      *)
(* fetched has all keys but withdrawn ones and such as came later.         *)
FetchTrue ==
    /\ refresh.holder = 0 <=> refresh.stage = "none"
    /\ refresh.holder # 0 => call[refresh.holder].at = "fetching"
    /\ refresh.stage = "read" =>
          /\ "old" \in refresh.got \/ "old" \notin provider.published
          /\ call[refresh.holder].token.kid = "new" => "new" \in refresh.got
    /\ keys.asked = keys.age
    /\ refresh.holder = 0 /\ ~refresh.failed => refresh.tried = keys.age

Signed(c, kid) == call[c].token.kid = kid

(* Instants count up to a limit of their own. *)
AtLeast(age, wait) == age >= wait \/ age = Old

(* The provider signs with a key it publishes; what was asked for before a *)
(* key was published is as old as the wait since, and so are the tokens of *)
(* the key that has ceased to sign.                                        *)
RotationTrue ==
    /\ provider.signs \in provider.published
    /\ \A c \in Calls : Signed(c, "new") => provider.signs = "new"
    /\ "old" \notin keys.set => "old" \notin provider.published \/ keys.age = Old
    /\ provider.planned =>
          /\ "old" \notin provider.published => provider.signs = "new"
          /\ "old" \notin provider.published =>
                \A c \in Calls : Signed(c, "old") => call[c].token.age > TokenLife
          /\ provider.signs = "new" =>
                /\ \A c \in Calls : Signed(c, "old") =>
                      \/ call[c].token.age >= provider.waited
                      \/ call[c].token.age > TokenLife
                /\ "new" \notin keys.set => keys.age >= CacheSeconds
                /\ refresh.stage = "read" /\ "new" \notin refresh.got =>
                      refresh.tried >= CacheSeconds
          /\ provider.signs = "old" /\ "new" \in provider.published =>
                /\ "new" \notin keys.set => AtLeast(keys.age, provider.waited)
                /\ refresh.stage = "read" /\ "new" \notin refresh.got =>
                      AtLeast(refresh.tried, provider.waited)

(* A request that is not over has a token. *)
PendingTrue ==
    \A c \in Calls : call[c].at \notin {"idle"} \cup Done => call[c].token.kid # "none"

AuthInv == AuthTypes /\ FetchTrue /\ RotationTrue /\ PendingTrue

-----------------------------------------------------------------------------
(* Old is longer than both limits. *)
LEMMA OldIsOld ==
    /\ Old \in Nat /\ Old > CacheSeconds /\ Old > Cooldown
<1> DEFINE m == IF CacheSeconds >= Cooldown THEN CacheSeconds ELSE Cooldown
<1>1. m \in {CacheSeconds, Cooldown} /\ \A y \in {CacheSeconds, Cooldown} : m >= y
  BY AuthAssumption
<1>2. Max({CacheSeconds, Cooldown}) \in {CacheSeconds, Cooldown}
      /\ \A y \in {CacheSeconds, Cooldown} : Max({CacheSeconds, Cooldown}) >= y
  BY <1>1 DEF Max
<1> QED
  BY <1>2, AuthAssumption DEF Old

(* A capped count goes on by one, or is at its limit. *)
LEMMA OlderCounts ==
    ASSUME NEW cap \in Nat, NEW age \in 0 .. cap
    PROVE  /\ Older(age, cap) \in 0 .. cap
           /\ \/ Older(age, cap) = age + 1
              \/ age = cap /\ Older(age, cap) = cap
  BY DEF Older

(* Nothing is cached or pending at first. *)
LEMMA AuthStarts ==
    AuthInit => AuthInv
<1> SUFFICES ASSUME AuthInit PROVE AuthInv
  OBVIOUS
<1>1. NoToken \in AuthTokens /\ NoToken.kid = "none"
  BY AuthAssumption DEF NoToken, AuthTokens
<1>2. \A c \in Calls : call[c].at = "idle" /\ call[c].token.kid = "none"
  BY <1>1 DEF AuthInit
<1>3. AuthTypes
  BY <1>1, OldIsOld, AuthAssumption DEF AuthInit, AuthTypes, Providers, Refreshes, CallStates, Kids
<1>4. provider.published = {"old"} /\ provider.signs = "old" /\ keys.set = {} /\ keys.age = Old
      /\ keys.asked = Old /\ refresh.holder = 0 /\ refresh.stage = "none" /\ refresh.tried = Old
  BY DEF AuthInit
<1>5. FetchTrue
  BY <1>4 DEF FetchTrue
<1>6. RotationTrue
  BY <1>2, <1>4 DEF RotationTrue, Signed
<1> QED
  BY <1>2, <1>3, <1>5, <1>6 DEF AuthInv, PendingTrue

(* The steps of the provider *)
LEMMA ProviderKeeps ==
    ASSUME AuthInv, PublishNew \/ SignWithNew \/ WithdrawOld
    PROVE  AuthInv'
<1> USE DEF AuthInv
<1>1. UNCHANGED <<keys, refresh, call>>
  BY DEF PublishNew, SignWithNew, WithdrawOld, Rotate
<1>2. PendingTrue'
  BY <1>1 DEF PendingTrue
<1>3. provider \in Providers /\ 0 \in 0 .. TokenLife + CacheSeconds
  BY AuthAssumption DEF AuthTypes
<1>4. CASE PublishNew
  <2>1. /\ "new" \notin provider.published
        /\ provider' = [provider EXCEPT !.published = @ \cup {"new"}, !.waited = 0]
    BY <1>4 DEF PublishNew, Rotate
  <2>2. /\ provider'.planned = provider.planned /\ provider'.signs = provider.signs
        /\ provider'.published = provider.published \cup {"new"} /\ provider'.waited = 0
    BY <2>1, <1>3 DEF Providers
  <2>3. provider' \in Providers
    BY <1>3, <2>1 DEF Providers, Kids
  <2>31. AuthTypes'
    BY <1>1, <2>3 DEF AuthTypes
  <2>4. FetchTrue'
    BY <1>1, <2>2 DEF FetchTrue
  <2>5. provider.signs = "old" /\ "old" \in provider.published
    BY <1>3, <2>1 DEF RotationTrue, Providers, Kids
  <2>6. keys.age >= 0 /\ refresh.tried >= 0
    BY OldIsOld DEF AuthTypes, Refreshes
  <2>7. RotationTrue'
    BY <1>1, <2>2, <2>5, <2>6 DEF RotationTrue, Signed, AtLeast
  <2> QED
    BY <1>2, <2>31, <2>4, <2>7
<1>5. CASE SignWithNew
  <2>1. /\ provider.signs = "old" /\ "new" \in provider.published
        /\ provider.planned => provider.waited >= CacheSeconds
        /\ provider' = [provider EXCEPT !.signs = "new", !.waited = 0]
    BY <1>5 DEF SignWithNew, Rotate
  <2>2. /\ provider'.planned = provider.planned /\ provider'.signs = "new"
        /\ provider'.published = provider.published /\ provider'.waited = 0
    BY <2>1, <1>3 DEF Providers
  <2>3. provider' \in Providers
    BY <1>3, <2>1 DEF Providers, Kids
  <2>31. AuthTypes'
    BY <1>1, <2>3 DEF AuthTypes
  <2>4. FetchTrue'
    BY <1>1, <2>2 DEF FetchTrue
  <2>5. \A c \in Calls : call[c].token.age \in Nat
    BY AuthAssumption DEF AuthTypes, CallStates, AuthTokens
  <2>6. keys.age \in Nat /\ refresh.tried \in Nat /\ provider.waited \in Nat
    BY OldIsOld, AuthAssumption DEF AuthTypes, Providers, Refreshes
  <2>7. provider.planned =>
           /\ "new" \notin keys.set => keys.age >= CacheSeconds
           /\ refresh.stage = "read" /\ "new" \notin refresh.got => refresh.tried >= CacheSeconds
    BY <2>1, <2>6, OldIsOld, AuthAssumption DEF RotationTrue, AtLeast
  <2>8. RotationTrue'
    BY <1>1, <2>1, <2>2, <2>5, <2>7, AuthAssumption DEF RotationTrue, Signed
  <2> QED
    BY <1>2, <2>31, <2>4, <2>8
<1>6. CASE WithdrawOld
  <2>1. /\ "old" \in provider.published /\ "new" \in provider.published
        /\ provider.planned => provider.signs = "new" /\ provider.waited >= TokenLife + CacheSeconds
        /\ provider' = [provider EXCEPT !.published = {"new"}, !.signs = "new", !.waited = 0]
    BY <1>6 DEF WithdrawOld, Rotate
  <2>2. /\ provider'.planned = provider.planned /\ provider'.signs = "new"
        /\ provider'.published = {"new"} /\ provider'.waited = 0
    BY <2>1, <1>3 DEF Providers
  <2>3. provider' \in Providers
    BY <1>3, <2>1 DEF Providers, Kids
  <2>31. AuthTypes'
    BY <1>1, <2>3 DEF AuthTypes
  <2>4. FetchTrue'
    BY <1>1, <2>2 DEF FetchTrue
  <2>5. \A c \in Calls : call[c].token.age \in Nat
    BY AuthAssumption DEF AuthTypes, CallStates, AuthTokens
  <2>6. provider.waited \in Nat
    BY AuthAssumption DEF AuthTypes, Providers
  <2>7. provider.planned =>
           \A c \in Calls : Signed(c, "old") => call[c].token.age > TokenLife
    BY <2>1, <2>5, <2>6, AuthAssumption DEF RotationTrue
  <2>8. provider.planned => provider.signs = "new"
    BY <2>1
  <2>9. RotationTrue'
    BY <1>1, <2>1, <2>2, <2>5, <2>7, <2>8 DEF RotationTrue, Signed
  <2> QED
    BY <1>2, <2>31, <2>4, <2>9
<1> QED
  BY <1>4, <1>5, <1>6
-----------------------------------------------------------------------------
(* A request that keeps its token, or has none any more, changes nothing   *)
(* the rotation depends on.                                                *)
LEMMA CallKeeps ==
    ASSUME AuthInv, NEW c \in Calls, NEW at \in {"came", "queued", "fetching"} \cup Done,
           call[c].at \notin {"idle"} \cup Done, CallTo(c, at)
    PROVE  /\ call' \in [Calls -> CallStates] /\ PendingTrue'
           /\ call'[c].at = at
           /\ \A d \in Calls \ {c} : call'[d] = call[d]
           /\ \A d \in Calls : call'[d].token = call[d].token \/ call'[d].token.kid = "none"
           /\ at \notin Done => call'[c].token = call[c].token
<1>1. call \in [Calls -> CallStates] /\ NoToken \in AuthTokens /\ NoToken.kid = "none"
  BY AuthAssumption DEF AuthInv, AuthTypes, NoToken, AuthTokens
<1> DEFINE x == [at |-> at, token |-> IF at \in Done THEN NoToken ELSE call[c].token]
<1>2. call' = [call EXCEPT ![c] = x]
  BY DEF CallTo
<1>3. x \in CallStates /\ x.at = at
  BY <1>1 DEF CallStates
<1>4. call[c].token.kid # "none"
  BY DEF AuthInv, PendingTrue
<1>5. x.token = IF at \in Done THEN NoToken ELSE call[c].token
  OBVIOUS
<1> HIDE DEF x
<1>6. call' \in [Calls -> CallStates] /\ call'[c] = x /\ \A d \in Calls \ {c} : call'[d] = call[d]
  BY <1>1, <1>2, <1>3
<1>7. PendingTrue'
  BY <1>3, <1>4, <1>5, <1>6 DEF AuthInv, PendingTrue
<1> QED
  BY <1>1, <1>3, <1>5, <1>6, <1>7

(* Tokens that vanish do not hurt the rotation. *)
LEMMA TokensKeep ==
    ASSUME AuthInv, UNCHANGED <<provider, keys>>,
           refresh'.stage = "read" => refresh.stage = "read" /\ refresh'.got = refresh.got
                                      /\ refresh'.tried = refresh.tried,
           \A d \in Calls : call'[d].token = call[d].token \/ call'[d].token.kid = "none"
    PROVE  RotationTrue'
<1> USE DEF AuthInv
<1>1. \A d \in Calls, kid \in Kids : Signed(d, kid)' =>
         Signed(d, kid) /\ call'[d].token = call[d].token
  BY DEF Signed, Kids
<1> QED
  BY <1>1 DEF RotationTrue, Signed, AtLeast, Kids

(* Arrive: a new token is one of the key that signs now. *)
LEMMA ArriveKeeps ==
    ASSUME AuthInv, NEW c \in Calls, Arrive(c)
    PROVE  AuthInv'
<1> USE DEF AuthInv
<1>1. /\ call[c].at \in {"idle"} \cup Done
      /\ UNCHANGED <<provider, keys, refresh>>
  BY DEF Arrive
<1>2. PICK kid \in {provider.signs, "forged"} :
         call' = [call EXCEPT ![c] = [at |-> "came", token |-> [kid |-> kid, age |-> 0]]]
  BY DEF Arrive
<1>3. kid \in {"old", "new", "forged"} /\ provider.signs \in Kids
  BY <1>2 DEF AuthTypes, Providers, Kids
<1> DEFINE x == [at |-> "came", token |-> [kid |-> kid, age |-> 0]]
<1>4. x \in CallStates /\ x.at = "came" /\ x.token.kid = kid /\ x.token.age = 0
  BY <1>3, AuthAssumption DEF CallStates, AuthTokens, Kids
<1> HIDE DEF x
<1>5. /\ call' \in [Calls -> CallStates] /\ call'[c] = x
      /\ \A d \in Calls \ {c} : call'[d] = call[d]
  BY <1>2, <1>4 DEF AuthTypes, x
<1>6. AuthTypes'
  BY <1>1, <1>5 DEF AuthTypes
<1>7. PendingTrue'
  BY <1>3, <1>4, <1>5 DEF PendingTrue
<1>8. refresh.holder # c
  BY <1>1, AuthAssumption DEF FetchTrue, Done
<1>9. FetchTrue'
  <2>1. refresh.holder # 0 => refresh.holder \in Calls /\ call'[refresh.holder] = call[refresh.holder]
    BY <1>5, <1>8 DEF AuthTypes, Refreshes
  <2>2. refresh.stage = "read" => refresh.holder # 0
    BY DEF FetchTrue
  <2> QED
    BY <1>1, <2>1, <2>2 DEF FetchTrue
<1>10. Signed(c, "new")' => provider.signs = "new"
  BY <1>2, <1>3, <1>4, <1>5 DEF Signed
<1>11. Signed(c, "old")' => provider.signs = "old"
  BY <1>2, <1>3, <1>4, <1>5 DEF Signed
<1>12. \A d \in Calls \ {c}, k \in Kids : Signed(d, k)' <=> Signed(d, k)
  BY <1>5 DEF Signed
<1>13. RotationTrue'
  BY <1>1, <1>3, <1>5, <1>10, <1>11, <1>12 DEF RotationTrue, Signed, AtLeast, Kids
<1> QED
  BY <1>6, <1>7, <1>9, <1>13

(* LookUp: without the lock *)
LEMMA LookUpKeeps ==
    ASSUME AuthInv, NEW c \in Calls, LookUp(c)
    PROVE  AuthInv'
<1> USE DEF AuthInv
<1>1. call[c].at = "came" /\ UNCHANGED <<provider, keys, refresh>>
  BY DEF LookUp
<1>2. PICK at \in {"accepted", "unauthenticated", "queued"} : CallTo(c, at)
  BY DEF LookUp, TokenVerdict
<1>3. /\ call' \in [Calls -> CallStates] /\ PendingTrue'
      /\ \A d \in Calls \ {c} : call'[d] = call[d]
      /\ \A d \in Calls : call'[d].token = call[d].token \/ call'[d].token.kid = "none"
  BY <1>1, <1>2, CallKeeps DEF Done
<1>4. AuthTypes'
  BY <1>1, <1>3 DEF AuthTypes
<1>5. RotationTrue'
  BY <1>1, <1>3, TokensKeep
<1>6. refresh.holder # 0 => refresh.holder \in Calls \ {c}
  BY <1>1 DEF FetchTrue, AuthTypes, Refreshes
<1>7. FetchTrue'
  BY <1>1, <1>3, <1>6 DEF FetchTrue
<1> QED
  BY <1>3, <1>4, <1>5, <1>7

(* Enter: with the lock, no one else fetches. *)
LEMMA EnterKeeps ==
    ASSUME AuthInv, NEW c \in Calls, Enter(c)
    PROVE  AuthInv'
<1> USE DEF AuthInv
<1>1. /\ call[c].at = "queued" /\ refresh.holder = 0 /\ refresh.stage = "none"
      /\ UNCHANGED <<provider, keys>>
  BY DEF Enter, FetchTrue
<1>2. CASE refresh' = refresh
  <2>1. PICK at \in Done : CallTo(c, at)
    <3>1. CASE CallTo(c, "fetching") /\ refresh' = [refresh EXCEPT !.holder = c, !.tried = 0, !.stage = "metadata"]
      BY <1>1, <1>2, <3>1 DEF AuthTypes, Refreshes
    <3>2. CASE CallTo(c, TokenVerdict(c))
      BY <3>2 DEF TokenVerdict, Done
    <3>3. CASE CallTo(c, CooldownAnswer(call[c].token.kid))
      BY <3>3 DEF CooldownAnswer, Done
    <3> QED
      BY <3>1, <3>2, <3>3 DEF Enter
  <2>2. /\ call' \in [Calls -> CallStates] /\ PendingTrue'
        /\ \A d \in Calls : call'[d].token = call[d].token \/ call'[d].token.kid = "none"
    BY <1>1, <2>1, CallKeeps DEF Done
  <2>3. AuthTypes'
    BY <1>1, <1>2, <2>2 DEF AuthTypes
  <2>4. RotationTrue'
    BY <1>1, <1>2, <2>2, TokensKeep
  <2>5. FetchTrue'
    BY <1>1, <1>2 DEF FetchTrue
  <2> QED
    BY <2>2, <2>3, <2>4, <2>5
<1>3. CASE refresh' # refresh
  <2>1. /\ CallTo(c, "fetching")
        /\ refresh' = [refresh EXCEPT !.holder = c, !.tried = 0, !.stage = "metadata"]
    BY <1>3 DEF Enter
  <2>2. /\ call' \in [Calls -> CallStates] /\ PendingTrue' /\ call'[c].at = "fetching"
        /\ \A d \in Calls : call'[d].token = call[d].token \/ call'[d].token.kid = "none"
    BY <1>1, <2>1, CallKeeps DEF Done
  <2>3. /\ refresh' \in Refreshes /\ refresh'.holder = c /\ refresh'.stage = "metadata"
    <3>1. refresh \in Refreshes /\ 0 \in 0 .. Old
      BY OldIsOld DEF AuthTypes
    <3> QED
      BY <2>1, <3>1 DEF Refreshes
  <2>4. AuthTypes'
    BY <1>1, <2>2, <2>3 DEF AuthTypes
  <2>5. RotationTrue'
    BY <1>1, <2>2, <2>3, TokensKeep
  <2>6. FetchTrue'
    BY <1>1, <2>2, <2>3, AuthAssumption DEF FetchTrue
  <2> QED
    BY <2>2, <2>4, <2>5, <2>6
<1> QED
  BY <1>2, <1>3
(* FetchMetadata, FetchKeys: the keys published at that time *)
LEMMA FetchKeeps ==
    ASSUME AuthInv, FetchMetadata \/ FetchKeys
    PROVE  AuthInv'
<1> USE DEF AuthInv
<1>1. UNCHANGED <<provider, keys, call>> /\ refresh \in Refreshes /\ provider \in Providers
  BY DEF FetchMetadata, FetchKeys, AuthTypes
<1>2. PendingTrue'
  BY <1>1 DEF PendingTrue
<1>3. CASE FetchMetadata
  <2>1. refresh.stage = "metadata" /\ refresh' = [refresh EXCEPT !.stage = "keys"]
    BY <1>3 DEF FetchMetadata
  <2>2. /\ refresh' \in Refreshes /\ refresh'.stage = "keys"
        /\ refresh'.holder = refresh.holder /\ refresh'.failed = refresh.failed
        /\ refresh'.tried = refresh.tried
    BY <1>1, <2>1 DEF Refreshes
  <2>3. AuthTypes'
    BY <1>1, <2>2 DEF AuthTypes
  <2>4. FetchTrue'
    BY <1>1, <2>1, <2>2 DEF FetchTrue
  <2>5. RotationTrue'
    BY <1>1, <2>2, TokensKeep
  <2> QED
    BY <1>2, <2>3, <2>4, <2>5
<1>4. CASE FetchKeys
  <2>1. /\ refresh.stage = "keys"
        /\ refresh' = [refresh EXCEPT !.stage = "read", !.got = provider.published]
    BY <1>4 DEF FetchKeys
  <2>2. /\ refresh' \in Refreshes /\ refresh'.stage = "read"
        /\ refresh'.holder = refresh.holder /\ refresh'.failed = refresh.failed
        /\ refresh'.tried = refresh.tried /\ refresh'.got = provider.published
    BY <1>1, <2>1 DEF Refreshes, Providers
  <2>3. AuthTypes'
    BY <1>1, <2>2 DEF AuthTypes
  <2>4. refresh.holder \in Calls
    BY <1>1, <2>1 DEF FetchTrue, Refreshes
  <2>5. FetchTrue'
    BY <1>1, <2>1, <2>2, <2>4 DEF FetchTrue, RotationTrue, Signed
  <2>6. RotationTrue'
    BY <1>1, <2>2 DEF RotationTrue, Signed, AtLeast
  <2> QED
    BY <1>2, <2>3, <2>5, <2>6
<1> QED
  BY <1>3, <1>4

(* The request that fetched *)
LEMMA HolderCalls ==
    ASSUME AuthInv, refresh.stage # "none"
    PROVE  refresh.holder \in Calls /\ call[refresh.holder].at = "fetching"
  BY DEF AuthInv, FetchTrue, AuthTypes, Refreshes

(* Released: the lock is free. *)
LEMMA ReleasedKeeps ==
    ASSUME AuthInv, NEW failed \in BOOLEAN, Released(failed)
    PROVE  /\ refresh' \in Refreshes /\ refresh'.holder = 0 /\ refresh'.stage = "none"
           /\ refresh'.failed = failed /\ refresh'.tried = refresh.tried
  BY DEF AuthInv, AuthTypes, Refreshes, Released

(* Install: the keys are as old as the request for them. *)
LEMMA InstallKeeps ==
    ASSUME AuthInv, Install
    PROVE  AuthInv'
<1> USE DEF AuthInv
<1> DEFINE c == refresh.holder
<1>1. /\ refresh.stage = "read"
      /\ keys' = [set |-> refresh.got, age |-> refresh.tried, asked |-> refresh.tried]
      /\ Released(FALSE) /\ provider' = provider
  BY DEF Install, RefreshedAt
<1>2. c \in Calls /\ call[c].at = "fetching"
  BY <1>1, HolderCalls
<1>3. PICK at \in Done : CallTo(c, at)
  BY DEF Install, TokenVerdict, Done
<1>4. /\ call' \in [Calls -> CallStates] /\ PendingTrue'
      /\ \A d \in Calls : call'[d].token = call[d].token \/ call'[d].token.kid = "none"
  BY <1>2, <1>3, CallKeeps DEF Done
<1>5. /\ refresh' \in Refreshes /\ refresh'.holder = 0 /\ refresh'.stage = "none"
      /\ refresh'.failed = FALSE /\ refresh'.tried = refresh.tried
  BY <1>1, ReleasedKeeps
<1>6. refresh.got \in SUBSET Kids /\ refresh.tried \in 0 .. Old
  BY DEF AuthTypes, Refreshes
<1>7. /\ keys' \in [set : SUBSET Kids, age : 0 .. Old, asked : 0 .. Old]
      /\ keys'.set = refresh.got /\ keys'.age = refresh.tried /\ keys'.asked = refresh.tried
  BY <1>1, <1>6
<1>8. AuthTypes'
  BY <1>1, <1>4, <1>5, <1>7 DEF AuthTypes
<1>9. FetchTrue'
  BY <1>5, <1>7 DEF FetchTrue
<1>10. \A d \in Calls, kid \in Kids : Signed(d, kid)' =>
         Signed(d, kid) /\ call'[d].token = call[d].token
  BY <1>4 DEF Signed, Kids
<1>11. "old" \in refresh.got \/ "old" \notin provider.published
  BY <1>1 DEF FetchTrue
<1>12. RotationTrue'
  BY <1>1, <1>5, <1>7, <1>10, <1>11 DEF RotationTrue, Signed, Kids, AtLeast
<1> QED
  BY <1>4, <1>8, <1>9, <1>12

(* FetchFails: the keys stay. *)
LEMMA FetchFailsKeeps ==
    ASSUME AuthInv, FetchFails
    PROVE  AuthInv'
<1> USE DEF AuthInv
<1> DEFINE c == refresh.holder
<1>1. /\ refresh.stage # "none" /\ Released(TRUE) /\ CallTo(c, "unavailable")
      /\ UNCHANGED <<provider, keys>>
  BY DEF FetchFails
<1>2. c \in Calls /\ call[c].at = "fetching"
  BY <1>1, HolderCalls
<1>3. /\ call' \in [Calls -> CallStates] /\ PendingTrue'
      /\ \A d \in Calls : call'[d].token = call[d].token \/ call'[d].token.kid = "none"
  BY <1>1, <1>2, CallKeeps DEF Done
<1>4. /\ refresh' \in Refreshes /\ refresh'.holder = 0 /\ refresh'.stage = "none"
      /\ refresh'.failed = TRUE
  BY <1>1, ReleasedKeeps
<1>5. AuthTypes'
  BY <1>1, <1>3, <1>4 DEF AuthTypes
<1>6. FetchTrue'
  BY <1>1, <1>4 DEF FetchTrue
<1>7. RotationTrue'
  BY <1>1, <1>3, <1>4, TokensKeep
<1> QED
  BY <1>3, <1>5, <1>6, <1>7

(* Second: every age goes on, up to its limit. *)
LEMMA SecondKeeps ==
    ASSUME AuthInv, Second
    PROVE  AuthInv'
<1> USE DEF AuthInv
<1> DEFINE w == provider'.waited
           b == TokenLife + CacheSeconds
<1>1. /\ provider' = [provider EXCEPT !.waited = IF provider.planned THEN Older(provider.waited, b) ELSE 0]
      /\ keys' = [keys EXCEPT !.age = Older(keys.age, Old), !.asked = Older(keys.asked, Old)]
      /\ refresh' = [refresh EXCEPT !.tried = Older(refresh.tried, Old)]
      /\ call' = [c \in Calls |-> IF call[c].token = NoToken THEN call[c]
                    ELSE [call[c] EXCEPT !.token.age = Older(call[c].token.age, TokenLife + 1)]]
  BY DEF Second
<1>2. /\ provider \in Providers /\ refresh \in Refreshes /\ call \in [Calls -> CallStates]
      /\ keys \in [set : SUBSET Kids, age : 0 .. Old, asked : 0 .. Old]
  BY DEF AuthTypes
<1>3. b \in Nat /\ Old \in Nat /\ TokenLife + 1 \in Nat /\ Old > CacheSeconds
  BY OldIsOld, AuthAssumption
<1>4. /\ provider.waited \in 0 .. b /\ keys.age \in 0 .. Old /\ refresh.tried \in 0 .. Old
      /\ keys.asked = keys.age
  BY <1>2 DEF Providers, Refreshes, FetchTrue
<1> HIDE DEF b
<1>5. /\ provider' \in Providers /\ provider'.planned = provider.planned
      /\ provider'.published = provider.published /\ provider'.signs = provider.signs
  BY <1>1, <1>2, <1>3, <1>4, OlderCounts DEF Providers, b
<1>6. provider.planned => w = provider.waited + 1 \/ (provider.waited = b /\ w = b)
  BY <1>1, <1>2, <1>3, <1>4, OlderCounts DEF Providers
<1>7. /\ keys' \in [set : SUBSET Kids, age : 0 .. Old, asked : 0 .. Old]
      /\ keys'.set = keys.set /\ keys'.asked = keys'.age
      /\ keys'.age = keys.age + 1 \/ (keys.age = Old /\ keys'.age = Old)
  BY <1>1, <1>2, <1>3, <1>4, OlderCounts
<1>8. /\ refresh' \in Refreshes /\ refresh'.holder = refresh.holder /\ refresh'.stage = refresh.stage
      /\ refresh'.failed = refresh.failed /\ refresh'.got = refresh.got
      /\ refresh'.tried = refresh.tried + 1 \/ (refresh.tried = Old /\ refresh'.tried = Old)
      /\ refresh.tried = keys.age => refresh'.tried = keys'.age
  BY <1>1, <1>2, <1>3, <1>4, OlderCounts DEF Refreshes
<1>9. ASSUME NEW c \in Calls
      PROVE  /\ call'[c] \in CallStates /\ call'[c].at = call[c].at
             /\ call'[c].token.kid = call[c].token.kid
             /\ call'[c].token.kid \in Kids =>
                  \/ call'[c].token.age = call[c].token.age + 1
                  \/ call'[c].token.age = TokenLife + 1
  <2>1. call[c] \in CallStates /\ call[c].token \in AuthTokens
        /\ call[c].token.kid \in {"none", "forged"} \cup Kids
        /\ call[c].token.age \in 0 .. TokenLife + 1
    BY <1>2 DEF CallStates, AuthTokens
  <2>2. CASE call[c].token = NoToken
    BY <1>1, <2>1, <2>2 DEF NoToken, Kids
  <2>3. CASE call[c].token # NoToken
    <3> DEFINE age == Older(call[c].token.age, TokenLife + 1)
    <3>1. age \in 0 .. TokenLife + 1
          /\ (age = call[c].token.age + 1 \/ age = TokenLife + 1)
      BY <1>3, <2>1, OlderCounts
    <3>2. call'[c] = [call[c] EXCEPT !.token.age = age]
      BY <1>1, <2>3
    <3> HIDE DEF age
    <3> QED
      BY <2>1, <3>1, <3>2 DEF CallStates, AuthTokens
  <2> QED
    BY <2>2, <2>3
<1>10. call' \in [Calls -> CallStates]
  BY <1>1, <1>9
<1>11. AuthTypes'
  BY <1>5, <1>7, <1>8, <1>10 DEF AuthTypes
<1>12. PendingTrue'
  BY <1>9 DEF PendingTrue
<1>13. FetchTrue'
  <2>1. refresh.holder \in Calls \cup {0}
    BY <1>2 DEF Refreshes
  <2>2. refresh.stage = "read" => refresh.holder \in Calls
    BY <2>1 DEF FetchTrue
  <2> QED
    BY <1>5, <1>7, <1>8, <1>9, <2>1, <2>2 DEF FetchTrue
<1>14. \A c \in Calls, k \in Kids : Signed(c, k)' <=> Signed(c, k)
  BY <1>9 DEF Signed
<1>15. \A c \in Calls : Signed(c, "old") =>
          /\ call[c].token.age \in 0 .. TokenLife + 1
          /\ \/ call'[c].token.age = call[c].token.age + 1
             \/ call'[c].token.age = TokenLife + 1
  <2> SUFFICES ASSUME NEW c \in Calls, Signed(c, "old")
               PROVE  /\ call[c].token.age \in 0 .. TokenLife + 1
                      /\ \/ call'[c].token.age = call[c].token.age + 1
                         \/ call'[c].token.age = TokenLife + 1
    OBVIOUS
  <2>1. call[c].token.age \in 0 .. TokenLife + 1
    BY <1>2 DEF CallStates, AuthTokens
  <2> QED
    BY <1>9, <2>1 DEF Signed, Kids
<1>16. provider.planned /\ provider.signs = "new" =>
          \A c \in Calls : Signed(c, "old") =>
             call'[c].token.age >= w \/ call'[c].token.age > TokenLife
  BY <1>3, <1>4, <1>6, <1>15, AuthAssumption DEF RotationTrue
<1>17. provider.planned /\ "old" \notin provider.published =>
          \A c \in Calls : Signed(c, "old") => call'[c].token.age > TokenLife
  BY <1>15, AuthAssumption DEF RotationTrue
<1>18. /\ keys.age >= CacheSeconds => keys'.age >= CacheSeconds
       /\ refresh.tried >= CacheSeconds => refresh'.tried >= CacheSeconds
       /\ keys.age = Old => keys'.age = Old
  BY <1>1, <1>2, <1>3, <1>4, <1>7, <1>8, AuthAssumption DEF Older
<1>19. provider.planned =>
         /\ AtLeast(keys.age, provider.waited) => AtLeast(keys'.age, w)
         /\ AtLeast(refresh.tried, provider.waited) => AtLeast(refresh'.tried, w)
  BY <1>1, <1>2, <1>3, <1>4, <1>6, <1>7, <1>8, <1>18 DEF AtLeast, Older, Refreshes
<1>20. RotationTrue'
  BY <1>5, <1>7, <1>8, <1>14, <1>16, <1>17, <1>18, <1>19 DEF RotationTrue, Kids
<1> QED
  BY <1>11, <1>12, <1>13, <1>20

(* AuthInv is inductive. *)
LEMMA AuthSteps ==
    ASSUME AuthInv, [AuthNext]_authVars
    PROVE  AuthInv'
<1>1. CASE UNCHANGED authVars
  BY <1>1 DEF authVars, AuthInv, AuthTypes, FetchTrue, RotationTrue, PendingTrue, Signed, AtLeast
<1>2. CASE AuthNext
  BY <1>2, ProviderKeeps, ArriveKeeps, LookUpKeeps, EnterKeeps, FetchKeeps, InstallKeeps,
     FetchFailsKeeps, SecondKeeps DEF AuthNext
<1> QED
  BY <1>1, <1>2
-----------------------------------------------------------------------------
(* The typing of the component *)
LEMMA AuthTyped ==
    ASSUME AuthInv
    PROVE  AuthTypeOK
<1>1. provider.signs \in provider.published /\ provider.published \subseteq Kids
  BY DEF AuthInv, RotationTrue, AuthTypes, Providers
<1>2. provider.published \in {{"old"}, {"old", "new"}, {"new"}}
  BY <1>1 DEF Kids
<1> QED
  BY <1>2 DEF AuthInv, AuthTypes, Providers, Refreshes, CallStates, Kids, AuthTypeOK

(* Whose answer a step gives *)
LEMMA AuthAnswered ==
    ASSUME AuthInv, AuthNext, NEW c \in Calls,
           call[c].at \notin {"idle"} \cup Done, call'[c].at \in Done
    PROVE  \/ LookUp(c) \/ Enter(c)
           \/ Install /\ refresh.holder = c /\ call[c].at = "fetching"
           \/ call'[c].at = "unavailable"
<1>0. call \in [Calls -> CallStates]
  BY DEF AuthInv, AuthTypes
<1>1. ASSUME call' = call PROVE FALSE
  BY <1>1
<1>2. CASE PublishNew \/ SignWithNew \/ WithdrawOld \/ FetchMetadata \/ FetchKeys
  BY <1>1, <1>2 DEF PublishNew, SignWithNew, WithdrawOld, Rotate, FetchMetadata, FetchKeys
<1>3. ASSUME NEW d \in Calls, Arrive(d) PROVE FALSE
  BY <1>0, <1>3 DEF Arrive, Done
<1>4. ASSUME NEW d \in Calls, LookUp(d) \/ Enter(d) PROVE d = c
  BY <1>0, <1>4 DEF LookUp, Enter, CallTo
<1>5. CASE Install
  BY <1>0, <1>5, HolderCalls DEF Install, CallTo
<1>6. CASE FetchFails
  BY <1>0, <1>6, HolderCalls DEF FetchFails, CallTo
<1>7. CASE Second
  BY <1>7, <1>0 DEF Second, CallStates
<1> QED
  BY <1>2, <1>3, <1>4, <1>5, <1>6, <1>7 DEF AuthNext

(* Trust in a key set ends with the cache lifetime, counted from the       *)
(* request for it.                                                         *)
LEMMA TrustKept ==
    ASSUME AuthInv, AuthNext, NEW c \in Calls,
           call[c].at \in {"came", "queued"}, call'[c].at = "accepted"
    PROVE  keys.asked <= CacheSeconds
<1>1. call \in [Calls -> CallStates] /\ keys.asked = keys.age
  BY DEF AuthInv, AuthTypes, FetchTrue
<1>2. LookUp(c) \/ Enter(c)
  BY AuthAnswered DEF Done
<1>3. CASE LookUp(c)
  BY <1>1, <1>3 DEF LookUp, CallTo, Cached, FreshSnapshot
<1>4. CASE Enter(c)
  BY <1>1, <1>4 DEF Enter, CallTo, Cached, FreshSnapshot, CooldownAnswer
<1> QED
  BY <1>2, <1>3, <1>4

(* A refresh starts after the cooldown, or when the last keys ran out.     *)
LEMMA SpacingKept ==
    ASSUME AuthInv, AuthNext, refresh.holder = 0, refresh'.holder # 0
    PROVE  \/ refresh.tried >= Cooldown
           \/ ~refresh.failed /\ keys.asked > CacheSeconds
<1>1. /\ refresh \in Refreshes /\ keys.asked = keys.age /\ refresh.stage = "none"
      /\ refresh.tried \in Nat /\ keys.age \in Nat
  BY OldIsOld DEF AuthInv, AuthTypes, Refreshes, FetchTrue
<1>2. ASSUME refresh'.holder = refresh.holder PROVE FALSE
  BY <1>2
<1>3. PICK c \in Calls : Enter(c)
  <2>1. CASE PublishNew \/ SignWithNew \/ WithdrawOld \/ FetchMetadata \/ FetchKeys \/ Install \/ FetchFails
    BY <1>1, <1>2, <2>1 DEF PublishNew, SignWithNew, WithdrawOld, Rotate, FetchMetadata, FetchKeys,
       Install, FetchFails
  <2>2. CASE Second
    BY <1>1, <1>2, <2>2 DEF Second, Refreshes
  <2>3. ASSUME NEW c \in Calls, Arrive(c) \/ LookUp(c) PROVE FALSE
    BY <1>2, <2>3 DEF Arrive, LookUp
  <2> QED
    BY <2>1, <2>2, <2>3 DEF AuthNext
<1>4. ~CoolingDown
  BY <1>2, <1>3 DEF Enter
<1> QED
  BY <1>1, <1>4, AuthAssumption DEF CoolingDown, FreshSnapshot

(* In a planned rotation a cached key set lacks only the key of a token    *)
(* that has run out, unless it is so old that the cooldown is over.        *)
LEMMA AuthRotationKept ==
    ASSUME AuthInv, AuthNext, NEW c \in Calls,
           Cooldown <= CacheSeconds, provider.planned,
           call[c].at \notin {"idle"} \cup Done, call'[c].at = "unauthenticated"
    PROVE  call[c].token.kid = "forged" \/ call[c].token.age > TokenLife
<1>0. /\ call \in [Calls -> CallStates] /\ keys.age \in 0 .. Old /\ refresh.tried \in 0 .. Old
      /\ call[c].token \in AuthTokens /\ call[c].token.age \in Nat
  BY AuthAssumption DEF AuthInv, AuthTypes, Refreshes, CallStates, AuthTokens
<1>1. CASE TokenVerdict(c) = "unauthenticated"
  BY <1>0, <1>1, AuthAssumption DEF TokenVerdict
<1>2. CASE TokenVerdict(c) # "unauthenticated"
  <2>1. call[c].token.kid \in {"old", "new", "forged"}
    BY <1>0 DEF AuthInv, PendingTrue, AuthTokens, Kids
  <2>2. \/ LookUp(c) \/ Enter(c)
        \/ Install /\ refresh.holder = c
    BY AuthAnswered DEF Done
  <2>3. CASE LookUp(c)
    BY <1>0, <1>2, <2>3 DEF LookUp, CallTo
  <2>4. CASE Enter(c)
    <3>1. /\ CoolingDown /\ CooldownAnswer(call[c].token.kid) = "unauthenticated"
          /\ refresh.holder = 0
      BY <1>0, <1>2, <2>4 DEF Enter, CallTo
    <3>2. call[c].token.kid \notin keys.set /\ ~refresh.failed
      BY <3>1 DEF CooldownAnswer
    <3>3. keys.age <= CacheSeconds /\ refresh.tried < Cooldown /\ refresh.tried = keys.age
      BY <3>1, <3>2 DEF CoolingDown, FreshSnapshot, AuthInv, FetchTrue
    <3>4. keys.age < CacheSeconds /\ keys.age # Old
      BY <1>0, <3>3, OldIsOld, AuthAssumption
    <3>5. call[c].token.kid # "new"
      BY <3>2, <3>4, <1>0, AuthAssumption DEF AuthInv, RotationTrue, Signed
    <3>6. CASE call[c].token.kid = "old"
      BY <3>2, <3>4, <3>6 DEF AuthInv, RotationTrue, Signed
    <3> QED
      BY <2>1, <3>5, <3>6
  <2>5. CASE Install /\ refresh.holder = c
    <3>1. call[c].token.kid \notin refresh.got /\ refresh.stage = "read"
      BY <1>0, <1>2, <2>5 DEF Install, CallTo
    <3>2. call[c].token.kid # "new"
      BY <2>5, <3>1 DEF AuthInv, FetchTrue
    <3>3. call[c].token.kid = "old" => "old" \notin provider.published
      BY <3>1 DEF AuthInv, FetchTrue
    <3> QED
      BY <2>1, <3>2, <3>3 DEF AuthInv, RotationTrue, Signed
  <2> QED
    BY <2>2, <2>3, <2>4, <2>5
<1> QED
  BY <1>1, <1>2
-----------------------------------------------------------------------------
(* Keys and tokens keep their types, whatever the provider does and        *)
(* however the requests interleave.                                        *)
THEOREM AuthTypesKept == AuthSpec => []AuthTypeOK
  BY AuthStarts, AuthSteps, AuthTyped, PTL DEF AuthSpec

(* Withdrawn keys are trusted for the cache lifetime at most, the provider *)
(* is asked once per cooldown, and a planned rotation refuses no token     *)
(* that lives, for any durations (OidcTokenVerifier).                      *)
THEOREM KeysAlwaysFollow == AuthSpec => KeysFollowProvider
<1>1. AuthInv /\ [AuthNext]_authVars =>
        [\A c \in Calls :
            call[c].at \in {"came", "queued"} /\ call'[c].at = "accepted" =>
               keys.asked <= CacheSeconds]_authVars
  BY TrustKept
<1>2. AuthInv /\ [AuthNext]_authVars =>
        [refresh.holder = 0 /\ refresh'.holder # 0 =>
            \/ refresh.tried >= Cooldown
            \/ ~refresh.failed /\ keys.asked > CacheSeconds]_authVars
  BY SpacingKept
<1>3. AuthInv /\ [AuthNext]_authVars =>
        [\A c \in Calls :
            /\ Cooldown <= CacheSeconds /\ provider.planned
            /\ call[c].at \notin {"idle"} \cup Done /\ call'[c].at = "unauthenticated"
            => call[c].token.kid = "forged" \/ call[c].token.age > TokenLife]_authVars
  BY AuthRotationKept
<1> QED
  BY <1>1, <1>2, <1>3, AuthStarts, AuthSteps, PTL
  DEF AuthSpec, KeysFollowProvider, TrustExpires, RefreshesSpaced, PlannedRotationKeepsUsers

-----------------------------------------------------------------------------
(***************************************************************************)
(* Readiness, downloads and the meters of the API (HttpApi), for any       *)
(* number of requests, capabilities and instants.  The induction keeps     *)
(* every exchange in order with itself (Orderly), the report no older      *)
(* than the probe it came from (ReportTrue), and the log and the meters    *)
(* in step with what has been answered.                                    *)
(***************************************************************************)

HttpStages == {"new", "buffering", "guarding", "handling", "asking", "probing", "opening",
               "streaming", "streamed", "responding", "raising", "done"}
Instants == 0..LastInstant
ExchangeStates == [
    stage : HttpStages, kind : {"none", "ready", "write", "download"}, since : Instants,
    got : 0..MaxBytes, whole : BOOLEAN, sent : 0..ObjectSize, intact : BOOLEAN,
    left : BOOLEAN, status : StatusClasses \cup {"none"}, secured : BOOLEAN,
    seen : CapabilityViews, asked : Instants, decided : Instants]

(* The findings a request rests on are no older than t. *)
FoundSince(seen, t) == \A c \in Checks : seen[c].known => seen[c].at >= t

(* A request that is answered with findings *)
FreshAnswer(e) ==
    \/ FoundSince(e.seen, e.decided - CapabilitySeconds)
    \/ FoundSince(e.seen, e.since)

Probing(e) == e.kind = "ready" /\ e.status = "none" /\ e.sent = 0

(* What a request is, by its stage *)
InOrder(e) ==
    /\ e.stage \in {"asking", "probing"} => Probing(e)
    /\ e.stage = "asking" => \A c \in Checks : ~e.seen[c].known
    /\ e.stage = "probing" => e.asked >= e.since /\ FoundSince(e.seen, e.asked)
    /\ e.stage \in {"buffering", "guarding", "handling", "opening"} => e.kind # "ready" /\ e.sent = 0
    /\ e.stage \in {"new", "responding"} => e.sent = 0
    /\ e.stage = "streaming" => e.kind # "ready" /\ e.status = "2xx"
    /\ e.stage = "streamed" => e.left \/ (e.sent = ObjectSize /\ e.intact)
    /\ e.stage = "raising" /\ e.sent # 0 => e.status = "2xx"
    /\ e.kind = "ready" /\ e.status # "none" => FreshAnswer(e)

Orderly == {e \in ExchangeStates : InOrder(e)}

ReportTrue == /\ report \in [made : BOOLEAN, at : Instants, seen : CapabilityViews]
              /\ report.made => FoundSince(report.seen, report.at)

MachineTrue == machine \in [Checks -> BOOLEAN]

HttpInv ==
    /\ exchange \in [Exchanges -> Orderly]
    /\ \A x \in Exchanges : exchange[x].since <= instant /\ exchange[x].asked <= instant
    /\ ReportTrue
    /\ instant \in Instants
    /\ WrongBytesNoticed
    /\ MeteredOnce
    /\ gauge \in Nat /\ totals \in [StatusClasses -> Nat] /\ unhandled \in Nat
    /\ IsFiniteSet(eventLog)
    /\ eventLog \subseteq [of : Exchanges, class : StatusClasses,
                           outcome : {"completed", "unhandled_exception"}]

-----------------------------------------------------------------------------
(* The meters. *)
Inside == {x \in Exchanges : StageOf(x) \notin {"new", "done"}}
Gone == {x \in Exchanges : StageOf(x) = "done"}
Events(class) == {e \in eventLog : e.class = class}
Raised == {e \in eventLog : e.outcome = "unhandled_exception"}

(* Sets of requests and events that gain or lose one *)
LEMMA MeterSets ==
    ASSUME HttpInv
    PROVE  /\ IsFiniteSet(Inside) /\ IsFiniteSet(Gone) /\ IsFiniteSet(Raised)
           /\ \A class : IsFiniteSet(Events(class))
           /\ gauge = Cardinality(Inside) /\ {e.of : e \in eventLog} = Gone
           /\ Cardinality(eventLog) = Cardinality(Gone)
           /\ \A class \in StatusClasses : totals[class] = Cardinality(Events(class))
           /\ unhandled = Cardinality(Raised)
<1>1. IsFiniteSet(Inside) /\ IsFiniteSet(Gone)
  <2>1. Inside \subseteq Exchanges /\ Gone \subseteq Exchanges
    BY DEF Inside, Gone
  <2> QED
    BY <2>1, HttpAssumption, FS_Subset
<1>2. IsFiniteSet(Raised) /\ \A class : IsFiniteSet(Events(class))
  <2>1. IsFiniteSet(eventLog) /\ Raised \subseteq eventLog /\ \A class : Events(class) \subseteq eventLog
    BY DEF Raised, Events, HttpInv
  <2> QED
    BY <2>1, FS_Subset
<1> QED
  BY <1>1, <1>2 DEF HttpInv, MeteredOnce, Inside, Gone, Raised, Events

(* One request moves on inside. *)
LEMMA StepInside ==
    ASSUME HttpInv, NEW x \in Exchanges, NEW e \in Orderly, Becomes(x, e),
           StageOf(x) \notin {"new", "done"}, e.stage \notin {"new", "done"},
           e.since = exchange[x].since, e.asked \in {exchange[x].asked, instant},
           UNCHANGED <<meters, instant>>, ReportTrue'
    PROVE  HttpInv'
<1>1. /\ exchange' \in [Exchanges -> Orderly] /\ exchange'[x] = e
      /\ \A y \in Exchanges : y # x => exchange'[y] = exchange[y]
  BY DEF HttpInv, Becomes
<1>2. UNCHANGED <<gauge, totals, unhandled, eventLog, instant>>
  BY DEF meters
<1>3. \A y \in Exchanges : exchange'[y].since <= instant' /\ exchange'[y].asked <= instant'
  <2>1. instant' = instant /\ instant \in Nat
    BY <1>2, HttpAssumption DEF HttpInv, Instants
  <2>2. \A y \in Exchanges : exchange[y].since <= instant /\ exchange[y].asked <= instant
    BY DEF HttpInv
  <2>3. e.since <= instant /\ e.asked <= instant
    BY <2>1, <2>2
  <2>4. ASSUME NEW y \in Exchanges
        PROVE  exchange'[y].since <= instant /\ exchange'[y].asked <= instant
    BY <1>1, <2>2, <2>3
  <2> QED
    BY <2>1, <2>4
<1>4. WrongBytesNoticed'
  BY <1>1, <1>2 DEF HttpInv, WrongBytesNoticed
<1>5. \A y \in Exchanges :
          /\ exchange'[y].stage = "done" <=> exchange[y].stage = "done"
          /\ exchange'[y].stage \notin {"new", "done"} <=> exchange[y].stage \notin {"new", "done"}
  BY <1>1 DEF StageOf
<1>6. Inside' = Inside /\ Gone' = Gone
  BY <1>5 DEF Inside, Gone, StageOf
<1>7. \A m \in eventLog : exchange'[m.of].status \in {m.class, "none"}
  <2>1. ASSUME NEW m \in eventLog PROVE m.of \in Gone
    BY MeterSets
  <2>2. \A m \in eventLog : m.of \in Exchanges /\ m.of # x
    BY <2>1 DEF Gone
  <2> QED
    BY <1>1, <2>2 DEF HttpInv, MeteredOnce
<1>8. MeteredOnce'
  <2>1. /\ gauge = Cardinality(Inside) /\ {m.of : m \in eventLog} = Gone
        /\ Cardinality(eventLog) = Cardinality(Gone)
        /\ \A class \in StatusClasses : totals[class] = Cardinality(Events(class))
        /\ unhandled = Cardinality(Raised)
    BY MeterSets
  <2>2. /\ gauge' = Cardinality(Inside') /\ {m.of : m \in eventLog'} = Gone'
        /\ Cardinality(eventLog') = Cardinality(Gone')
        /\ \A class \in StatusClasses : totals'[class] = Cardinality(Events(class)')
        /\ unhandled' = Cardinality(Raised')
    BY <1>2, <1>6, <2>1 DEF Events, Raised
  <2> QED
    BY <1>2, <1>7, <2>2 DEF MeteredOnce, Inside, Gone, Events, Raised
<1> QED
  BY <1>1, <1>2, <1>3, <1>4, <1>8 DEF HttpInv

(* One request comes in. *)
LEMMA Arrival ==
    ASSUME HttpInv, NEW x \in Exchanges, NEW e \in Orderly, Becomes(x, e),
           StageOf(x) = "new", e.stage \notin {"new", "done"}, e.since = instant, e.asked = 0,
           gauge' = gauge + 1, UNCHANGED <<totals, unhandled, eventLog, instant>>, ReportTrue'
    PROVE  HttpInv'
<1>1. /\ exchange' \in [Exchanges -> Orderly] /\ exchange'[x] = e
      /\ \A y \in Exchanges : y # x => exchange'[y] = exchange[y]
  BY DEF HttpInv, Becomes
<1>3. \A y \in Exchanges : exchange'[y].since <= instant' /\ exchange'[y].asked <= instant'
  <2>1. instant' = instant /\ instant \in Nat
    BY HttpAssumption DEF HttpInv, Instants
  <2>2. \A y \in Exchanges : exchange[y].since <= instant /\ exchange[y].asked <= instant
    BY DEF HttpInv
  <2>3. e.since <= instant /\ e.asked <= instant
    BY <2>1
  <2>4. ASSUME NEW y \in Exchanges
        PROVE  exchange'[y].since <= instant /\ exchange'[y].asked <= instant
    BY <1>1, <2>2, <2>3
  <2> QED
    BY <2>1, <2>4
<1>4. WrongBytesNoticed'
  BY <1>1 DEF HttpInv, WrongBytesNoticed
<1>6. Inside' = Inside \cup {x} /\ x \notin Inside /\ Gone' = Gone
  BY <1>1 DEF Inside, Gone, StageOf
<1>7. \A m \in eventLog : exchange'[m.of].status \in {m.class, "none"}
  <2>1. ASSUME NEW m \in eventLog PROVE m.of \in Gone
    BY MeterSets
  <2>2. \A m \in eventLog : m.of \in Exchanges /\ m.of # x
    BY <2>1 DEF Gone
  <2> QED
    BY <1>1, <2>2 DEF HttpInv, MeteredOnce
<1>8. MeteredOnce'
  <2>1. /\ gauge = Cardinality(Inside) /\ {m.of : m \in eventLog} = Gone
        /\ Cardinality(eventLog) = Cardinality(Gone)
        /\ \A class \in StatusClasses : totals[class] = Cardinality(Events(class))
        /\ unhandled = Cardinality(Raised)
    BY MeterSets
  <2>2. Cardinality(Inside') = Cardinality(Inside) + 1
    BY <1>6, MeterSets, FS_AddElement
  <2>3. /\ gauge' = Cardinality(Inside') /\ {m.of : m \in eventLog'} = Gone'
        /\ Cardinality(eventLog') = Cardinality(Gone')
        /\ \A class \in StatusClasses : totals'[class] = Cardinality(Events(class)')
        /\ unhandled' = Cardinality(Raised')
    BY <1>6, <2>1, <2>2 DEF Events, Raised
  <2> QED
    BY <1>7, <2>3 DEF MeteredOnce, Inside, Gone, Events, Raised
<1>9. gauge' \in Nat
  BY DEF HttpInv
<1> QED
  BY <1>1, <1>3, <1>4, <1>8, <1>9 DEF HttpInv

(* One request leaves, and is metered. *)
LEMMA Departure ==
    ASSUME HttpInv, NEW x \in Exchanges, NEW e \in Orderly, Becomes(x, e),
           StageOf(x) \notin {"new", "done"}, e.stage = "done", e.since = 0, e.asked = 0,
           NEW class \in StatusClasses, NEW outcome \in {"completed", "unhandled_exception"},
           Metered(x, class, outcome), e.status \in {class, "none"},
           unhandled' = IF outcome = "completed" THEN unhandled ELSE unhandled + 1,
           e.sent = ObjectSize /\ ~e.intact /\ ~e.left =>
              class = "2xx" /\ outcome = "unhandled_exception",
           UNCHANGED instant, ReportTrue'
    PROVE  HttpInv'
<1>1. /\ exchange' \in [Exchanges -> Orderly] /\ exchange'[x] = e
      /\ \A y \in Exchanges : y # x => exchange'[y] = exchange[y]
  BY DEF HttpInv, Becomes
<1> DEFINE new == [of |-> x, class |-> class, outcome |-> outcome]
<1>2. /\ gauge' = gauge - 1 /\ totals' = [totals EXCEPT ![class] = @ + 1]
      /\ eventLog' = eventLog \cup {new}
  BY DEF Metered, Logged
<1>3. new.of = x /\ new.class = class /\ new.outcome = outcome
  OBVIOUS
<1>0. new \in [of : Exchanges, class : StatusClasses,
                outcome : {"completed", "unhandled_exception"}]
  OBVIOUS
<1>4. WrongBytesNoticed'
  <2>1. ASSUME NEW y \in Exchanges,
               exchange'[y].stage = "done", exchange'[y].sent = ObjectSize,
               ~exchange'[y].intact, ~exchange'[y].left
        PROVE  [of |-> y, class |-> "2xx", outcome |-> "unhandled_exception"] \in eventLog'
    <3>1. CASE y = x
      BY <1>1, <1>2, <2>1, <3>1
    <3>2. CASE y # x
      BY <1>1, <1>2, <2>1, <3>2 DEF HttpInv, WrongBytesNoticed
    <3> QED
      BY <3>1, <3>2
  <2> QED
    BY <2>1 DEF WrongBytesNoticed
<1> HIDE DEF new
<1>5. \A m \in eventLog : m.of \in Exchanges /\ m.of # x
  BY MeterSets DEF Gone
<1>6. /\ Inside' = Inside \ {x} /\ x \in Inside
      /\ Gone' = Gone \cup {x} /\ x \notin Gone
  BY <1>1 DEF Inside, Gone, StageOf
<1>7. \A m \in eventLog' : exchange'[m.of].status \in {m.class, "none"}
  BY <1>1, <1>2, <1>3, <1>5 DEF HttpInv, MeteredOnce
<1>8. new \notin eventLog
  BY <1>3, <1>5
<1>9. /\ Cardinality(Inside') = Cardinality(Inside) - 1
      /\ Cardinality(Gone') = Cardinality(Gone) + 1
      /\ Cardinality(eventLog') = Cardinality(eventLog) + 1
      /\ IsFiniteSet(eventLog')
  <2>1. IsFiniteSet(eventLog)
    BY DEF HttpInv
  <2>2. Cardinality(Inside') = Cardinality(Inside) - 1
    BY <1>6, MeterSets, FS_RemoveElement
  <2>3. Cardinality(Gone') = Cardinality(Gone) + 1
    BY <1>6, MeterSets, FS_AddElement
  <2>4. Cardinality(eventLog') = Cardinality(eventLog) + 1 /\ IsFiniteSet(eventLog')
    BY <1>2, <1>8, <2>1, FS_AddElement
  <2> QED
    BY <2>2, <2>3, <2>4
<1>10. {m.of : m \in eventLog'} = Gone'
  BY <1>2, <1>3, <1>6, MeterSets
<1>11. \A k \in StatusClasses : totals'[k] = Cardinality(Events(k)')
  <2>1. ASSUME NEW k \in StatusClasses
        PROVE  totals'[k] = Cardinality(Events(k)')
    <3>1. CASE k = class
      <4>1. Events(k)' = Events(k) \cup {new} /\ new \notin Events(k)
        BY <1>2, <1>3, <1>8, <3>1 DEF Events
      <4>2. Cardinality(Events(k)') = Cardinality(Events(k)) + 1
        BY <4>1, MeterSets, FS_AddElement
      <4> QED
        BY <1>2, <3>1, <4>2, MeterSets DEF HttpInv
    <3>2. CASE k # class
      <4>1. Events(k)' = Events(k)
        BY <1>2, <1>3, <3>2 DEF Events
      <4> QED
        BY <1>2, <3>2, <4>1, MeterSets DEF HttpInv
    <3> QED
      BY <3>1, <3>2
  <2> QED
    BY <2>1
<1>12. unhandled' = Cardinality(Raised')
  <2>1. CASE outcome = "completed"
    <3>1. Raised' = Raised
      BY <1>2, <1>3, <2>1 DEF Raised
    <3> QED
      BY <2>1, <3>1, MeterSets
  <2>2. CASE outcome = "unhandled_exception"
    <3>1. Raised' = Raised \cup {new} /\ new \notin Raised
      BY <1>2, <1>3, <1>8, <2>2 DEF Raised
    <3>2. Cardinality(Raised') = Cardinality(Raised) + 1
      BY <3>1, MeterSets, FS_AddElement
    <3> QED
      BY <2>2, <3>2, MeterSets
  <2> QED
    BY <2>1, <2>2
<1>13. MeteredOnce'
  <2>1. gauge' = Cardinality(Inside') /\ Cardinality(eventLog') = Cardinality(Gone')
    BY <1>2, <1>9, MeterSets
  <2> QED
    BY <1>7, <1>10, <1>11, <1>12, <2>1 DEF MeteredOnce, Inside, Gone, Events, Raised
<1>14. gauge' \in Nat /\ totals' \in [StatusClasses -> Nat] /\ unhandled' \in Nat
  <2>1. IsFiniteSet(Inside')
    BY <1>6, MeterSets, FS_RemoveElement
  <2>2. gauge' = Cardinality(Inside')
    BY <1>2, <1>9, MeterSets
  <2>3. gauge' \in Nat
    BY <2>1, <2>2, FS_CardinalityType
  <2> QED
    BY <1>2, <2>3 DEF HttpInv
<1>15. \A y \in Exchanges : exchange'[y].since <= instant' /\ exchange'[y].asked <= instant'
  <2>1. instant' = instant /\ instant \in Nat
    BY HttpAssumption DEF HttpInv, Instants
  <2>2. \A y \in Exchanges : exchange[y].since <= instant /\ exchange[y].asked <= instant
    BY DEF HttpInv
  <2>3. e.since <= instant /\ e.asked <= instant
    BY <2>1
  <2>4. ASSUME NEW y \in Exchanges
        PROVE  exchange'[y].since <= instant /\ exchange'[y].asked <= instant
    BY <1>1, <2>2, <2>3
  <2> QED
    BY <2>1, <2>4
<1>16. eventLog' \subseteq [of : Exchanges, class : StatusClasses,
                            outcome : {"completed", "unhandled_exception"}]
  BY <1>0, <1>2 DEF HttpInv
<1> QED
  BY <1>1, <1>4, <1>9, <1>13, <1>14, <1>15, <1>16 DEF HttpInv

-----------------------------------------------------------------------------
(* What one action does to a request *)

(* A request that goes elsewhere, the rest of it as it was *)
LEMMA Views ==
    ASSUME HttpInv, NEW x \in Exchanges
    PROVE  /\ exchange[x] \in ExchangeStates /\ InOrder(exchange[x])
           /\ exchange[x].since <= instant /\ exchange[x].asked <= instant
           /\ instant \in Instants
           /\ NotSeen \in CapabilityViews
           /\ \A c \in Checks : ~NotSeen[c].known
           /\ 0 \in Instants /\ MaxBytes \in Nat \ {0} /\ ObjectSize \in Nat \ {0}
           /\ LastInstant \in Nat /\ CapabilitySeconds \in Nat /\ 0 \in 0..MaxBytes /\ 0 \in 0..ObjectSize
<1>1. /\ exchange[x] \in Orderly /\ instant \in Instants
      /\ exchange[x].since <= instant /\ exchange[x].asked <= instant
  BY DEF HttpInv
<1> QED
  BY <1>1, HttpAssumption DEF Orderly, NotSeen, CapabilityViews, Instants

(* A new request is orderly, whatever it asks for. *)
LEMMA ReceiveRequestKeeps ==
    ASSUME HttpInv, NEW x \in Exchanges, ReceiveRequest(x)
    PROVE  HttpInv'
<1>1. /\ StageOf(x) = "new" /\ gauge' = gauge + 1
      /\ UNCHANGED <<totals, unhandled, eventLog, instant>> /\ report' = report
  BY DEF ReceiveRequest, probe
<1>2. ReportTrue'
  BY <1>1 DEF HttpInv, ReportTrue
<1>3. PICK kind \in {"ready", "write", "download"} :
         LET came == [NoExchange EXCEPT !.kind = kind, !.since = instant] IN
         \/ Becomes(x, TooLarge(came))
         \/ Becomes(x, [came EXCEPT !.stage = CASE kind = "ready" -> "asking"
                                                [] kind = "write" -> "buffering"
                                                [] kind = "download" -> "guarding"])
  BY DEF ReceiveRequest
<1> DEFINE came == [NoExchange EXCEPT !.kind = kind, !.since = instant]
           stage == CASE kind = "ready" -> "asking"
                      [] kind = "write" -> "buffering"
                      [] kind = "download" -> "guarding"
           big == TooLarge(came)
           fits == [came EXCEPT !.stage = stage]
<1>4. /\ big \in ExchangeStates /\ big.stage = "responding" /\ big.since = instant /\ big.asked = 0
      /\ big.sent = 0 /\ big.seen = NotSeen
  BY Views DEF TooLarge, NoExchange, ExchangeStates, HttpStages, StatusClasses
<1>5. big \in Orderly
  BY <1>4, Views DEF Orderly, InOrder, FreshAnswer, FoundSince
<1>6. /\ fits \in ExchangeStates /\ fits.since = instant /\ fits.asked = 0 /\ fits.kind = kind
      /\ fits.stage \in {"asking", "buffering", "guarding"}
      /\ fits.stage = "asking" => kind = "ready"
      /\ fits.stage # "asking" => kind # "ready"
      /\ fits.sent = 0 /\ fits.status = "none" /\ fits.seen = NotSeen
  BY Views DEF NoExchange, ExchangeStates, HttpStages, StatusClasses
<1>7. fits \in Orderly
  BY <1>6, Views DEF Orderly, InOrder, Probing
<1>8. Becomes(x, big) \/ Becomes(x, fits)
  BY <1>3
<1> HIDE DEF big, fits
<1>9. CASE Becomes(x, big)
  BY <1>1, <1>2, <1>4, <1>5, <1>9, Arrival
<1>10. CASE Becomes(x, fits)
  BY <1>1, <1>2, <1>6, <1>7, <1>10, Arrival
<1> QED
  BY <1>8, <1>9, <1>10

(* One message of a body *)
LEMMA ReceiveBodyKeeps ==
    ASSUME HttpInv, NEW x \in Exchanges, ReceiveBody(x)
    PROVE  HttpInv'
<1>1. /\ StageOf(x) = "buffering" /\ UNCHANGED <<meters, instant>> /\ report' = report
  BY DEF ReceiveBody, OnlyExchange, probe
<1>2. ReportTrue'
  BY <1>1 DEF HttpInv, ReportTrue
<1>3. PICK size \in 0..(MaxBytes + 1), more \in BOOLEAN :
         LET got == exchange[x].got + size IN
         IF got > MaxBytes THEN WillAnswer(x, "4xx")
         ELSE Becomes(x, [exchange[x] EXCEPT !.got = got,
                                             !.stage = IF more THEN "buffering" ELSE "guarding"])
  BY DEF ReceiveBody
<1>4. CASE WillAnswer(x, "4xx")
  <2>1. PICK e : e = [exchange[x] EXCEPT !.stage = "responding", !.status = "4xx"]
    OBVIOUS
  <2>4. e \in ExchangeStates
    BY <2>1, Views DEF ExchangeStates, HttpStages, StatusClasses
  <2>5. /\ e.stage = "responding" /\ e.since = exchange[x].since /\ e.asked = exchange[x].asked
        /\ e.kind = exchange[x].kind /\ e.sent = exchange[x].sent
    BY <2>1, Views DEF ExchangeStates
  <2>6. exchange[x].kind # "ready" /\ exchange[x].sent = 0
    BY <1>1, Views DEF InOrder, StageOf
  <2>2. e \in Orderly /\ e.stage = "responding" /\ e.since = exchange[x].since /\ e.asked = exchange[x].asked
    BY <2>4, <2>5, <2>6 DEF Orderly, InOrder
  <2>3. Becomes(x, e)
    BY <1>4, <2>1 DEF WillAnswer
  <2> QED
    BY <1>1, <1>2, <2>2, <2>3, StepInside
<1>5. CASE /\ exchange[x].got + size <= MaxBytes
           /\ Becomes(x, [exchange[x] EXCEPT !.got = exchange[x].got + size,
                                             !.stage = IF more THEN "buffering" ELSE "guarding"])
  <2>1. PICK e : e = [exchange[x] EXCEPT !.got = exchange[x].got + size,
                                         !.stage = IF more THEN "buffering" ELSE "guarding"]
    OBVIOUS
  <2>2. exchange[x].got + size \in 0..MaxBytes
    BY <1>5, Views DEF ExchangeStates
  <2>4. e \in ExchangeStates
    <3> DEFINE stage == IF more THEN "buffering" ELSE "guarding"
               got == exchange[x].got + size
    <3>1. stage \in HttpStages /\ got \in 0..MaxBytes
      BY <2>2 DEF HttpStages
    <3>2. e = [exchange[x] EXCEPT !.got = got, !.stage = stage]
      BY <2>1
    <3>3. exchange[x] \in ExchangeStates
      BY Views
    <3> HIDE DEF stage, got
    <3> QED
      BY ONLY <3>1, <3>2, <3>3 DEF ExchangeStates
  <2>5. /\ e.stage \in {"buffering", "guarding"} /\ e.since = exchange[x].since /\ e.asked = exchange[x].asked
        /\ e.kind = exchange[x].kind /\ e.sent = exchange[x].sent
    BY <2>1, Views DEF ExchangeStates
  <2>6. exchange[x].kind # "ready" /\ exchange[x].sent = 0
    BY <1>1, Views DEF InOrder, StageOf
  <2>3. e \in Orderly /\ e.stage \notin {"new", "done"} /\ e.since = exchange[x].since /\ e.asked = exchange[x].asked
    BY <2>4, <2>5, <2>6 DEF Orderly, InOrder
  <2> QED
    BY <1>1, <1>2, <1>5, <2>1, <2>3, StepInside
<1>6. exchange[x].got + size \in Int /\ MaxBytes \in Int
  BY Views DEF ExchangeStates
<1> QED
  BY <1>3, <1>4, <1>5, <1>6

(* The fields of a request that a move leaves *)
SameBut(e, f) ==
    /\ e.kind = f.kind /\ e.since = f.since /\ e.got = f.got
    /\ e.sent = f.sent /\ e.intact = f.intact /\ e.seen = f.seen
    /\ e.asked = f.asked /\ e.decided = f.decided

(* A request that goes elsewhere *)
LEMMA GoesSomewhere ==
    ASSUME HttpInv, NEW x \in Exchanges, NEW stage \in HttpStages, GoesTo(x, stage)
    PROVE  \E e \in ExchangeStates :
             /\ Becomes(x, e) /\ SameBut(e, exchange[x]) /\ e.left = exchange[x].left
             /\ e.stage = stage /\ e.status = exchange[x].status
<1> DEFINE e == [exchange[x] EXCEPT !.stage = stage]
<1>1. e \in ExchangeStates
  BY Views DEF ExchangeStates
<1>2. /\ SameBut(e, exchange[x]) /\ e.left = exchange[x].left
      /\ e.stage = stage /\ e.status = exchange[x].status
  BY Views DEF ExchangeStates, SameBut
<1>3. Becomes(x, e)
  BY DEF GoesTo
<1> HIDE DEF e
<1> QED
  BY <1>1, <1>2, <1>3

(* A request that gets its answer *)
LEMMA AnswersSomething ==
    ASSUME HttpInv, NEW x \in Exchanges, NEW class \in StatusClasses, WillAnswer(x, class)
    PROVE  \E e \in ExchangeStates :
             /\ Becomes(x, e) /\ SameBut(e, exchange[x]) /\ e.left = exchange[x].left
             /\ e.stage = "responding" /\ e.status = class
<1> DEFINE e == [exchange[x] EXCEPT !.stage = "responding", !.status = class]
<1>1. e \in ExchangeStates
  BY Views DEF ExchangeStates, HttpStages
<1>2. /\ SameBut(e, exchange[x]) /\ e.left = exchange[x].left
      /\ e.stage = "responding" /\ e.status = class
  BY Views DEF ExchangeStates, SameBut
<1>3. Becomes(x, e)
  BY DEF WillAnswer
<1> HIDE DEF e
<1> QED
  BY <1>1, <1>2, <1>3

(* A request that is no readiness request gets an answer before its body. *)
LEMMA AnswerKeeps ==
    ASSUME HttpInv, NEW x \in Exchanges, NEW class \in StatusClasses, WillAnswer(x, class),
           StageOf(x) \in {"buffering", "guarding", "handling", "opening"}, OnlyExchange
    PROVE  HttpInv'
<1>1. /\ UNCHANGED <<meters, instant>> /\ ReportTrue' /\ StageOf(x) \notin {"new", "done"}
      /\ exchange[x].kind # "ready" /\ exchange[x].sent = 0
  BY Views DEF OnlyExchange, probe, HttpInv, ReportTrue, InOrder, StageOf
<1>2. PICK e \in ExchangeStates :
             /\ Becomes(x, e) /\ SameBut(e, exchange[x])
             /\ e.stage = "responding" /\ e.status = class
  BY AnswersSomething
<1>3. e \in Orderly /\ e.since = exchange[x].since /\ e.asked = exchange[x].asked /\ e.stage \notin {"new", "done"}
  BY <1>1, <1>2 DEF SameBut, Orderly, InOrder
<1> QED
  BY <1>1, <1>2, <1>3, StepInside

(* Such a request goes on to its handler, or its handler fails. *)
LEMMA GoOnKeeps ==
    ASSUME HttpInv, NEW x \in Exchanges, NEW stage \in {"handling", "opening", "raising"},
           GoesTo(x, stage), OnlyExchange,
           StageOf(x) \in {"buffering", "guarding", "handling", "opening"}
    PROVE  HttpInv'
<1>1. /\ UNCHANGED <<meters, instant>> /\ ReportTrue' /\ StageOf(x) \notin {"new", "done"}
      /\ exchange[x].kind # "ready" /\ exchange[x].sent = 0
  BY Views DEF OnlyExchange, probe, HttpInv, ReportTrue, InOrder, StageOf
<1>2. PICK e \in ExchangeStates :
             /\ Becomes(x, e) /\ SameBut(e, exchange[x]) /\ e.stage = stage
  BY GoesSomewhere DEF HttpStages
<1>3. e \in Orderly /\ e.since = exchange[x].since /\ e.asked = exchange[x].asked /\ e.stage \notin {"new", "done"}
  BY <1>1, <1>2 DEF SameBut, Orderly, InOrder
<1> QED
  BY <1>1, <1>2, <1>3, StepInside

(* The guards refuse a request or let it through. *)
LEMMA GuardKeeps ==
    ASSUME HttpInv, NEW x \in Exchanges, Guard(x)
    PROVE  HttpInv'
<1>1. StageOf(x) = "guarding" /\ OnlyExchange
  BY DEF Guard
<1>2. \/ \E class \in StatusClasses : WillAnswer(x, class)
      \/ \E stage \in {"handling", "opening"} : GoesTo(x, stage)
  BY DEF Guard, Refusals, StatusClasses
<1> QED
  BY <1>1, <1>2, AnswerKeeps, GoOnKeeps

(* A handler answers or raises. *)
LEMMA HandleKeeps ==
    ASSUME HttpInv, NEW x \in Exchanges, Handle(x)
    PROVE  HttpInv'
<1> QED
  BY AnswerKeeps, GoOnKeeps DEF Handle

-----------------------------------------------------------------------------
(* Readiness *)

(* A decision rests on the findings it is made from. *)
LEMMA DecideKeeps ==
    ASSUME HttpInv, NEW x \in Exchanges, NEW seen \in CapabilityViews, Decide(x, seen),
           StageOf(x) \in {"asking", "probing"},
           FoundSince(seen, instant - CapabilitySeconds) \/ FoundSince(seen, exchange[x].since),
           UNCHANGED <<meters, instant>>, ReportTrue'
    PROVE  HttpInv'
<1> DEFINE class == IF \A c \in Checks : seen[c].has THEN "2xx" ELSE "5xx"
           e == [exchange[x] EXCEPT !.stage = "responding", !.seen = seen,
                                    !.decided = instant, !.status = class]
<1>1. class \in StatusClasses
  BY DEF StatusClasses
<1> HIDE DEF class
<1>2. e \in ExchangeStates
  BY <1>1, Views DEF ExchangeStates, HttpStages
<1>3. /\ e.stage = "responding" /\ e.seen = seen /\ e.decided = instant
      /\ e.since = exchange[x].since /\ e.asked = exchange[x].asked /\ e.sent = exchange[x].sent
  BY Views DEF ExchangeStates
<1>4. Becomes(x, e)
  BY DEF Decide, class
<1> HIDE DEF e
<1>5. exchange[x].sent = 0 /\ StageOf(x) \notin {"new", "done"}
  BY Views DEF InOrder, Probing, StageOf
<1>6. FreshAnswer(e)
  BY <1>3 DEF FreshAnswer
<1>7. e \in Orderly
  BY <1>2, <1>3, <1>5, <1>6 DEF Orderly, InOrder
<1> QED
  BY <1>3, <1>4, <1>5, <1>7, StepInside

(* A report that is reused is as fresh as the cache may be. *)
LEMMA AskReportKeeps ==
    ASSUME HttpInv, NEW x \in Exchanges, AskReport(x)
    PROVE  HttpInv'
<1>1. /\ StageOf(x) = "asking" /\ UNCHANGED <<meters, instant>> /\ report' = report
  BY DEF AskReport
<1>2. ReportTrue'
  BY <1>1 DEF HttpInv, ReportTrue
<1>3. CASE Reusable /\ Decide(x, report.seen)
  <2>1. /\ report.seen \in CapabilityViews /\ report.at \in Instants
        /\ FoundSince(report.seen, report.at) /\ instant - report.at <= CapabilitySeconds
    BY <1>3 DEF HttpInv, ReportTrue, Reusable
  <2>2. ASSUME NEW c \in Checks, report.seen[c].known
        PROVE  report.seen[c].at >= instant - CapabilitySeconds
    <3>1. report.seen[c].at >= report.at /\ report.seen[c].at \in Instants
      BY <2>1, <2>2 DEF FoundSince, CapabilityViews, Instants
    <3> QED
      BY <2>1, <3>1, Views DEF Instants
  <2>3. FoundSince(report.seen, instant - CapabilitySeconds)
    BY <2>2 DEF FoundSince
  <2> QED
    BY <1>1, <1>2, <1>3, <2>1, <2>3, DecideKeeps
<1>4. CASE Becomes(x, [exchange[x] EXCEPT !.stage = "probing", !.asked = instant])
  <2> DEFINE e == [exchange[x] EXCEPT !.stage = "probing", !.asked = instant]
  <2>1. e \in ExchangeStates
    BY Views DEF ExchangeStates, HttpStages
  <2>2. /\ e.stage = "probing" /\ e.asked = instant /\ e.since = exchange[x].since
        /\ e.kind = exchange[x].kind /\ e.status = exchange[x].status
        /\ e.sent = exchange[x].sent /\ e.seen = exchange[x].seen
    BY Views DEF ExchangeStates
  <2>3. Becomes(x, e)
    BY <1>4
  <2> HIDE DEF e
  <2>4. Probing(exchange[x]) /\ FoundSince(exchange[x].seen, instant)
    BY <1>1, Views DEF InOrder, StageOf, FoundSince
  <2>5. e \in Orderly
    BY <2>1, <2>2, <2>4, Views DEF Orderly, InOrder, Probing, Instants, ExchangeStates
  <2> QED
    BY <1>1, <1>2, <2>2, <2>3, <2>5, StepInside
<1> QED
  BY <1>3, <1>4 DEF AskReport

(* A finding made now is as young as the probe. *)
LEMMA ProbeCapabilityKeeps ==
    ASSUME HttpInv, MachineTrue, NEW x \in Exchanges, NEW c \in Checks, ProbeCapability(x, c)
    PROVE  HttpInv'
<1>1. /\ StageOf(x) = "probing" /\ UNCHANGED <<meters, instant>> /\ ReportTrue'
  BY DEF ProbeCapability, OnlyExchange, probe, HttpInv, ReportTrue
<1> DEFINE finding == [known |-> TRUE, has |-> machine[c] , at |-> instant]
           seen == [exchange[x].seen EXCEPT ![c] = finding]
           e == [exchange[x] EXCEPT !.seen = seen]
<1>0. machine[c] \in BOOLEAN
  BY DEF MachineTrue
<1>2. exchange[x].seen \in CapabilityViews /\ finding \in [known : BOOLEAN, has : BOOLEAN, at : Instants]
  BY <1>0, Views DEF ExchangeStates
<1>3. seen \in CapabilityViews
  BY <1>2 DEF CapabilityViews, Instants
<1>4. FoundSince(exchange[x].seen, exchange[x].asked) /\ exchange[x].asked <= instant
  BY <1>1, Views DEF InOrder, StageOf
<1>5. ASSUME NEW d \in Checks, seen[d].known PROVE seen[d].at >= exchange[x].asked
  <2>1. CASE d = c
    BY <1>2, <1>4, <2>1, Views DEF CapabilityViews, ExchangeStates, Instants
  <2>2. CASE d # c
    BY <1>2, <1>4, <1>5, <2>2 DEF CapabilityViews, FoundSince
  <2> QED
    BY <2>1, <2>2
<1>6. FoundSince(seen, exchange[x].asked)
  BY <1>5 DEF FoundSince
<1> HIDE DEF seen
<1>7. e \in ExchangeStates
  BY <1>3, Views DEF ExchangeStates
<1>8. /\ e.stage = "probing" /\ e.asked = exchange[x].asked /\ e.since = exchange[x].since
      /\ e.kind = exchange[x].kind /\ e.status = exchange[x].status
      /\ e.sent = exchange[x].sent /\ e.seen = seen
  BY <1>1, Views DEF ExchangeStates, StageOf
<1>9. Becomes(x, e)
  BY DEF ProbeCapability, Becomes, seen
<1> HIDE DEF e
<1>10. Probing(exchange[x]) /\ exchange[x].asked >= exchange[x].since
  BY <1>1, Views DEF InOrder, StageOf
<1>11. e \in Orderly
  BY <1>6, <1>7, <1>8, <1>10, <1>4 DEF Orderly, InOrder, Probing
<1> QED
  BY <1>1, <1>8, <1>9, <1>11, StepInside

(* A report is as old as its probe's beginning. *)
LEMMA FinishProbeKeeps ==
    ASSUME HttpInv, NEW x \in Exchanges, FinishProbe(x)
    PROVE  HttpInv'
<1>1. /\ StageOf(x) = "probing" /\ UNCHANGED <<meters, instant>> /\ Decide(x, exchange[x].seen)
      /\ report' = [made |-> TRUE, at |-> exchange[x].asked, seen |-> exchange[x].seen]
  BY DEF FinishProbe, Stamp
<1>2. /\ exchange[x].seen \in CapabilityViews /\ exchange[x].asked \in Instants
      /\ exchange[x].since \in Instants /\ exchange[x].asked >= exchange[x].since
      /\ FoundSince(exchange[x].seen, exchange[x].asked)
  BY <1>1, Views DEF ExchangeStates, InOrder, StageOf
<1>3. FoundSince(exchange[x].seen, exchange[x].since)
  BY <1>2 DEF FoundSince, CapabilityViews, Instants
<1>4. ReportTrue'
  <2>1. report'.made /\ report'.at = exchange[x].asked /\ report'.seen = exchange[x].seen
    BY <1>1
  <2>2. report' \in [made : BOOLEAN, at : Instants, seen : CapabilityViews]
    BY <1>1, <1>2
  <2> QED
    BY <1>2, <2>1, <2>2 DEF ReportTrue, FoundSince
<1> QED
  BY <1>1, <1>2, <1>3, <1>4, DecideKeeps

(* A check that raises leaves the report. *)
LEMMA ProbeBreaksKeeps ==
    ASSUME HttpInv, NEW x \in Exchanges, ProbeBreaks(x)
    PROVE  HttpInv'
<1>1. /\ StageOf(x) = "probing" /\ UNCHANGED <<meters, instant>> /\ ReportTrue'
      /\ GoesTo(x, "raising") /\ Probing(exchange[x])
  BY Views DEF ProbeBreaks, HttpInv, ReportTrue, InOrder, StageOf
<1>2. PICK e \in ExchangeStates :
             /\ Becomes(x, e) /\ SameBut(e, exchange[x]) /\ e.stage = "raising"
             /\ e.status = exchange[x].status
  BY <1>1, GoesSomewhere DEF HttpStages
<1>3. e \in Orderly /\ e.since = exchange[x].since /\ e.asked = exchange[x].asked /\ e.stage \notin {"new", "done"}
  BY <1>1, <1>2 DEF SameBut, Orderly, InOrder, Probing
<1> QED
  BY <1>1, <1>2, <1>3, StepInside

-----------------------------------------------------------------------------
(* Downloads *)

(* A download opens with its descriptor, or is refused. *)
LEMMA OpenDownloadKeeps ==
    ASSUME HttpInv, NEW x \in Exchanges, OpenDownload(x)
    PROVE  HttpInv'
<1>1. /\ StageOf(x) = "opening" /\ OnlyExchange /\ UNCHANGED <<meters, instant>> /\ ReportTrue'
      /\ exchange[x].kind # "ready" /\ exchange[x].sent = 0
  BY Views DEF OpenDownload, OnlyExchange, probe, HttpInv, ReportTrue, InOrder, StageOf
<1>2. CASE \E class \in {"4xx", "5xx"} : WillAnswer(x, class)
  BY <1>1, <1>2, AnswerKeeps DEF StatusClasses
<1>3. CASE Becomes(x, [exchange[x] EXCEPT !.stage = "streaming", !.status = "2xx",
                                          !.secured = TRUE])
  <2> DEFINE e == [exchange[x] EXCEPT !.stage = "streaming", !.status = "2xx",
                                      !.secured = TRUE]
  <2>1. e \in ExchangeStates
    BY Views DEF ExchangeStates, HttpStages, StatusClasses
  <2>2. /\ e.stage = "streaming" /\ e.status = "2xx" /\ e.since = exchange[x].since /\ e.asked = exchange[x].asked
        /\ e.kind = exchange[x].kind
    BY Views DEF ExchangeStates
  <2>3. Becomes(x, e)
    BY <1>3
  <2> HIDE DEF e
  <2>4. e \in Orderly
    BY <1>1, <2>1, <2>2 DEF Orderly, InOrder
  <2> QED
    BY <1>1, <2>2, <2>3, <2>4, StepInside DEF StageOf
<1> QED
  BY <1>2, <1>3 DEF OpenDownload

(* A stream that breaks off *)
LEMMA StreamBreaksKeeps ==
    ASSUME HttpInv, NEW x \in Exchanges, StageOf(x) = "streaming", OnlyExchange,
           NEW stage \in {"raising", "streamed"}, GoesTo(x, stage),
           stage = "streamed" => StreamVerified(x)
    PROVE  HttpInv'
<1>1. /\ UNCHANGED <<meters, instant>> /\ ReportTrue'
      /\ exchange[x].kind # "ready" /\ exchange[x].status = "2xx"
  BY Views DEF OnlyExchange, probe, HttpInv, ReportTrue, InOrder, StageOf
<1>2. PICK e \in ExchangeStates :
             /\ Becomes(x, e) /\ SameBut(e, exchange[x]) /\ e.stage = stage
             /\ e.status = exchange[x].status
  BY GoesSomewhere DEF HttpStages
<1>3. e \in Orderly /\ e.since = exchange[x].since /\ e.asked = exchange[x].asked /\ e.stage \notin {"new", "done"}
  BY <1>1, <1>2 DEF SameBut, Orderly, InOrder, StreamVerified
<1> QED
  BY <1>1, <1>2, <1>3, StepInside

(* A chunk goes out, or there is one too many. *)
LEMMA StreamChunkKeeps ==
    ASSUME HttpInv, NEW x \in Exchanges, StreamChunk(x)
    PROVE  HttpInv'
<1>1. /\ StageOf(x) = "streaming" /\ OnlyExchange /\ UNCHANGED <<meters, instant>> /\ ReportTrue'
      /\ exchange[x].kind # "ready" /\ exchange[x].status = "2xx"
  BY Views DEF StreamChunk, OnlyExchange, probe, HttpInv, ReportTrue, InOrder, StageOf
<1>2. CASE GoesTo(x, "raising")
  BY <1>1, <1>2, StreamBreaksKeeps
<1>3. ASSUME exchange[x].sent # ObjectSize, NEW right \in BOOLEAN,
             Becomes(x, [exchange[x] EXCEPT !.sent = @ + 1, !.intact = @ /\ right])
      PROVE  HttpInv'
  <2> DEFINE e == [exchange[x] EXCEPT !.sent = exchange[x].sent + 1,
                                      !.intact = exchange[x].intact /\ right]
  <2>1. exchange[x].sent + 1 \in 0..ObjectSize /\ (exchange[x].intact /\ right) \in BOOLEAN
    BY <1>3, Views DEF ExchangeStates
  <2>2. e \in ExchangeStates
    BY <2>1, Views DEF ExchangeStates
  <2>3. /\ e.stage = "streaming" /\ e.status = "2xx" /\ e.since = exchange[x].since /\ e.asked = exchange[x].asked
        /\ e.kind = exchange[x].kind
    BY <1>1, Views DEF ExchangeStates, StageOf
  <2>4. Becomes(x, e)
    BY <1>3
  <2> HIDE DEF e
  <2>5. e \in Orderly
    BY <1>1, <2>2, <2>3 DEF Orderly, InOrder
  <2> QED
    BY <1>1, <2>3, <2>4, <2>5, StepInside DEF StageOf
<1> QED
  BY <1>2, <1>3 DEF StreamChunk

(* The stream ends where it should, or not. *)
LEMMA EndStreamKeeps ==
    ASSUME HttpInv, NEW x \in Exchanges, EndStream(x)
    PROVE  HttpInv'
<1>1. StageOf(x) = "streaming" /\ OnlyExchange
  BY DEF EndStream
<1>2. \E stage \in {"raising", "streamed"} :
         GoesTo(x, stage) /\ (stage = "streamed" => StreamVerified(x))
  BY DEF EndStream
<1> QED
  BY <1>1, <1>2, StreamBreaksKeeps

(* The client leaves in the middle. *)
LEMMA HangUpKeeps ==
    ASSUME HttpInv, NEW x \in Exchanges, HangUp(x)
    PROVE  HttpInv'
<1>1. /\ StageOf(x) \in {"buffering", "streaming"} /\ UNCHANGED <<meters, instant>> /\ ReportTrue'
      /\ exchange[x].kind # "ready" /\ (StageOf(x) = "buffering" => exchange[x].sent = 0)
  BY Views DEF HangUp, OnlyExchange, probe, HttpInv, ReportTrue, InOrder, StageOf
<1>2. \E e \in ExchangeStates :
         /\ Becomes(x, e) /\ e.kind = exchange[x].kind /\ e.since = exchange[x].since /\ e.asked = exchange[x].asked
         /\ \/ e.stage = "guarding" /\ e.sent = exchange[x].sent /\ StageOf(x) = "buffering"
            \/ e.stage = "streamed" /\ e.left
  <2>1. CASE /\ StageOf(x) = "buffering"
             /\ Becomes(x, [exchange[x] EXCEPT !.stage = "guarding", !.whole = FALSE])
    <3> DEFINE e == [exchange[x] EXCEPT !.stage = "guarding", !.whole = FALSE]
    <3>1. /\ e \in ExchangeStates /\ e.kind = exchange[x].kind /\ e.since = exchange[x].since /\ e.asked = exchange[x].asked
          /\ e.stage = "guarding" /\ e.sent = exchange[x].sent
      BY Views DEF ExchangeStates, HttpStages
    <3>2. Becomes(x, e)
      BY <2>1
    <3> HIDE DEF e
    <3> QED
      BY <2>1, <3>1, <3>2
  <2>2. CASE Becomes(x, [exchange[x] EXCEPT !.stage = "streamed", !.left = TRUE])
    <3> DEFINE e == [exchange[x] EXCEPT !.stage = "streamed", !.left = TRUE]
    <3>1. /\ e \in ExchangeStates /\ e.kind = exchange[x].kind /\ e.since = exchange[x].since /\ e.asked = exchange[x].asked
          /\ e.stage = "streamed" /\ e.left
      BY Views DEF ExchangeStates, HttpStages
    <3>2. Becomes(x, e)
      BY <2>2
    <3> HIDE DEF e
    <3> QED
      BY <3>1, <3>2
  <2> QED
    BY <2>1, <2>2 DEF HangUp
<1>3. PICK e \in ExchangeStates :
         /\ Becomes(x, e) /\ e.kind = exchange[x].kind /\ e.since = exchange[x].since /\ e.asked = exchange[x].asked
         /\ \/ e.stage = "guarding" /\ e.sent = exchange[x].sent /\ StageOf(x) = "buffering"
            \/ e.stage = "streamed" /\ e.left
  BY <1>2
<1>4. e \in Orderly /\ e.stage \notin {"new", "done"}
  BY <1>1, <1>3 DEF Orderly, InOrder
<1> QED
  BY <1>1, <1>3, <1>4, StepInside

-----------------------------------------------------------------------------
(* The way out *)

(* What is left of a request is orderly. *)
LEMMA DepartsOrderly ==
    ASSUME HttpInv, NEW x \in Exchanges, NEW status \in StatusClasses \cup {"none"},
           NEW left \in BOOLEAN, NEW secured \in BOOLEAN, Departs(x, status, left, secured)
    PROVE  \E e \in Orderly :
             /\ Becomes(x, e) /\ e.stage = "done" /\ e.since = 0 /\ e.asked = 0 /\ e.status = status
             /\ e.sent = exchange[x].sent /\ e.intact = exchange[x].intact
             /\ e.left = (exchange[x].left \/ left)
<1> DEFINE f == exchange[x]
           e == [NoExchange EXCEPT !.stage = "done", !.kind = f.kind, !.status = status,
                                   !.sent = f.sent, !.intact = f.intact,
                                   !.left = f.left \/ left, !.secured = f.secured \/ secured]
<1>1. /\ f.kind \in {"none", "ready", "write", "download"} /\ f.sent \in 0..ObjectSize
      /\ f.intact \in BOOLEAN /\ f.left \in BOOLEAN /\ f.secured \in BOOLEAN
  BY Views DEF ExchangeStates
<1>2. e \in ExchangeStates
  <2>1. (f.left \/ left) \in BOOLEAN /\ (f.secured \/ secured) \in BOOLEAN
    BY <1>1
  <2>2. NoExchange \in ExchangeStates
    BY Views DEF NoExchange, ExchangeStates, HttpStages
  <2> DEFINE Rest(kind, sent, intact, l, sec) ==
               [NoExchange EXCEPT !.stage = "done", !.kind = kind, !.status = status,
                                  !.sent = sent, !.intact = intact, !.left = l, !.secured = sec]
  <2>3. ASSUME NEW kind \in {"none", "ready", "write", "download"}, NEW sent \in 0..ObjectSize,
               NEW intact \in BOOLEAN, NEW l \in BOOLEAN, NEW sec \in BOOLEAN
        PROVE  Rest(kind, sent, intact, l, sec) \in ExchangeStates
    BY <2>2 DEF ExchangeStates, HttpStages
  <2>4. PICK l \in BOOLEAN, sec \in BOOLEAN : l = (f.left \/ left) /\ sec = (f.secured \/ secured)
    BY <2>1
  <2>5. e = Rest(f.kind, f.sent, f.intact, l, sec)
    BY <2>4
  <2> HIDE DEF e, f, Rest
  <2>6. Rest(f.kind, f.sent, f.intact, l, sec) \in ExchangeStates
    BY <1>1, <2>3
  <2> QED
    BY <2>5, <2>6
<1>3. /\ e.stage = "done" /\ e.since = 0 /\ e.asked = 0 /\ e.status = status /\ e.seen = NotSeen
      /\ e.sent = exchange[x].sent /\ e.intact = exchange[x].intact
      /\ e.left = (exchange[x].left \/ left)
  BY DEF NoExchange
<1>4. Becomes(x, e)
  BY DEF Departs
<1> HIDE DEF e, f
<1>5. FreshAnswer(e)
  BY <1>3, Views DEF FreshAnswer, FoundSince
<1>6. e \in Orderly
  BY <1>2, <1>3, <1>5 DEF Orderly, InOrder
<1> QED
  BY <1>3, <1>4, <1>6

(* The class the observers saw *)
LEMMA SeenClass ==
    ASSUME HttpInv, NEW x \in Exchanges
    PROVE  /\ Seen(x) \in StatusClasses /\ Seen(x) \in StatusClasses \cup {"none"}
           /\ exchange[x].status \in {Seen(x), "none"}
           /\ exchange[x].status # "none" => Seen(x) = exchange[x].status
BY Views DEF Seen, ExchangeStates, StatusClasses

(* A response ends as it should. *)
LEMMA AnswerLeaves ==
    ASSUME HttpInv, NEW x \in Exchanges, Answer(x)
    PROVE  HttpInv'
<1>1. /\ StageOf(x) \in {"responding", "streamed"} /\ Metered(x, Seen(x), "completed")
      /\ Departs(x, exchange[x].status, FALSE, TRUE) /\ UNCHANGED <<unhandled, instant>>
      /\ ReportTrue'
  BY DEF Answer, probe, HttpInv, ReportTrue
<1>2. exchange[x].status \in StatusClasses \cup {"none"}
  BY Views DEF ExchangeStates
<1>3. PICK e \in Orderly :
             /\ Becomes(x, e) /\ e.stage = "done" /\ e.since = 0 /\ e.asked = 0 /\ e.status = exchange[x].status
             /\ e.sent = exchange[x].sent /\ e.intact = exchange[x].intact
             /\ e.left = (exchange[x].left \/ FALSE)
  BY <1>1, <1>2, DepartsOrderly
<1>4. ~(e.sent = ObjectSize /\ ~e.intact /\ ~e.left)
  BY <1>1, <1>3, Views DEF InOrder, StageOf
<1> QED
  BY <1>1, <1>3, <1>4, SeenClass, Departure

(* What nothing catches leaves, and is counted as that. *)
LEMMA EscapeLeaves ==
    ASSUME HttpInv, NEW x \in Exchanges, Escape(x)
    PROVE  HttpInv'
<1>1. /\ StageOf(x) = "raising" /\ Metered(x, Seen(x), "unhandled_exception")
      /\ Departs(x, Seen(x), FALSE, FALSE) /\ unhandled' = unhandled + 1 /\ instant' = instant
      /\ ReportTrue'
  BY DEF Escape, probe, HttpInv, ReportTrue
<1>2. PICK e \in Orderly :
             /\ Becomes(x, e) /\ e.stage = "done" /\ e.since = 0 /\ e.asked = 0 /\ e.status = Seen(x)
             /\ e.sent = exchange[x].sent /\ e.intact = exchange[x].intact
             /\ e.left = (exchange[x].left \/ FALSE)
  <2>1. Seen(x) \in StatusClasses \cup {"none"} /\ FALSE \in BOOLEAN
    BY SeenClass
  <2> QED
    BY <1>1, <2>1, DepartsOrderly
<1>3. e.sent = ObjectSize => Seen(x) = "2xx"
  BY <1>1, <1>2, SeenClass, Views DEF InOrder, StageOf
<1> QED
  BY <1>1, <1>2, <1>3, SeenClass, Departure

(* A request that the shutdown cancels has left. *)
LEMMA CancelLeaves ==
    ASSUME HttpInv, NEW x \in Exchanges, Cancel(x)
    PROVE  HttpInv'
<1> DEFINE status == IF StageOf(x) = "streaming" THEN "2xx" ELSE "none"
           class == IF StageOf(x) = "streaming" THEN "2xx" ELSE "5xx"
<1>1. /\ StageOf(x) \notin {"new", "done"} /\ Metered(x, class, "completed")
      /\ Departs(x, status, TRUE, FALSE) /\ UNCHANGED <<unhandled, instant>>
      /\ ReportTrue'
  BY DEF Cancel, probe, HttpInv, ReportTrue
<1>2. class \in StatusClasses /\ status \in StatusClasses \cup {"none"} /\ status \in {class, "none"}
  BY DEF StatusClasses
<1> HIDE DEF status, class
<1>3. PICK e \in Orderly :
             /\ Becomes(x, e) /\ e.stage = "done" /\ e.since = 0 /\ e.asked = 0 /\ e.status = status
             /\ e.left = (exchange[x].left \/ TRUE)
  BY <1>1, <1>2, DepartsOrderly
<1> QED
  BY <1>1, <1>2, <1>3, Departure

(* Neither the machine nor the clock touches a request. *)
LEMMA PassesKeeps ==
    ASSUME HttpInv, Passes \/ (\E c \in Checks : MachineChanges(c)) \/ UNCHANGED httpVars
    PROVE  HttpInv'
<1>1. UNCHANGED <<exchange, gauge, totals, unhandled, eventLog, report>>
  BY DEF Passes, MachineChanges, httpVars, meters, probe
<1>2. WrongBytesNoticed' /\ MeteredOnce' /\ ReportTrue'
  BY <1>1 DEF HttpInv, WrongBytesNoticed, MeteredOnce, ReportTrue, StageOf
<1>3. instant' \in Instants /\ instant' >= instant
  BY HttpAssumption DEF HttpInv, Instants, Passes, MachineChanges, httpVars
<1>4. \A x \in Exchanges : exchange[x].since <= instant' /\ exchange[x].asked <= instant'
  BY <1>3, Views DEF HttpInv, Orderly, ExchangeStates, Instants
<1> QED
  BY <1>1, <1>2, <1>3, <1>4 DEF HttpInv

-----------------------------------------------------------------------------
(* A process that has just started *)
LEMMA HttpStarts ==
    ASSUME HttpInit
    PROVE  HttpInv /\ MachineTrue
<1>1. NoExchange \in Orderly
  <2>1. NoExchange \in ExchangeStates
    BY HttpAssumption DEF NoExchange, ExchangeStates, HttpStages, Instants, NotSeen, CapabilityViews
  <2> QED
    BY <2>1 DEF Orderly, InOrder, NoExchange
<1>2. /\ exchange \in [Exchanges -> Orderly] /\ instant \in Instants
      /\ \A x \in Exchanges : exchange[x] = NoExchange
      /\ \A x \in Exchanges : exchange[x].since <= instant /\ exchange[x].asked <= instant
  BY <1>1, HttpAssumption DEF HttpInit, Instants, NoExchange
<1>3. ReportTrue
  BY HttpAssumption DEF HttpInit, ReportTrue, NoReport, NotSeen, CapabilityViews, Instants, FoundSince
<1>4. WrongBytesNoticed
  BY <1>2 DEF WrongBytesNoticed, NoExchange
<1>5. /\ IsFiniteSet({}) /\ Cardinality({}) = 0
  BY FS_EmptySet
<1>6. Inside = {} /\ Gone = {} /\ Raised = {} /\ \A class \in StatusClasses : Events(class) = {}
  BY <1>2 DEF HttpInit, Inside, Gone, Raised, Events, StageOf, NoExchange
<1>7. MeteredOnce
  <2>1. {m.of : m \in eventLog} = {} /\ eventLog = {}
    BY DEF HttpInit
  <2> QED
    BY <1>5, <1>6, <2>1 DEF HttpInit, MeteredOnce, Inside, Gone, Raised, Events
<1> QED
  BY <1>2, <1>3, <1>4, <1>5, <1>7 DEF HttpInv, HttpInit, MachineTrue

(* Only the world changes the machine. *)
LEMMA StillMachine ==
    ASSUME MachineTrue, [HttpNext]_httpVars
    PROVE  MachineTrue'
BY DEF MachineTrue, HttpNext, httpVars, OnlyExchange, ReceiveRequest, ReceiveBody, Guard, Handle,
       AskReport, FinishProbe, ProbeBreaks, OpenDownload, StreamChunk, EndStream, Answer, Escape,
       HangUp, Cancel, ProbeCapability, MachineChanges, Passes

(* Every step keeps the invariant. *)
LEMMA HttpKept ==
    ASSUME HttpInv, MachineTrue, [HttpNext]_httpVars
    PROVE  HttpInv' /\ MachineTrue'
<1>1. CASE \E x \in Exchanges :
             \/ ReceiveRequest(x) \/ ReceiveBody(x) \/ Guard(x) \/ Handle(x)
             \/ AskReport(x) \/ FinishProbe(x) \/ ProbeBreaks(x)
             \/ OpenDownload(x) \/ StreamChunk(x) \/ EndStream(x)
             \/ Answer(x) \/ Escape(x) \/ HangUp(x) \/ Cancel(x)
             \/ \E c \in Checks : ProbeCapability(x, c)
  BY <1>1, ReceiveRequestKeeps, ReceiveBodyKeeps, GuardKeeps, HandleKeeps, AskReportKeeps,
     FinishProbeKeeps, ProbeBreaksKeeps, OpenDownloadKeeps, StreamChunkKeeps, EndStreamKeeps,
     AnswerLeaves, EscapeLeaves, HangUpKeeps, CancelLeaves, ProbeCapabilityKeeps, StillMachine
<1>2. CASE Passes \/ (\E c \in Checks : MachineChanges(c)) \/ UNCHANGED httpVars
  BY <1>2, PassesKeeps, StillMachine
<1> QED
  BY <1>1, <1>2 DEF HttpNext

(* The invariant says what the answers promise. *)
LEMMA InvAnswers ==
    ASSUME HttpInv
    PROVE  AnswersTrue
<1>1. ASSUME NEW x \in Exchanges, NEW c \in Checks, exchange[x].kind = "ready",
             exchange[x].status # "none", exchange[x].seen[c].known
      PROVE  \/ exchange[x].seen[c].at >= exchange[x].decided - CapabilitySeconds
             \/ exchange[x].seen[c].at >= exchange[x].since
  BY <1>1, Views DEF InOrder, FreshAnswer, FoundSince
<1> QED
  BY <1>1 DEF HttpInv, AnswersTrue, ReadinessFresh

(* Whatever the requests, the capabilities and the machine do, a readiness *)
(* answer rests on no stale finding, a whole body of wrong bytes is in the *)
(* log, and the meters account for every request once.                     *)
THEOREM AnswersStayTrue == HttpSpec => []AnswersTrue
<1>1. HttpInit => HttpInv /\ MachineTrue
  BY HttpStarts
<1>2. HttpInv /\ MachineTrue /\ [HttpNext]_httpVars => HttpInv' /\ MachineTrue'
  BY HttpKept
<1>3. HttpInv => AnswersTrue
  BY InvAnswers
<1> QED
  BY <1>1, <1>2, <1>3, PTL DEF HttpSpec

-----------------------------------------------------------------------------
(* Types *)

(* An exchange is at one of its stages, it has sent no more than the       *)
(* object holds and decided by an instant that has come, and the gauge of  *)
(* active requests is never below zero (ApiMetricsMiddleware, ready,       *)
(* ArtifactService.download).                                              *)
THEOREM HttpTypesKept == HttpSpec => []HttpTypeOK
<1>1. HttpInit => prober \in Exchanges \cup {"none"}
  BY DEF HttpInit
<1>2. ASSUME prober \in Exchanges \cup {"none"}, [HttpNext]_httpVars
      PROVE  (prober \in Exchanges \cup {"none"})'
  BY <1>2 DEF HttpNext, ReceiveRequest, ReceiveBody, Guard, Handle, AskReport, FinishProbe, ProbeBreaks,
      OpenDownload, StreamChunk, EndStream, Answer, Escape, HangUp, Cancel, ProbeCapability, MachineChanges,
      Passes, OnlyExchange, probe, httpVars
<1>3. HttpInv /\ MachineTrue /\ prober \in Exchanges \cup {"none"} => HttpTypeOK
  BY DEF HttpInv, MachineTrue, ReportTrue, Orderly, ExchangeStates, HttpStages, Instants, HttpTypeOK
<1>4. HttpInit => HttpInv /\ MachineTrue
  BY HttpStarts
<1>5. HttpInv /\ MachineTrue /\ [HttpNext]_httpVars => HttpInv' /\ MachineTrue'
  BY HttpKept
<1> QED
  BY <1>1, <1>2, <1>3, <1>4, <1>5, PTL DEF HttpSpec

-----------------------------------------------------------------------------
(***************************************************************************)
(* That the web server keeps a session whole: SessionsTrue of WebSession,  *)
(* for every number of requests, tokens and mishaps.                       *)
(*                                                                         *)
(* The lock alone does not give it, since a request that has stopped       *)
(* waiting may still have a command on its way.  The invariant says what   *)
(* such a command can be: LockInv, that whoever works with the record or   *)
(* may still write it has the lock, late commands included; EndInv, that   *)
(* nobody is about to store an ended session; TokenInv, that no record     *)
(* older than a token in use is stored, worked with or on its way; and     *)
(* CalmInv, what the provider accepts as long as nothing was late.         *)
(***************************************************************************)

WebStages == Waiting \cup {"idle", "refresh", "revoke", "done"}
Outcomes == {"none", "ok", "401", "503"}
WebStates == [at : WebStages, kind : WebKinds, seen : SessionRecords \cup {NoSession},
              out : Outcomes, floor : 0..MaxTokens]
Ops == {"lock", "get", "save", "delete", "unlock"}
RedisCommands == [op : Ops, value : SessionRecords \cup {NoSession}]

(* What a request w and the commands s it has on their way to Redis are    *)
(* together: a command is a wait, or was left behind by one that timed out. *)
Saves(s) == s # <<>> /\ Head(s).op = "save"
Writes(s) == s # <<>> /\ Head(s).op \in {"save", "delete"}
Rotates(w) == w.at \in {"refresh", "rotate", "touch"}
WaitsFor(w) == IF w.at \in {"rotate", "touch"} THEN "save" ELSE w.at
WebOrderly(w, s) ==
    /\ Len(s) <= 2
    /\ w.at \in {"idle", "refresh", "revoke"} => s = <<>>
    /\ w.at \in Waiting => s # <<>> /\ s[Len(s)].op = WaitsFor(w)
    /\ w.at \in Waiting \ {"delete", "unlock"} => Len(s) = 1
    /\ w.at = "done" => Len(s) <= 1
    /\ Len(s) = 2 => s[1].op \in {"get", "save", "delete"}
    /\ Saves(s) => s[1].value = w.seen
    /\ Rotates(w) \/ Saves(s) => w.seen # NoSession /\ w.kind = "use"
    /\ w.at = "revoke" => w.kind = "logout" /\ w.out = "ok"
    /\ w.at = "get" => w.kind # "login"
    /\ w.kind = "use" /\ w.out = "ok" => w.at \in {"unlock", "done"} /\ w.seen # NoSession

SharedTypes ==
    /\ stored \in SessionRecords \cup {NoSession}
    /\ lockedFor \in WebRequests \cup {NoHolder}
    /\ grant \in 0..MaxTokens /\ issued \in 1..MaxTokens /\ aged \in 0..MaxTokens
    /\ lapsed \in BOOLEAN /\ ended \in BOOLEAN /\ mishaps \in 0..MaxMishaps

WebTypes ==
    /\ SharedTypes
    /\ web \in [WebRequests -> WebStates]
    /\ wire \in [WebRequests -> Seq(RedisCommands)]
    /\ \A q \in WebRequests : WebOrderly(web[q], wire[q])

(* Who works on the record, or may still write it, has the lock. *)
Holds(w, s) == w.at \in {"get", "refresh", "rotate", "touch", "delete"} \/ Writes(s)
WebLockInv == \A q \in WebRequests : Holds(web[q], wire[q]) => lockedFor = q

(* An ended session is gone, and nobody is about to store it. *)
EndInv == ended => /\ stored = NoSession
                   /\ \A q \in WebRequests : ~Rotates(web[q]) /\ ~Saves(wire[q])

(* No record older than n is there, is worked with or on its way. *)
Above(n) ==
    /\ stored # NoSession => stored.access >= n
    /\ \A q \in WebRequests : Rotates(web[q]) \/ Saves(wire[q]) => web[q].seen.access >= n

TokenInv ==
    /\ stored # NoSession => stored.access <= issued
    /\ \A q \in WebRequests :
          /\ web[q].seen # NoSession => web[q].seen.access <= issued
          /\ Above(web[q].floor)
          /\ web[q].kind = "use" /\ web[q].out = "ok" =>
                Above(web[q].seen.access) /\ web[q].seen.access >= web[q].floor

(* Without mishaps nothing is late, and the provider accepts the token of  *)
(* the record, but for the moment of a rotation.                           *)
CalmRequest(w, s) ==
    /\ s = <<>> <=> w.at \notin Waiting
    /\ Len(s) <= 1
    /\ Rotates(w) => w.seen.refresh = grant
    /\ w.at = "delete" /\ w.kind = "use" => lapsed
    /\ w.kind # "use" /\ w.out = "ok" /\ w.at # "delete" => ended
    /\ w.kind = "logout" /\ w.out = "ok" => grant \in {w.seen.refresh, 0}
    /\ w.kind = "logout" /\ w.out = "ok" /\ w.at = "done" => grant = 0

CalmInv == mishaps = 0 =>
    /\ stored # NoSession => \/ stored.refresh = grant
                             \/ \E q \in WebRequests : web[q].at = "rotate"
    /\ stored = NoSession => ended \/ lapsed
    /\ \A q \in WebRequests : CalmRequest(web[q], wire[q])

WebInv == WebTypes /\ WebLockInv /\ EndInv /\ TokenInv /\ CalmInv

-----------------------------------------------------------------------------
(* Requests and commands. *)

(* The order of the natural numbers *)
LessThan == OpToRel(<, Nat)

(* A set of numbers has a smallest one. *)
LEMMA SmallestOf ==
    ASSUME NEW S \in SUBSET Nat, S # {}
    PROVE  \E n \in S : \A m \in S : n <= m
<1>1. IsWellFoundedOn(LessThan, Nat)
  BY NatLessThanWellFounded DEF LessThan
<1>2. PICK n \in S : \A m \in S : ~(<<m, n>> \in LessThan)
  BY <1>1, WFMin
<1>3. LessThan = {p \in Nat \X Nat : p[1] < p[2]}
  BY DEF LessThan, OpToRel
<1>4. ASSUME NEW m \in S PROVE n <= m
  <2>1. m \in Nat /\ n \in Nat /\ ~(<<m, n>> \in LessThan)
    BY <1>2
  <2>2. ~(m < n)
    BY <1>3, <2>1
  <2> QED
    BY <2>1, <2>2
<1> QED
  BY <1>4

(* A bounded set of numbers has a largest one. *)
LEMMA LargestOf ==
    ASSUME NEW N \in Nat, NEW S \in SUBSET (0..N), S # {}
    PROVE  \E n \in S : \A m \in S : m <= n
<1> DEFINE T == {N - n : n \in S}
<1>0. \A n \in S : n \in Nat /\ n <= N
  OBVIOUS
<1>1. T \subseteq Nat /\ T # {}
  <2>1. \A n \in S : N - n \in Nat
    BY <1>0
  <2> QED
    BY <2>1
<1>2. PICK x \in T : \A y \in T : x <= y
  <2> HIDE DEF T
  <2> QED
    BY <1>1, SmallestOf
<1>3. PICK n \in S : x = N - n
  BY <1>2
<1>4. ASSUME NEW m \in S PROVE m <= n
  <2>1. N - m \in T
    OBVIOUS
  <2>2. N - n <= N - m
    BY <1>2, <1>3, <2>1
  <2> QED
    BY <1>0, <2>2
<1> QED
  BY <1>4

(* What the updates of a request do to its fields. *)
Staged(w, at) == [w EXCEPT !.at = at]
Answering(w, at, out) == [w EXCEPT !.at = at, !.out = out]
Renewed(w, at, seen) == [w EXCEPT !.at = at, !.seen = seen]
Reads(w, seen) == [w EXCEPT !.seen = seen]
Begun(kind, floor) == [Unstarted EXCEPT !.at = "lock", !.kind = kind, !.floor = floor]

WebFields(w, at, kind, seen, out, floor) ==
    /\ w \in WebStates /\ w.at = at /\ w.kind = kind /\ w.seen = seen
    /\ w.out = out /\ w.floor = floor

(* Each update changes the fields it names, and no other. *)
LEMMA StateFields ==
    ASSUME NEW w \in WebStates, NEW at \in WebStages, NEW out \in Outcomes,
           NEW seen \in SessionRecords \cup {NoSession}
    PROVE  /\ WebFields(Staged(w, at), at, w.kind, w.seen, w.out, w.floor)
           /\ WebFields(Answering(w, at, out), at, w.kind, w.seen, out, w.floor)
           /\ WebFields(Renewed(w, at, seen), at, w.kind, seen, w.out, w.floor)
           /\ WebFields(Reads(w, seen), w.at, w.kind, seen, w.out, w.floor)
  BY DEF WebStates, Staged, Answering, Renewed, Reads, WebFields

(* A request as it begins *)
LEMMA StartFields ==
    ASSUME NEW kind \in WebKinds, NEW floor \in 0..MaxTokens
    PROVE  LET u == Begun(kind, floor)
           IN  /\ u \in WebStates /\ u.at = "lock" /\ u.kind = kind
               /\ u.seen = NoSession /\ u.out = "none" /\ u.floor = floor
<1>1. Unstarted \in WebStates /\ Unstarted.seen = NoSession /\ Unstarted.out = "none"
  BY WebAssumption DEF Unstarted, WebStates, WebStages, WebKinds, Outcomes
<1>2. "lock" \in WebStages
  BY DEF WebStages, Waiting
<1> QED
  BY <1>1, <1>2 DEF WebStates, Begun

(* A wire with one command *)
LEMMA CommandFacts ==
    ASSUME NEW op \in Ops, NEW v \in SessionRecords \cup {NoSession}
    PROVE  LET s == Command(op, v)
           IN  /\ s \in Seq(RedisCommands) /\ Len(s) = 1 /\ s # <<>>
               /\ Head(s).op = op /\ s[1].op = op /\ s[1].value = v
               /\ Tail(s) = <<>>
<1>1. [op |-> op, value |-> v] \in RedisCommands
  BY DEF RedisCommands
<1> QED
  BY <1>1 DEF Command

(* What a command does when Redis executes it.                             *)
LEMMA RedisDoes ==
    ASSUME NEW q \in WebRequests, Redis(q), ended \in BOOLEAN
    PROVE  LET op == Head(wire[q]).op
           IN  /\ op = "save" => /\ stored' = Head(wire[q]).value
                                 /\ lockedFor' = lockedFor /\ ended' = ended
               /\ op = "delete" => /\ stored' = NoSession /\ lockedFor' = lockedFor
                                   /\ ended' = (ended \/ web[q].kind # "use")
               /\ op \in {"lock", "get", "unlock"} => stored' = stored /\ ended' = ended
               /\ op = "get" => lockedFor' = lockedFor
               /\ op = "lock" => lockedFor' = IF lockedFor = NoHolder THEN q ELSE lockedFor
               /\ op = "unlock" => lockedFor' = IF lockedFor = q THEN NoHolder ELSE lockedFor
<1> DEFINE op == Head(wire[q]).op
<1>1. CASE op = "save"
  BY <1>1 DEF Redis, LockFree
<1>2. CASE op = "delete"
  BY <1>2 DEF Redis, LockFree
<1>3. CASE op = "lock"
  BY <1>3 DEF Redis, LockFree
<1>4. CASE op = "unlock"
  BY <1>4 DEF Redis, LockFree
<1>5. CASE op = "get"
  BY <1>5 DEF Redis, LockFree
<1> QED
  BY <1>1, <1>2, <1>3, <1>4, <1>5

-----------------------------------------------------------------------------
(* A step of a request: it becomes w, its commands s. *)
Turn(q, w, s) ==
    /\ web' = [web EXCEPT ![q] = w] /\ wire' = [wire EXCEPT ![q] = s]
    /\ w \in WebStates /\ s \in Seq(RedisCommands) /\ WebOrderly(w, s)
    /\ SharedTypes'

(* The lock is taken and given back by its holder only. *)
LockKept(q, w, s) ==
    /\ lockedFor' = lockedFor \/ lockedFor \in {q, NoHolder}
    /\ Holds(w, s) => lockedFor' = q

(* Whoever ends the session or writes a record holds the lock; a record is *)
(* one that was there or a newer one.                                      *)
RecordKept(q, w, s) ==
    LET was == web[q]  old == wire[q]
    IN  /\ stored' \in {stored, NoSession} \/ (Saves(old) /\ stored' = was.seen)
        /\ ended' # ended =>
              ended' /\ stored' = NoSession /\ Holds(was, old) /\ w.kind # "use"
        /\ Rotates(w) \/ Saves(s) =>
              \/ (Rotates(was) \/ Saves(old)) /\ w.seen = was.seen
              \/ Rotates(was) /\ w.seen.access = issued'
              \/ stored # NoSession /\ w.seen = stored
        /\ issued <= issued'
        /\ w.seen # NoSession => w.seen.access <= issued'
        /\ Above(w.floor)
        /\ w.kind = "use" /\ w.out = "ok" =>
              /\ w.seen = was.seen /\ w.floor = was.floor
              /\ \/ was.kind = "use" /\ was.out = "ok"
                 \/ Saves(old) /\ stored' = was.seen

(* Such a step keeps everything but the calm. *)
LEMMA TurnTypes ==
    ASSUME WebTypes, NEW q \in WebRequests, NEW w, NEW s, Turn(q, w, s)
    PROVE  /\ WebTypes'
           /\ web'[q] = w /\ wire'[q] = s
           /\ \A r \in WebRequests : r # q => web'[r] = web[r] /\ wire'[r] = wire[r]
<1>1. /\ web'[q] = w /\ wire'[q] = s
      /\ \A r \in WebRequests : r # q => web'[r] = web[r] /\ wire'[r] = wire[r]
      /\ web' \in [WebRequests -> WebStates] /\ wire' \in [WebRequests -> Seq(RedisCommands)]
  BY DEF WebTypes, Turn
<1>2. \A r \in WebRequests : WebOrderly(web[r], wire[r])'
  BY <1>1 DEF WebTypes, Turn, WebOrderly
<1> QED
  BY <1>1, <1>2 DEF WebTypes, Turn

(* The tokens of records are numbers. *)
LEMMA TokenNumbers ==
    ASSUME WebTypes
    PROVE  /\ issued \in Nat
           /\ stored # NoSession => stored.access \in Nat
           /\ \A q \in WebRequests :
                 /\ web[q].seen # NoSession => web[q].seen.access \in Nat
                 /\ web[q].floor \in Nat
                 /\ Rotates(web[q]) \/ Saves(wire[q]) => web[q].seen # NoSession
  BY WebAssumption DEF WebTypes, SharedTypes, WebStates, SessionRecords, WebOrderly

(* A token that all that is known lies below stays so. *)
LEMMA AboveKept ==
    ASSUME WebTypes, TokenInv, NEW q \in WebRequests, NEW w, NEW s,
           Turn(q, w, s), RecordKept(q, w, s), NEW n \in Nat, Above(n)
    PROVE  Above(n)'
<1>1. WebTypes' /\ web'[q] = w /\ wire'[q] = s
      /\ \A r \in WebRequests : r # q => web'[r] = web[r] /\ wire'[r] = wire[r]
  BY TurnTypes
<1>2. stored' # NoSession => stored'.access >= n
  BY DEF RecordKept, Above
<1>3. ASSUME NEW r \in WebRequests, Rotates(web'[r]) \/ Saves(wire'[r])
      PROVE  web'[r].seen.access >= n
  <2>1. CASE r # q
    BY <1>1, <1>3, <2>1 DEF Above
  <2>2. CASE r = q
    <3>1. Rotates(web[q]) =>
              web[q].seen.access \in Nat /\ web[q].seen.access >= n
                /\ web[q].seen.access <= issued /\ issued \in Nat /\ issued' \in Nat
      <4>1. issued \in Nat /\ issued' \in Nat
        BY <1>1 DEF WebTypes, SharedTypes
      <4>2. Rotates(web[q]) => web[q].seen.access \in Nat /\ web[q].seen.access <= issued
        BY TokenNumbers DEF TokenInv
      <4> QED
        BY <4>1, <4>2 DEF Above
    <3>2. Rotates(w) \/ Saves(s)
      BY <1>1, <1>3, <2>2
    <3>3. CASE (Rotates(web[q]) \/ Saves(wire[q])) /\ w.seen = web[q].seen
      BY <1>1, <2>2, <3>3 DEF Above
    <3>4. CASE Rotates(web[q]) /\ w.seen.access = issued'
      BY <1>1, <2>2, <3>1, <3>4 DEF RecordKept
    <3>5. CASE stored # NoSession /\ w.seen = stored
      BY <1>1, <2>2, <3>5 DEF Above
    <3> QED
      BY <3>2, <3>3, <3>4, <3>5 DEF RecordKept
  <2> QED
    BY <2>1, <2>2
<1> QED
  BY <1>2, <1>3 DEF Above, Rotates, Saves

(* A request holds the lock alone. *)
LEMMA HoldsAlone ==
    ASSUME WebLockInv, NEW q \in WebRequests, NEW r \in WebRequests,
           Holds(web[q], wire[q]), Holds(web[r], wire[r])
    PROVE  q = r
  BY DEF WebLockInv

(* A turn of one request that respects the lock and the record keeps the rest. *)
LEMMA TurnKeeps ==
    ASSUME WebTypes, WebLockInv, EndInv, TokenInv,
           NEW q \in WebRequests, NEW w, NEW s,
           Turn(q, w, s), LockKept(q, w, s), RecordKept(q, w, s)
    PROVE  WebTypes' /\ WebLockInv' /\ EndInv' /\ TokenInv'
<1>1. WebTypes' /\ web'[q] = w /\ wire'[q] = s
      /\ \A r \in WebRequests : r # q => web'[r] = web[r] /\ wire'[r] = wire[r]
  BY TurnTypes
<1>2. WebLockInv'
  <2>1. ASSUME NEW r \in WebRequests, Holds(web'[r], wire'[r])
        PROVE  lockedFor' = r
    <3>1. CASE r = q
      BY <1>1, <2>1, <3>1 DEF LockKept
    <3>2. CASE r # q
      BY <1>1, <2>1, <3>2, WebAssumption DEF LockKept, WebLockInv
    <3> QED
      BY <3>1, <3>2
  <2> QED
    BY <2>1 DEF WebLockInv, Holds, Writes
<1>3. \A r \in WebRequests : Rotates(web[r]) \/ Saves(wire[r]) => Holds(web[r], wire[r])
  BY DEF Rotates, Saves, Holds, Writes
<1>4. EndInv'
  <2>1. CASE ended' = ended
    <3> SUFFICES ASSUME ended'
                 PROVE  /\ stored' = NoSession
                        /\ \A r \in WebRequests : ~Rotates(web'[r]) /\ ~Saves(wire'[r])
      BY DEF EndInv, Rotates, Saves
    <3>1. stored = NoSession /\ \A r \in WebRequests : ~Rotates(web[r]) /\ ~Saves(wire[r])
      BY <2>1 DEF EndInv
    <3>2. stored' = NoSession /\ ~Rotates(w) /\ ~Saves(s)
      BY <3>1 DEF RecordKept
    <3> QED
      BY <1>1, <3>1, <3>2
  <2>2. CASE ended' # ended
    <3>1. stored' = NoSession /\ Holds(web[q], wire[q]) /\ w.kind # "use"
      BY <2>2 DEF RecordKept
    <3>2. ~Rotates(w) /\ ~Saves(s)
      BY <3>1 DEF Turn, WebOrderly
    <3>3. \A r \in WebRequests : r # q => ~Rotates(web[r]) /\ ~Saves(wire[r])
      BY <1>3, <3>1, HoldsAlone
    <3> QED
      BY <1>1, <3>1, <3>2, <3>3 DEF EndInv, Rotates, Saves
  <2> QED
    BY <2>1, <2>2
<1>5. stored' # NoSession => stored'.access <= issued'
  BY <1>1, TokenNumbers DEF RecordKept, TokenInv, WebTypes, SharedTypes
<1>6. \A n \in Nat : Above(n) => Above(n)'
  BY AboveKept
<1>7. ASSUME NEW r \in WebRequests, NEW f \in Nat, NEW seen, r # q, web[r].floor = f,
             web[r].seen = seen
      PROVE  /\ seen # NoSession => seen.access <= issued'
             /\ Above(f)'
             /\ web[r].kind = "use" /\ web[r].out = "ok" =>
                   Above(seen.access)' /\ seen.access >= f
  <2>1. issued <= issued' /\ issued \in Nat /\ issued' \in Nat
    BY <1>1, TokenNumbers DEF RecordKept, WebTypes, SharedTypes
  <2>2. seen # NoSession => seen.access \in Nat /\ seen.access <= issued
    BY <1>7, TokenNumbers DEF TokenInv
  <2>3. Above(f)'
    BY <1>6, <1>7 DEF TokenInv
  <2>4. ASSUME web[r].kind = "use", web[r].out = "ok"
        PROVE  Above(seen.access)' /\ seen.access >= f
    <3>1. seen # NoSession
      BY <1>7, <2>4 DEF WebTypes, WebOrderly
    <3>2. Above(seen.access) /\ seen.access >= f
      BY <1>7, <2>4 DEF TokenInv
    <3> QED
      BY <1>6, <2>2, <3>1, <3>2
  <2> QED
    BY <2>1, <2>2, <2>3, <2>4
<1>8. /\ Above(w.floor)'
      /\ w.seen # NoSession => w.seen.access <= issued'
      /\ w.kind = "use" /\ w.out = "ok" =>
            Above(w.seen.access)' /\ w.seen.access >= w.floor
  <2>1. w.floor \in Nat /\ Above(w.floor)
    BY DEF Turn, WebStates, RecordKept
  <2>2. Above(w.floor)'
    BY <1>6, <2>1
  <2>3. ASSUME w.kind = "use", w.out = "ok"
        PROVE  Above(w.seen.access)' /\ w.seen.access >= w.floor
    <3>1. w.seen = web[q].seen /\ w.floor = web[q].floor
      BY <2>3 DEF RecordKept
    <3>2. CASE web[q].kind = "use" /\ web[q].out = "ok"
      <4>1. Above(web[q].seen.access) /\ web[q].seen.access >= web[q].floor
        BY <3>2 DEF TokenInv
      <4>2. web[q].seen.access \in Nat
        BY <3>2, TokenNumbers DEF WebTypes, WebOrderly
      <4> QED
        BY <1>6, <3>1, <4>1, <4>2
    <3>3. CASE Saves(wire[q]) /\ stored' = web[q].seen
      <4>1. web[q].seen.access >= web[q].floor /\ web[q].seen.access \in Nat
        BY <3>3, TokenNumbers DEF TokenInv, Above
      <4>2. \A p \in WebRequests : p # q => ~Rotates(web[p]) /\ ~Saves(wire[p])
        BY <1>3, <3>3, HoldsAlone
      <4>3. Above(w.seen.access)'
        BY <1>1, <3>1, <3>3, <4>1, <4>2 DEF Above, Rotates, Saves
      <4> QED
        BY <3>1, <4>1, <4>3
    <3> QED
      BY <2>3, <3>2, <3>3 DEF RecordKept
  <2> QED
    BY <2>2, <2>3 DEF RecordKept
<1>9. ASSUME NEW r \in WebRequests
      PROVE  /\ (web[r].seen)' # NoSession => (web[r].seen.access)' <= issued'
             /\ Above(web[r].floor)'
             /\ (web[r].kind)' = "use" /\ (web[r].out)' = "ok" =>
                   Above(web[r].seen.access)' /\ (web[r].seen.access >= web[r].floor)'
  <2>1. CASE r = q
    BY <1>1, <1>8, <2>1 DEF Above
  <2>2. CASE r # q
    <3>1. web[r].floor \in Nat /\ web'[r] = web[r]
      BY <1>1, <2>2, TokenNumbers
    <3>2. PICK f \in Nat, seen \in {web[r].seen} : web[r].floor = f
      BY <3>1
    <3>3. /\ seen # NoSession => seen.access <= issued'
          /\ Above(f)'
          /\ web[r].kind = "use" /\ web[r].out = "ok" =>
                Above(seen.access)' /\ seen.access >= f
      BY <1>7, <2>2, <3>2
    <3> QED
      BY <3>1, <3>2, <3>3 DEF Above
  <2> QED
    BY <2>1, <2>2
<1> QED
  BY <1>1, <1>2, <1>4, <1>5, <1>9 DEF TokenInv

(* Without mishaps the token of the record changes in a rotation only, and *)
(* the grant ends with a logout.                                           *)
CalmKept(q, w, s) == mishaps' = 0 =>
    /\ mishaps = 0 /\ lapsed' = lapsed /\ (ended => ended')
    /\ CalmRequest(w, s)'
    /\ \/ grant' = grant
       \/ ended' /\ grant' = 0
       \/ web[q].at = "refresh"
    /\ stored' # NoSession =>
          \/ stored'.refresh = grant' \/ w.at = "rotate"
          \/ stored' = stored /\ grant' = grant /\ web[q].at # "rotate"
    /\ stored' = NoSession => stored = NoSession \/ ended' \/ lapsed

(* Such a step keeps the calm as well. *)
LEMMA TurnKeepsCalm ==
    ASSUME WebInv, NEW q \in WebRequests, NEW w, NEW s,
           Turn(q, w, s), CalmKept(q, w, s), EndInv'
    PROVE  CalmInv'
<1> SUFFICES ASSUME mishaps' = 0 PROVE CalmInv'
  BY DEF CalmInv
<1>1. /\ web'[q] = w /\ wire'[q] = s /\ WebTypes
      /\ \A r \in WebRequests : r # q => web'[r] = web[r] /\ wire'[r] = wire[r]
  BY TurnTypes DEF WebInv
<1>2. /\ mishaps = 0 /\ lapsed' = lapsed /\ (ended => ended')
      /\ CalmRequest(w, s)'
      /\ grant' = grant \/ (ended' /\ grant' = 0) \/ web[q].at = "refresh"
  BY DEF CalmKept
<1>3. /\ stored # NoSession => \/ stored.refresh = grant
                               \/ \E r \in WebRequests : web[r].at = "rotate"
      /\ stored = NoSession => ended \/ lapsed
      /\ \A r \in WebRequests : CalmRequest(web[r], wire[r])
  BY <1>2 DEF WebInv, CalmInv
<1>4. stored' # NoSession => \/ stored'.refresh = grant'
                             \/ \E r \in WebRequests : web'[r].at = "rotate"
  BY <1>1, <1>3 DEF CalmKept
<1>5. stored' = NoSession => ended' \/ lapsed'
  BY <1>2, <1>3 DEF CalmKept
<1>6. ASSUME NEW r \in WebRequests, NEW v, NEW t, web[r] = v, wire[r] = t, r # q
      PROVE  CalmRequest(v, t)'
  <2>1. CalmRequest(v, t) /\ v = web'[r]
    BY <1>1, <1>3, <1>6
  <2>2. CASE grant' = grant
    BY <1>2, <2>1, <2>2 DEF CalmRequest
  <2>3. CASE ended' /\ grant' = 0
    <3>1. ~Rotates(v)
      BY <2>1, <2>3 DEF EndInv, Rotates
    <3> QED
      BY <1>2, <2>1, <2>3, <3>1 DEF CalmRequest
  <2>4. CASE web[q].at = "refresh"
    <3>1. Holds(web[q], wire[q]) /\ Rotates(web[q])
      BY <2>4 DEF Holds, Rotates
    <3>2. ~Holds(v, t) /\ ~ended
      BY <1>6, <3>1, HoldsAlone DEF WebInv, EndInv
    <3>3. ~Rotates(v) /\ v.at # "delete"
      BY <3>2 DEF Holds, Rotates
    <3> QED
      BY <1>2, <2>1, <3>2, <3>3 DEF CalmRequest
  <2> QED
    BY <1>2, <2>2, <2>3, <2>4
<1>7. ASSUME NEW r \in WebRequests
      PROVE  CalmRequest(web[r], wire[r])'
  <2>1. CASE r = q
    BY <1>1, <1>2, <2>1 DEF CalmRequest, Rotates
  <2>2. CASE r # q
    <3>1. PICK v \in {web[r]}, t \in {wire[r]} : TRUE
      OBVIOUS
    <3>2. CalmRequest(v, t)'
      BY <1>6, <2>2, <3>1
    <3> QED
      BY <1>1, <2>2, <3>1, <3>2 DEF CalmRequest, Rotates
  <2> QED
    BY <2>1, <2>2
<1> QED
  BY <1>4, <1>5, <1>7 DEF CalmInv

(* A step of a request that is all of these keeps the invariant. *)
LEMMA TurnKeepsInv ==
    ASSUME WebInv, NEW q \in WebRequests, NEW w, NEW s,
           Turn(q, w, s), LockKept(q, w, s), RecordKept(q, w, s), CalmKept(q, w, s)
    PROVE  WebInv'
<1>1. WebTypes' /\ WebLockInv' /\ EndInv' /\ TokenInv'
  BY TurnKeeps DEF WebInv
<1> QED
  BY <1>1, TurnKeepsCalm DEF WebInv

-----------------------------------------------------------------------------
(* Redis answers. *)

(* A request with one command or none on its way *)
LEMMA OneCommand ==
    ASSUME NEW op \in Ops, NEW v \in SessionRecords \cup {NoSession}, NEW w \in WebStates
    PROVE  LET s == Command(op, v)
           IN  /\ Saves(s) <=> op = "save"
               /\ Writes(s) <=> op \in {"save", "delete"}
               /\ (/\ w.at \in Waiting /\ WaitsFor(w) = op
                   /\ op = "get" => w.kind # "login"
                   /\ op = "save" => v = w.seen /\ v # NoSession /\ w.kind = "use"
                   /\ w.kind = "use" /\ w.out = "ok" => w.at = "unlock" /\ w.seen # NoSession)
                  => WebOrderly(w, s)
<1> DEFINE s == Command(op, v)
<1>1. /\ Len(s) = 1 /\ s # <<>> /\ Head(s).op = op
      /\ s[1].op = op /\ s[1].value = v /\ s[Len(s)].op = op
  BY CommandFacts
<1> HIDE DEF s
<1>2. Saves(s) <=> op = "save"
  BY <1>1 DEF Saves
<1>3. Writes(s) <=> op \in {"save", "delete"}
  BY <1>1 DEF Writes
<1>4. ASSUME w.at \in Waiting, WaitsFor(w) = op, op = "get" => w.kind # "login",
             op = "save" => v = w.seen /\ v # NoSession /\ w.kind = "use",
             w.kind = "use" /\ w.out = "ok" => w.at = "unlock" /\ w.seen # NoSession
      PROVE  WebOrderly(w, s)
  <2>1. w.at \notin {"idle", "refresh", "revoke", "done"}
    BY <1>4 DEF Waiting
  <2>2. (Rotates(w) => op = "save") /\ (w.at = "get" => op = "get")
    BY <1>4, <2>1 DEF Rotates, WaitsFor
  <2> QED
    BY <1>1, <1>2, <1>4, <2>1, <2>2 DEF WebOrderly
<1>5. (/\ w.at \in Waiting /\ WaitsFor(w) = op
       /\ op = "get" => w.kind # "login"
       /\ op = "save" => v = w.seen /\ v # NoSession /\ w.kind = "use"
       /\ w.kind = "use" /\ w.out = "ok" => w.at = "unlock" /\ w.seen # NoSession)
      => WebOrderly(w, s)
  BY <1>4
<1> QED
  BY <1>2, <1>3, <1>5 DEF s

(* A request with nothing on its way *)
LEMMA NothingSent ==
    ASSUME NEW w \in WebStates
    PROVE  /\ <<>> \in Seq(RedisCommands) /\ ~Saves(<<>>) /\ ~Writes(<<>>) /\ Len(<<>>) = 0
           /\ (/\ w.at \notin Waiting
               /\ w.at = "refresh" => w.seen # NoSession /\ w.kind = "use"
               /\ w.at = "revoke" => w.kind = "logout" /\ w.out = "ok"
               /\ w.kind = "use" /\ w.out = "ok" => w.at = "done" /\ w.seen # NoSession)
              => WebOrderly(w, <<>>)
<1>1. Len(<<>>) = 0 /\ <<>> \in Seq(RedisCommands)
  OBVIOUS
<1> QED
  BY <1>1 DEF Saves, Writes, WebOrderly, Rotates, Waiting

(* Who waits for a command knows which it is. *)
LEMMA AwaitedCommand ==
    ASSUME WebTypes, NEW q \in WebRequests, Awaits(q)
    PROVE  /\ wire[q] # <<>> /\ Head(wire[q]).op = WaitsFor(web[q])
           /\ Saves(wire[q]) <=> web[q].at \in {"rotate", "touch"}
           /\ Saves(wire[q]) => Head(wire[q]).value = web[q].seen /\ web[q].seen # NoSession
                                  /\ web[q].kind = "use"
<1>1. /\ WebOrderly(web[q], wire[q]) /\ Len(wire[q]) = 1 /\ web[q].at \in Waiting
      /\ wire[q] \in Seq(RedisCommands)
  BY DEF WebTypes, Awaits
<1>2. wire[q] # <<>> /\ Head(wire[q]) = wire[q][1] /\ wire[q][Len(wire[q])] = wire[q][1]
  <2> DEFINE s == wire[q]
  <2>1. s \in Seq(RedisCommands) /\ Len(s) = 1
    BY <1>1
  <2> HIDE DEF s
  <2>2. s # <<>>
    <3>1. Len(<<>>) = 0
      OBVIOUS
    <3>2. s = <<>> => Len(s) = 0
      BY <3>1, Zenon
    <3>3. 1 # 0
      OBVIOUS
    <3> QED
      BY <2>1, <3>2, <3>3, Zenon
  <2>3. Head(s) = s[1]
    OBVIOUS
  <2>4. s[Len(s)] = s[1]
    BY <2>1
  <2> QED
    BY <2>2, <2>3, <2>4 DEF s
<1> QED
  BY <1>1, <1>2 DEF WebOrderly, Saves, WaitsFor, Waiting

(* What an answer of Redis changes, and what it leaves alone *)
LEMMA ServedDoes ==
    ASSUME WebInv, NEW q \in WebRequests, NEW at, Served(q, at)
    PROVE  /\ web[q].at = at /\ UNCHANGED <<grant, issued, aged, lapsed, mishaps>>
           /\ at \in {"lock", "get", "unlock"} => stored' = stored /\ ended' = ended
           /\ at \in {"get", "rotate", "touch", "delete"} =>
                 lockedFor' = lockedFor /\ lockedFor = q
           /\ at \in {"rotate", "touch"} =>
                 /\ stored' = web[q].seen /\ ended' = ended /\ Saves(wire[q])
                 /\ web[q].seen # NoSession /\ web[q].kind = "use"
           /\ at = "delete" => stored' = NoSession /\ ended' = (ended \/ web[q].kind # "use")
           /\ at = "lock" => lockedFor' = IF lockedFor = NoHolder THEN q ELSE lockedFor
           /\ at = "unlock" => lockedFor' = IF lockedFor = q THEN NoHolder ELSE lockedFor
<1>1. /\ Awaits(q) /\ web[q].at = at /\ Redis(q) /\ WebTypes /\ ended \in BOOLEAN
      /\ UNCHANGED <<grant, issued, aged, lapsed, mishaps>>
  BY DEF Served, AtProvider, InTime, WebInv, WebTypes, SharedTypes
<1>2. /\ Head(wire[q]).op = WaitsFor(web[q])
      /\ Saves(wire[q]) <=> at \in {"rotate", "touch"}
      /\ Saves(wire[q]) => Head(wire[q]).value = web[q].seen /\ web[q].seen # NoSession
                             /\ web[q].kind = "use"
  BY <1>1, AwaitedCommand
<1>3. at \in {"get", "rotate", "touch", "delete"} => lockedFor = q
  BY <1>1 DEF WebInv, WebLockInv, Holds
<1> QED
  BY <1>1, <1>2, <1>3, RedisDoes DEF WaitsFor

-----------------------------------------------------------------------------
(* The steps. *)

(* A request goes on to wait for one command. *)
LEMMA WaitTurn ==
    ASSUME WebInv, NEW q \in WebRequests, NEW w \in WebStates,
           NEW op \in Ops, NEW v \in SessionRecords \cup {NoSession},
           NowIs(q, w), wire' = [wire EXCEPT ![q] = Command(op, v)], SharedTypes',
           w.at \in Waiting, WaitsFor(w) = op, op = "get" => w.kind # "login",
           op = "save" => v = w.seen /\ v # NoSession /\ w.kind = "use",
           w.kind = "use" /\ w.out = "ok" => w.at = "unlock" /\ w.seen # NoSession
    PROVE  /\ Turn(q, w, Command(op, v))
           /\ Saves(Command(op, v)) <=> op = "save"
           /\ Rotates(w) => op = "save"
           /\ Holds(w, Command(op, v)) <=> op \in {"get", "save", "delete"}
           /\ Command(op, v) # <<>> /\ Len(Command(op, v)) = 1
  BY OneCommand, CommandFacts DEF Turn, NowIs, Holds, Rotates, WaitsFor, Waiting

(* A request goes on with nothing on its way to Redis. *)
LEMMA RestTurn ==
    ASSUME WebInv, NEW q \in WebRequests, NEW w \in WebStates,
           NowIs(q, w), wire' = [wire EXCEPT ![q] = <<>>], SharedTypes',
           w.at \notin Waiting,
           w.at = "refresh" => w.seen # NoSession /\ w.kind = "use",
           w.at = "revoke" => w.kind = "logout" /\ w.out = "ok",
           w.kind = "use" /\ w.out = "ok" => w.at = "done" /\ w.seen # NoSession
    PROVE  /\ Turn(q, w, <<>>)
           /\ ~Saves(<<>>) /\ Len(<<>>) = 0
           /\ Holds(w, <<>>) <=> w.at = "refresh"
           /\ Rotates(w) <=> w.at = "refresh"
  BY NothingSent DEF Turn, NowIs, Holds, Rotates, Waiting

(* What is known of a request before its step *)
LEMMA Before ==
    ASSUME WebInv, NEW q \in WebRequests
    PROVE  /\ web[q] \in WebStates /\ WebOrderly(web[q], wire[q]) /\ SharedTypes
           /\ web[q].seen \in SessionRecords \cup {NoSession}
           /\ web[q].out \in Outcomes /\ web[q].at \in WebStages
           /\ Above(web[q].floor)
           /\ stored # NoSession => stored.access <= issued
           /\ web[q].seen # NoSession => web[q].seen.access <= issued
           /\ issued \in Nat
           /\ Holds(web[q], wire[q]) => lockedFor = q
           /\ mishaps = 0 => CalmRequest(web[q], wire[q])
           /\ mishaps \in Nat
  BY WebAssumption
  DEF WebInv, WebTypes, SharedTypes, WebStates, TokenInv, WebLockInv, CalmInv

(* What a request is after a step that updates its state *)
LEMMA WebBecomes ==
    ASSUME WebInv, NEW q \in WebRequests, NEW at \in WebStages, NEW out \in Outcomes,
           NEW seen \in SessionRecords \cup {NoSession}
    PROVE  LET is(w, s, o) == /\ NowIs(q, w)
                              /\ WebFields(w, at, web[q].kind, s, o, web[q].floor)
           IN  /\ NowIs(q, Staged(web[q], at)) =>
                     \E w \in WebStates : is(w, web[q].seen, web[q].out)
               /\ NowIs(q, Answering(web[q], at, out)) =>
                     \E w \in WebStates : is(w, web[q].seen, out)
               /\ NowIs(q, Renewed(web[q], at, seen)) =>
                     \E w \in WebStates : is(w, seen, web[q].out)
               /\ NowIs(q, Answering(Reads(web[q], seen), at, out)) =>
                     \E w \in WebStates : is(w, seen, out)
<1> DEFINE w1 == Staged(web[q], at)
           w2 == Answering(web[q], at, out)
           w3 == Renewed(web[q], at, seen)
           w4 == Answering(Reads(web[q], seen), at, out)
<1>1. web[q] \in WebStates
  BY Before
<1>2. PICK u \in WebStates : /\ u = Reads(web[q], seen) /\ u.kind = web[q].kind
                             /\ u.seen = seen /\ u.floor = web[q].floor
  BY <1>1, StateFields DEF WebFields
<1>3. WebFields(w1, at, web[q].kind, web[q].seen, web[q].out, web[q].floor)
  BY <1>1, StateFields
<1>4. WebFields(w2, at, web[q].kind, web[q].seen, out, web[q].floor)
  BY <1>1, StateFields
<1>5. WebFields(w3, at, web[q].kind, seen, web[q].out, web[q].floor)
  BY <1>1, StateFields
<1>6. WebFields(w4, at, web[q].kind, seen, out, web[q].floor)
  <2>1. WebFields(Answering(u, at, out), at, u.kind, u.seen, out, u.floor)
    BY StateFields
  <2> QED
    BY <1>2, <2>1
<1>7. w1 \in WebStates /\ w2 \in WebStates /\ w3 \in WebStates /\ w4 \in WebStates
  BY <1>3, <1>4, <1>5, <1>6 DEF WebFields
<1> HIDE DEF w1, w2, w3, w4
<1>8. NowIs(q, w1) =>
          \E w \in WebStates : /\ NowIs(q, w)
                               /\ WebFields(w, at, web[q].kind, web[q].seen, web[q].out, web[q].floor)
  BY <1>3, <1>7
<1>9. NowIs(q, w2) =>
          \E w \in WebStates : /\ NowIs(q, w)
                               /\ WebFields(w, at, web[q].kind, web[q].seen, out, web[q].floor)
  BY <1>4, <1>7
<1>10. NowIs(q, w3) =>
          \E w \in WebStates : /\ NowIs(q, w)
                               /\ WebFields(w, at, web[q].kind, seen, web[q].out, web[q].floor)
  BY <1>5, <1>7
<1>11. NowIs(q, w4) =>
          \E w \in WebStates : /\ NowIs(q, w)
                               /\ WebFields(w, at, web[q].kind, seen, out, web[q].floor)
  BY <1>6, <1>7
<1> QED
  BY <1>8, <1>9, <1>10, <1>11 DEF w1, w2, w3, w4

(* A mishap is counted. *)
LEMMA MishapCounts ==
    ASSUME WebInv, Mishap
    PROVE  mishaps' \in 0..MaxMishaps /\ mishaps' # 0
  BY WebAssumption DEF Mishap, WebInv, WebTypes, SharedTypes

(* The token a new request starts from is one in use, or none. *)
LEMMA FloorInUse ==
    ASSUME WebInv
    PROVE  LET used == {web[r].seen.access : r \in {s \in WebRequests : Answered(s)}}
               floor == CHOOSE n \in used \cup {0} : \A m \in used : m <= n
           IN  floor \in 0..MaxTokens /\ Above(floor)
<1> DEFINE used == {web[r].seen.access : r \in {s \in WebRequests : Answered(s)}}
           floor == CHOOSE n \in used \cup {0} : \A m \in used : m <= n
<1>1. \A r \in WebRequests : Answered(r) =>
          web[r].seen.access \in 0..MaxTokens /\ Above(web[r].seen.access)
  <2>1. ASSUME NEW r \in WebRequests, Answered(r)
        PROVE  web[r].seen \in SessionRecords /\ Above(web[r].seen.access)
    BY <2>1 DEF Answered, WebInv, WebTypes, WebStates, WebOrderly, TokenInv
  <2> QED
    BY <2>1, WebAssumption DEF SessionRecords
<1>2. used \cup {0} \in SUBSET (0..MaxTokens) /\ used \cup {0} # {}
  BY <1>1, WebAssumption
<1>3. \A n \in used \cup {0} : Above(n)
  <2>1. Above(0)
    BY TokenNumbers DEF Above, WebInv
  <2> QED
    BY <1>1, <2>1
<1> HIDE DEF used
<1>4. \E n \in used \cup {0} : \A m \in used \cup {0} : m <= n
  BY <1>2, LargestOf, WebAssumption
<1>5. floor \in used \cup {0}
  BY <1>4
<1> QED
  BY <1>2, <1>3, <1>5 DEF used

(* Visit *)
LEMMA VisitKeeps ==
    ASSUME WebInv, NEW q \in WebRequests, Visit(q)
    PROVE  WebInv'
<1> DEFINE used == {web[r].seen.access : r \in {s \in WebRequests : Answered(s)}}
           floor == CHOOSE n \in used \cup {0} : \A m \in used : m <= n
           s == Command("lock", NoSession)
<1>1. floor \in 0..MaxTokens /\ Above(floor)
  BY FloorInUse
<1>2. PICK kind \in WebKinds : NowIs(q, Begun(kind, floor))
  BY DEF Visit, Begun
<1> HIDE DEF floor
<1>3. PICK w \in WebStates :
          /\ NowIs(q, w) /\ w.at = "lock" /\ w.kind = kind /\ w.seen = NoSession
          /\ w.out = "none" /\ w.floor = floor
  BY <1>1, <1>2, StartFields
<1>4. /\ UNCHANGED <<stored, lockedFor, ended, mishaps, grant, issued, aged, lapsed>>
      /\ web[q].at = "idle" /\ wire' = [wire EXCEPT ![q] = s]
  BY DEF Visit, AtProvider, InTime, Ask
<1>5. SharedTypes'
  BY <1>4 DEF WebInv, WebTypes, SharedTypes
<1>6. /\ Turn(q, w, s) /\ ~Saves(s) /\ ~Rotates(w) /\ ~Holds(w, s)
      /\ s # <<>> /\ Len(s) = 1
  <2>1. "lock" \in Ops /\ w.at \in Waiting /\ WaitsFor(w) = "lock"
    BY <1>3 DEF Ops, Waiting, WaitsFor
  <2> QED
    BY <1>3, <1>4, <1>5, <2>1, WaitTurn
<1> HIDE DEF s
<1>7. LockKept(q, w, s)
  BY <1>4, <1>6 DEF LockKept
<1>8. RecordKept(q, w, s)
  BY <1>1, <1>3, <1>4, <1>6, Before DEF RecordKept
<1>9. CalmKept(q, w, s)
  BY <1>3, <1>4, <1>6, Before DEF CalmKept, CalmRequest, Waiting
<1> QED
  BY <1>6, <1>7, <1>8, <1>9, TurnKeepsInv DEF s

(* An answer of Redis leaves the types of what it changes alone. *)
LEMMA ServedTypes ==
    ASSUME WebInv, NEW q \in WebRequests, NEW at \in Waiting, Served(q, at)
    PROVE  SharedTypes'
<1>1. /\ stored' \in {stored, NoSession, web[q].seen}
      /\ lockedFor' \in {lockedFor, NoHolder, q} /\ ended' \in BOOLEAN
      /\ UNCHANGED <<grant, issued, aged, lapsed, mishaps>>
  <2>1. ended \in BOOLEAN
    BY DEF WebInv, WebTypes, SharedTypes
  <2> QED
    BY <2>1, ServedDoes DEF Waiting
<1>2. web[q].seen \in SessionRecords \cup {NoSession} /\ SharedTypes
  BY Before
<1> QED
  BY <1>1, <1>2 DEF SharedTypes

(* Locked *)
LEMMA LockedKeeps ==
    ASSUME WebInv, NEW q \in WebRequests, Locked(q)
    PROVE  WebInv'
<1>1. /\ Served(q, "lock") /\ web[q].at = "lock" /\ lockedFor = NoHolder /\ lockedFor' = q
      /\ UNCHANGED <<stored, ended, grant, issued, aged, lapsed, mishaps>>
  BY ServedDoes DEF Locked, LockFree
<1>2. SharedTypes'
  BY <1>1, ServedTypes DEF Waiting
<1>3. web[q].kind = "use" => web[q].out # "ok"
  BY <1>1, Before DEF WebOrderly
<1>4. PICK w \in WebStates, op \in {"get", "delete"} :
          /\ NowIs(q, w) /\ Ask(q, op) /\ w.at = op
          /\ w.kind = web[q].kind /\ w.seen = web[q].seen /\ w.floor = web[q].floor
          /\ op = "get" => w.out = web[q].out
          /\ op = "delete" <=> w.kind = "login"
  <2>1. CASE web[q].kind = "login"
    <3>1. NowIs(q, Answering(web[q], "delete", "ok")) /\ Ask(q, "delete")
      BY <2>1 DEF Locked, Answering
    <3> QED
      BY <2>1, <3>1, WebBecomes DEF WebFields, WebStages, Waiting, Outcomes
  <2>2. CASE web[q].kind # "login"
    <3>1. NowIs(q, Staged(web[q], "get")) /\ Ask(q, "get")
      BY <2>2 DEF Locked, Goes, Staged
    <3> QED
      BY <2>2, <3>1, WebBecomes DEF WebFields, WebStages, Waiting, Outcomes
  <2> QED
    BY <2>1, <2>2
<1> DEFINE s == Command(op, NoSession)
<1>5. Turn(q, w, s) /\ ~Saves(s) /\ ~Rotates(w) /\ s # <<>> /\ Len(s) = 1
  <2>1. op \in Ops /\ w.at \in Waiting /\ WaitsFor(w) = op /\ op # "save"
    BY <1>4 DEF Ops, Waiting, WaitsFor
  <2>2. wire' = [wire EXCEPT ![q] = s]
    BY <1>4 DEF Ask
  <2>3. w.kind = "use" => w.out # "ok"
    BY <1>3, <1>4
  <2> QED
    BY <1>2, <1>4, <2>1, <2>2, <2>3, WaitTurn
<1> HIDE DEF s
<1>6. LockKept(q, w, s)
  BY <1>1 DEF LockKept
<1>7. RecordKept(q, w, s)
  BY <1>1, <1>3, <1>4, <1>5, Before DEF RecordKept
<1>8. CalmKept(q, w, s)
  BY <1>1, <1>4, <1>5, Before DEF CalmKept, CalmRequest, Waiting
<1> QED
  BY <1>5, <1>6, <1>7, <1>8, TurnKeepsInv

(* GiveUp: the lock was not to be had in time. *)
LEMMA GiveUpKeeps ==
    ASSUME WebInv, NEW q \in WebRequests, GiveUp(q)
    PROVE  WebInv'
<1>1. /\ web[q].at = "lock" /\ NowIs(q, Answering(web[q], "done", "503"))
      /\ UNCHANGED <<stored, lockedFor, ended, grant, issued, aged, lapsed, mishaps>>
      /\ wire' = [wire EXCEPT ![q] = <<>>]
  BY DEF GiveUp, AtProvider, InTime, Answering
<1>2. SharedTypes'
  BY <1>1 DEF WebInv, WebTypes, SharedTypes
<1>3. PICK w \in WebStates :
          /\ NowIs(q, w) /\ w.at = "done" /\ w.kind = web[q].kind /\ w.seen = web[q].seen
          /\ w.out = "503" /\ w.floor = web[q].floor
  BY <1>1, WebBecomes DEF WebFields, WebStages, Outcomes
<1>4. Turn(q, w, <<>>) /\ ~Saves(<<>>) /\ ~Rotates(w) /\ ~Holds(w, <<>>)
  BY <1>1, <1>2, <1>3, RestTurn DEF Waiting
<1>5. LockKept(q, w, <<>>)
  BY <1>1, <1>4 DEF LockKept
<1>6. RecordKept(q, w, <<>>)
  BY <1>1, <1>3, <1>4, Before DEF RecordKept
<1>7. CalmKept(q, w, <<>>)
  BY <1>1, <1>3, <1>4, Before DEF CalmKept, CalmRequest, Waiting
<1> QED
  BY <1>4, <1>5, <1>6, <1>7, TurnKeepsInv

(* Revoke *)
LEMMA RevokeKeeps ==
    ASSUME WebInv, NEW q \in WebRequests, Revoke(q)
    PROVE  WebInv'
<1>1. /\ web[q].at = "revoke" /\ NowIs(q, Staged(web[q], "done"))
      /\ UNCHANGED <<stored, lockedFor, wire, issued, ended, aged, lapsed>>
      /\ \/ grant' = (IF web[q].seen.refresh = grant THEN 0 ELSE grant) /\ mishaps' = mishaps
         \/ Mishap /\ grant' = grant
  BY DEF Revoke, InTime, Staged, Goes
<1>2. SharedTypes'
  BY <1>1, MishapCounts, WebAssumption DEF WebInv, WebTypes, SharedTypes
<1>3. PICK w \in WebStates :
          /\ NowIs(q, w) /\ w.at = "done" /\ w.kind = web[q].kind /\ w.seen = web[q].seen
          /\ w.out = web[q].out /\ w.floor = web[q].floor
  BY <1>1, WebBecomes DEF WebFields, WebStages, Outcomes
<1>4. w.kind = "logout" /\ w.out = "ok" /\ wire[q] = <<>>
  BY <1>1, <1>3, Before DEF WebOrderly
<1>5. wire' = [wire EXCEPT ![q] = <<>>]
  BY <1>1, <1>4 DEF WebInv, WebTypes
<1>6. Turn(q, w, <<>>) /\ ~Saves(<<>>) /\ ~Rotates(w) /\ ~Holds(w, <<>>)
  BY <1>2, <1>3, <1>4, <1>5, RestTurn DEF Waiting
<1>7. LockKept(q, w, <<>>)
  BY <1>1, <1>6 DEF LockKept
<1>8. RecordKept(q, w, <<>>)
  BY <1>1, <1>3, <1>4, <1>6, Before DEF RecordKept
<1>9. CalmKept(q, w, <<>>)
  <2> SUFFICES ASSUME mishaps' = 0 PROVE CalmKept(q, w, <<>>)
    BY DEF CalmKept
  <2>1. mishaps = 0 /\ grant' = IF web[q].seen.refresh = grant THEN 0 ELSE grant
    BY <1>1, MishapCounts
  <2>2. CalmRequest(web[q], wire[q])
    BY <2>1, Before
  <2>3. ended /\ grant \in {w.seen.refresh, 0}
    BY <1>1, <1>3, <1>4, <2>2 DEF CalmRequest
  <2>4. stored = NoSession
    BY <2>3 DEF WebInv, EndInv
  <2> QED
    BY <1>1, <1>3, <1>4, <1>6, <2>1, <2>3, <2>4 DEF CalmKept, CalmRequest, Waiting
<1> QED
  BY <1>6, <1>7, <1>8, <1>9, TurnKeepsInv

(* The record without mishaps, when no other request has the lock *)
LEMMA CalmRecord ==
    ASSUME WebInv, mishaps = 0, NEW q \in WebRequests, Holds(web[q], wire[q]),
           web[q].at # "rotate", stored # NoSession
    PROVE  stored.refresh = grant /\ ~ended
<1>1. stored.refresh = grant \/ \E r \in WebRequests : web[r].at = "rotate"
  BY DEF WebInv, CalmInv
<1>2. \A r \in WebRequests : web[r].at # "rotate"
  BY HoldsAlone DEF WebInv, Holds
<1> QED
  BY <1>1, <1>2 DEF WebInv, EndInv

(* Read: the session as it stands, under the lock *)
LEMMA ReadKeeps ==
    ASSUME WebInv, NEW q \in WebRequests, Read(q)
    PROVE  WebInv'
<1>1. /\ Served(q, "get") /\ web[q].at = "get" /\ lockedFor = q
      /\ UNCHANGED <<stored, lockedFor, ended, grant, issued, aged, lapsed, mishaps>>
  BY ServedDoes DEF Read
<1>2. SharedTypes' /\ stored \in SessionRecords \cup {NoSession}
  BY <1>1, ServedTypes, Before DEF Waiting, SharedTypes
<1>3. /\ web[q].kind # "login" /\ web[q].kind \in WebKinds
      /\ web[q].kind = "use" => web[q].out # "ok"
      /\ Holds(web[q], wire[q])
  BY <1>1, Before DEF WebOrderly, Holds, WebStates
<1>4. mishaps = 0 => /\ web[q].kind # "use" /\ web[q].out = "ok" => ended
                     /\ stored # NoSession => stored.refresh = grant /\ ~ended
  BY <1>1, <1>3, Before, CalmRecord DEF CalmRequest
<1>5. CASE stored = NoSession
  <2>1. NowIs(q, Answering(web[q], "unlock", "401")) /\ Ask(q, "unlock")
    BY <1>5 DEF Read, Leave, Answering
  <2>2. PICK w \in WebStates :
            NowIs(q, w) /\ WebFields(w, "unlock", web[q].kind, web[q].seen, "401", web[q].floor)
    BY <2>1, WebBecomes DEF WebStages, Waiting, Outcomes
  <2> DEFINE s == Command("unlock", NoSession)
  <2>3. Turn(q, w, s) /\ ~Saves(s) /\ ~Rotates(w) /\ ~Holds(w, s) /\ s # <<>> /\ Len(s) = 1
    BY <1>2, <2>1, <2>2, WaitTurn DEF WebFields, Ask, Ops, Waiting, WaitsFor
  <2> HIDE DEF s
  <2>4. LockKept(q, w, s)
    BY <1>1, <2>3 DEF LockKept
  <2>5. RecordKept(q, w, s)
    BY <1>1, <2>2, <2>3, Before DEF RecordKept, WebFields
  <2>6. CalmKept(q, w, s)
    BY <1>1, <1>4, <2>2, <2>3 DEF CalmKept, CalmRequest, Waiting, WebFields
  <2> QED
    BY <2>3, <2>4, <2>5, <2>6, TurnKeepsInv
<1>6. ASSUME NEW out \in {"ok", "401"}, stored # NoSession,
             NowIs(q, Answering(Reads(web[q], stored), "delete", out)), Ask(q, "delete"),
             out = "ok" => web[q].kind = "logout", out = "401" => lapsed
      PROVE  WebInv'
  <2>2. PICK w \in WebStates :
            NowIs(q, w) /\ WebFields(w, "delete", web[q].kind, stored, out, web[q].floor)
    BY <1>2, <1>6, WebBecomes DEF WebStages, Waiting, Outcomes
  <2> DEFINE s == Command("delete", NoSession)
  <2>3. Turn(q, w, s) /\ ~Saves(s) /\ ~Rotates(w) /\ s # <<>> /\ Len(s) = 1
    <3>1. w.at \in Waiting /\ WaitsFor(w) = "delete" /\ (w.kind = "use" => w.out # "ok")
      BY <1>6, <2>2 DEF Waiting, WaitsFor, WebFields
    <3> QED
      BY <1>2, <1>6, <2>2, <3>1, WaitTurn DEF Ask, Ops
  <2> HIDE DEF s
  <2>4. LockKept(q, w, s)
    BY <1>1, <2>3 DEF LockKept
  <2>5. RecordKept(q, w, s)
    BY <1>1, <1>6, <2>2, <2>3, Before DEF RecordKept, WebFields
  <2>6. CalmKept(q, w, s)
    BY <1>1, <1>4, <1>6, <2>2, <2>3 DEF CalmKept, CalmRequest, Waiting, WebFields
  <2> QED
    BY <2>3, <2>4, <2>5, <2>6, TurnKeepsInv
<1>7. ASSUME stored # NoSession, web[q].kind # "logout",
             NowIs(q, Renewed(web[q], "refresh", stored)), wire' = [wire EXCEPT ![q] = <<>>]
      PROVE  WebInv'
  <2>2. PICK w \in WebStates :
            NowIs(q, w) /\ WebFields(w, "refresh", web[q].kind, stored, web[q].out, web[q].floor)
    BY <1>2, <1>7, WebBecomes DEF WebStages, Waiting, Outcomes
  <2>3. Turn(q, w, <<>>) /\ ~Saves(<<>>) /\ w.at \notin Waiting
    BY <1>2, <1>3, <1>7, <2>2, RestTurn DEF Waiting, WebFields, WebKinds
  <2>4. LockKept(q, w, <<>>)
    BY <1>1, <2>3 DEF LockKept
  <2>5. RecordKept(q, w, <<>>)
    BY <1>1, <1>3, <1>7, <2>2, <2>3, Before DEF RecordKept, WebFields, WebKinds
  <2>6. CalmKept(q, w, <<>>)
    BY <1>1, <1>3, <1>4, <1>7, <2>2, <2>3 DEF CalmKept, CalmRequest, WebFields, WebKinds
  <2> QED
    BY <2>3, <2>4, <2>5, <2>6, TurnKeepsInv
<1>8. ASSUME stored # NoSession, web[q].kind # "logout",
             NowIs(q, Renewed(web[q], "touch", stored)), Save(q, stored)
      PROVE  WebInv'
  <2>2. PICK w \in WebStates :
            NowIs(q, w) /\ WebFields(w, "touch", web[q].kind, stored, web[q].out, web[q].floor)
    BY <1>2, <1>8, WebBecomes DEF WebStages, Waiting, Outcomes
  <2>1. PICK v \in SessionRecords \cup {NoSession} : v = stored
    BY <1>2
  <2> DEFINE s == Command("save", v)
  <2>3. Turn(q, w, s) /\ Saves(s) /\ s # <<>> /\ Len(s) = 1
    <3>1. /\ w.at \in Waiting /\ WaitsFor(w) = "save" /\ w.kind = "use" /\ w.out # "ok"
          /\ w.seen = stored
      BY <1>3, <1>8, <2>2 DEF Waiting, WaitsFor, WebFields, WebKinds
    <3> QED
      BY <1>2, <1>8, <2>1, <2>2, <3>1, WaitTurn DEF Save, Ops
  <2> HIDE DEF s
  <2>4. LockKept(q, w, s)
    BY <1>1, <2>3 DEF LockKept
  <2>5. RecordKept(q, w, s)
    BY <1>1, <1>3, <1>8, <2>2, <2>3, Before DEF RecordKept, WebFields, WebKinds
  <2>6. w.kind = "use" /\ w.at = "touch" /\ w.seen = stored
    BY <1>3, <1>8, <2>2 DEF WebFields, WebKinds
  <2>7. CalmKept(q, w, s)
    BY <1>1, <1>4, <1>8, <2>3, <2>6 DEF CalmKept, CalmRequest, Waiting
  <2> QED
    BY <2>3, <2>4, <2>5, <2>7, TurnKeepsInv
<1>9. CASE stored # NoSession
  <2> DEFINE w0 == Reads(web[q], stored)
  <2>1. /\ [web[q] EXCEPT !.seen = stored] = w0
        /\ [w0 EXCEPT !.at = "refresh"] = Renewed(web[q], "refresh", stored)
        /\ [w0 EXCEPT !.at = "touch"] = Renewed(web[q], "touch", stored)
        /\ w0.kind = web[q].kind
    BY Before DEF Reads, Renewed, WebStates
  <2>2. CASE web[q].kind = "logout"
    BY <1>6, <1>9, <2>1, <2>2 DEF Read, Delete, Answering
  <2>3. CASE web[q].kind # "logout" /\ lapsed
    BY <1>6, <1>9, <2>1, <2>3 DEF Read, Delete, Answering
  <2>4. CASE web[q].kind # "logout" /\ ~lapsed
    BY <1>7, <1>8, <1>9, <2>1, <2>4 DEF Read
  <2> QED
    BY <2>2, <2>3, <2>4
<1> QED
  BY <1>5, <1>9

(* Rotated *)
LEMMA RotatedKeeps ==
    ASSUME WebInv, NEW q \in WebRequests, Rotated(q)
    PROVE  WebInv'
<1>1. /\ Served(q, "rotate") /\ web[q].at = "rotate" /\ lockedFor = q
      /\ stored' = web[q].seen /\ web[q].seen # NoSession /\ web[q].kind = "use"
      /\ UNCHANGED <<lockedFor, ended, grant, issued, aged, lapsed, mishaps>>
      /\ Saves(wire[q])
  BY ServedDoes DEF Rotated
<1>2. SharedTypes'
  BY <1>1, ServedTypes DEF Waiting
<1>3. /\ web[q].out # "ok" /\ Rotates(web[q])
      /\ mishaps = 0 => web[q].seen.refresh = grant
  BY <1>1, Before DEF WebOrderly, Rotates, CalmRequest
<1>4. NowIs(q, Staged(web[q], "touch")) /\ Save(q, web[q].seen)
  BY DEF Rotated, Goes, Staged
<1>5. PICK v \in SessionRecords \cup {NoSession} : v = web[q].seen
  BY Before
<1>6. PICK w \in WebStates : NowIs(q, w) /\ WebFields(w, "touch", "use", v, web[q].out, web[q].floor)
  BY <1>1, <1>4, <1>5, WebBecomes DEF WebStages, Waiting, Outcomes
<1> DEFINE s == Command("save", v)
<1>7. Turn(q, w, s) /\ Saves(s) /\ s # <<>> /\ Len(s) = 1
  <2>1. w.at \in Waiting /\ WaitsFor(w) = "save" /\ w.kind = "use" /\ w.out # "ok" /\ w.seen = v
    BY <1>3, <1>6 DEF Waiting, WaitsFor, WebFields
  <2> QED
    BY <1>1, <1>2, <1>4, <1>5, <1>6, <2>1, WaitTurn DEF Save, Ops
<1> HIDE DEF s
<1>8. LockKept(q, w, s)
  BY <1>1, <1>7 DEF LockKept
<1>9. RecordKept(q, w, s)
  BY <1>1, <1>3, <1>5, <1>6, <1>7, Before DEF RecordKept, WebFields
<1>10. CalmKept(q, w, s)
  BY <1>1, <1>3, <1>5, <1>6, <1>7 DEF CalmKept, CalmRequest, Waiting, WebFields
<1> QED
  BY <1>7, <1>8, <1>9, <1>10, TurnKeepsInv

(* Touched *)
LEMMA TouchedKeeps ==
    ASSUME WebInv, NEW q \in WebRequests, Touched(q)
    PROVE  WebInv'
<1>1. /\ Served(q, "touch") /\ web[q].at = "touch" /\ lockedFor = q
      /\ stored' = web[q].seen /\ web[q].seen # NoSession /\ web[q].kind = "use"
      /\ UNCHANGED <<lockedFor, ended, grant, issued, aged, lapsed, mishaps>>
      /\ Saves(wire[q])
  BY ServedDoes DEF Touched
<1>2. SharedTypes'
  BY <1>1, ServedTypes DEF Waiting
<1>3. mishaps = 0 => web[q].seen.refresh = grant
  BY <1>1, Before DEF Rotates, CalmRequest
<1>4. NowIs(q, Answering(web[q], "unlock", "ok")) /\ Ask(q, "unlock")
  BY DEF Touched, Leave, Answering
<1>5. PICK w \in WebStates :
          NowIs(q, w) /\ WebFields(w, "unlock", "use", web[q].seen, "ok", web[q].floor)
  BY <1>1, <1>4, WebBecomes DEF WebStages, Waiting, Outcomes
<1> DEFINE s == Command("unlock", NoSession)
<1>6. Turn(q, w, s) /\ ~Saves(s) /\ ~Rotates(w) /\ ~Holds(w, s) /\ s # <<>> /\ Len(s) = 1
  BY <1>1, <1>2, <1>4, <1>5, WaitTurn DEF WebFields, Ask, Ops, Waiting, WaitsFor
<1> HIDE DEF s
<1>7. LockKept(q, w, s)
  BY <1>1, <1>6 DEF LockKept
<1>8. RecordKept(q, w, s)
  BY <1>1, <1>5, <1>6, Before DEF RecordKept, WebFields
<1>9. CalmKept(q, w, s)
  BY <1>1, <1>3, <1>5, <1>6 DEF CalmKept, CalmRequest, Waiting, WebFields
<1> QED
  BY <1>6, <1>7, <1>8, <1>9, TurnKeepsInv

(* Deleted *)
LEMMA DeletedKeeps ==
    ASSUME WebInv, NEW q \in WebRequests, Deleted(q)
    PROVE  WebInv'
<1>1. /\ Served(q, "delete") /\ web[q].at = "delete" /\ lockedFor = q
      /\ stored' = NoSession /\ ended' = (ended \/ web[q].kind # "use")
      /\ UNCHANGED <<lockedFor, grant, issued, aged, lapsed, mishaps>>
      /\ Holds(web[q], wire[q])
  BY ServedDoes DEF Deleted, Holds
<1>2. SharedTypes'
  BY <1>1, ServedTypes DEF Waiting
<1>3. /\ web[q].kind = "use" => web[q].out # "ok"
      /\ mishaps = 0 => CalmRequest(web[q], wire[q])
      /\ ended \in BOOLEAN /\ web[q].out \in Outcomes
  BY <1>1, Before DEF WebOrderly, SharedTypes
<1>4. NowIs(q, Answering(web[q], "unlock", web[q].out)) /\ Ask(q, "unlock")
  BY DEF Deleted, Leave, Answering
<1>5. PICK out \in Outcomes : out = web[q].out
  BY <1>3
<1>6. PICK w \in WebStates :
          NowIs(q, w) /\ WebFields(w, "unlock", web[q].kind, web[q].seen, out, web[q].floor)
  BY <1>4, <1>5, WebBecomes DEF WebStages, Waiting
<1>7. /\ w.kind = web[q].kind /\ w.seen = web[q].seen /\ w.out = web[q].out
      /\ w.floor = web[q].floor /\ w.at = "unlock"
  BY <1>5, <1>6 DEF WebFields
<1>8. /\ ended' \in BOOLEAN /\ (w.kind # "use" => ended') /\ (ended => ended')
      /\ ended' # ended => ended' /\ w.kind # "use"
  BY <1>1, <1>3, <1>7
<1> DEFINE s == Command("unlock", NoSession)
<1>9. Turn(q, w, s) /\ ~Saves(s) /\ ~Rotates(w) /\ ~Holds(w, s) /\ s # <<>> /\ Len(s) = 1
  <2>1. w.at \in Waiting /\ WaitsFor(w) = "unlock" /\ (w.kind = "use" => w.out # "ok")
    BY <1>3, <1>7 DEF Waiting, WaitsFor
  <2> QED
    BY <1>2, <1>4, <1>6, <2>1, WaitTurn DEF Ask, Ops
<1> HIDE DEF s
<1>10. LockKept(q, w, s)
  BY <1>1, <1>9 DEF LockKept
<1>11. RecordKept(q, w, s)
  BY <1>1, <1>3, <1>7, <1>8, <1>9, Before DEF RecordKept
<1>12. CalmKept(q, w, s)
  BY <1>1, <1>3, <1>7, <1>8, <1>9 DEF CalmKept, CalmRequest, Waiting
<1> QED
  BY <1>9, <1>10, <1>11, <1>12, TurnKeepsInv

(* Left: the lock is given back by whoever still has it. *)
LEMMA LeftKeeps ==
    ASSUME WebInv, NEW q \in WebRequests, Left(q)
    PROVE  WebInv'
<1> DEFINE at == IF web[q].kind = "logout" /\ web[q].out = "ok" THEN "revoke" ELSE "done"
<1>1. /\ Served(q, "unlock") /\ web[q].at = "unlock"
      /\ UNCHANGED <<stored, ended, grant, issued, aged, lapsed, mishaps>>
      /\ lockedFor' = IF lockedFor = q THEN NoHolder ELSE lockedFor
      /\ wire' = [wire EXCEPT ![q] = <<>>]
  BY ServedDoes DEF Left
<1>2. SharedTypes'
  BY <1>1, ServedTypes DEF Waiting
<1>3. /\ web[q].kind = "use" /\ web[q].out = "ok" => web[q].seen # NoSession
      /\ mishaps = 0 => CalmRequest(web[q], wire[q])
  BY <1>1, Before DEF WebOrderly
<1>4. NowIs(q, Staged(web[q], at))
  BY DEF Left, Goes, Staged
<1>5. PICK stage \in {"revoke", "done"} : stage = at
  OBVIOUS
<1> HIDE DEF at
<1>6. PICK w \in WebStates :
          NowIs(q, w) /\ WebFields(w, stage, web[q].kind, web[q].seen, web[q].out, web[q].floor)
  BY <1>4, <1>5, Before, WebBecomes DEF WebStages, Waiting
<1>7. /\ w.kind = web[q].kind /\ w.seen = web[q].seen /\ w.out = web[q].out
      /\ w.floor = web[q].floor /\ w.at = stage
      /\ w.at = "revoke" <=> w.kind = "logout" /\ w.out = "ok"
  BY <1>5, <1>6 DEF WebFields, at
<1>8. Turn(q, w, <<>>) /\ ~Saves(<<>>) /\ ~Rotates(w) /\ ~Holds(w, <<>>)
  <2>1. /\ w.at \notin Waiting /\ w.at # "refresh"
        /\ w.kind = "use" /\ w.out = "ok" => w.at = "done" /\ w.seen # NoSession
    BY <1>3, <1>7 DEF Waiting
  <2> QED
    BY <1>1, <1>2, <1>6, <1>7, <2>1, RestTurn
<1>9. LockKept(q, w, <<>>)
  BY <1>1, <1>8 DEF LockKept
<1>10. RecordKept(q, w, <<>>)
  BY <1>1, <1>3, <1>7, <1>8, Before DEF RecordKept
<1>11. CalmKept(q, w, <<>>)
  BY <1>1, <1>3, <1>7, <1>8 DEF CalmKept, CalmRequest, Waiting
<1> QED
  BY <1>8, <1>9, <1>10, <1>11, TurnKeepsInv

(* A refresh that brings new tokens, and one after which the record goes *)
LEMMA RefreshKeeps ==
    ASSUME WebInv, NEW q \in WebRequests, Refresh(q)
    PROVE  WebInv'
<1>1. /\ web[q].at = "refresh" /\ UNCHANGED <<stored, lockedFor, ended, aged, lapsed>>
  BY DEF Refresh, InTime
<1>2. /\ wire[q] = <<>> /\ ~Saves(wire[q]) /\ Rotates(web[q]) /\ lockedFor = q
      /\ web[q].seen \in SessionRecords /\ web[q].kind = "use" /\ web[q].out # "ok"
      /\ mishaps = 0 => web[q].seen.refresh = grant
  BY <1>1, Before DEF WebOrderly, Rotates, Holds, Saves, CalmRequest
<1>3. /\ SharedTypes /\ issued \in Nat /\ grant \in Nat /\ MaxTokens \in Nat
      /\ web[q].seen.refresh \in 1..MaxTokens /\ web[q].seen.access <= issued
  BY <1>2, Before, WebAssumption DEF SessionRecords, SharedTypes
<1>4. ASSUME NowIs(q, Answering(web[q], "delete", "503")), Ask(q, "delete"), mishaps' # 0,
             grant' \in 0..MaxTokens, issued' \in 1..MaxTokens, issued <= issued',
             mishaps' \in 0..MaxMishaps
      PROVE  WebInv'
  <2>1. SharedTypes'
    BY <1>1, <1>3, <1>4 DEF SharedTypes
  <2>2. PICK w \in WebStates :
            NowIs(q, w) /\ WebFields(w, "delete", "use", web[q].seen, "503", web[q].floor)
    BY <1>2, <1>4, WebBecomes DEF WebStages, Waiting, Outcomes
  <2> DEFINE s == Command("delete", NoSession)
  <2>3. Turn(q, w, s) /\ ~Saves(s) /\ ~Rotates(w)
    BY <1>4, <2>1, <2>2, WaitTurn DEF WebFields, Ask, Ops, Waiting, WaitsFor
  <2> HIDE DEF s
  <2>4. LockKept(q, w, s)
    BY <1>1, <1>2 DEF LockKept
  <2>5. web[q].seen.access <= issued'
    BY <1>2, <1>3, <1>4, WebAssumption DEF SessionRecords
  <2>6. RecordKept(q, w, s)
    BY <1>1, <1>4, <2>2, <2>3, <2>5, Before DEF RecordKept, WebFields
  <2>7. CalmKept(q, w, s)
    BY <1>4 DEF CalmKept
  <2> QED
    BY <2>3, <2>4, <2>6, <2>7, TurnKeepsInv
<1>5. ASSUME NEW v, v = [access |-> issued + 1, refresh |-> grant'],
             web[q].seen.refresh = grant, issued < MaxTokens, issued' = issued + 1,
             grant' \in {grant, issued + 1}, mishaps' = mishaps,
             NowIs(q, Renewed(web[q], "rotate", v)), Save(q, v)
      PROVE  WebInv'
  <2>1. SharedTypes'
    BY <1>1, <1>3, <1>5 DEF SharedTypes
  <2>2. v \in SessionRecords /\ v.access = issued' /\ v.refresh = grant' /\ v # NoSession
    <3>1. issued + 1 \in 1..MaxTokens /\ grant' \in 1..MaxTokens
      BY <1>3, <1>5
    <3>2. v \in SessionRecords /\ v.access = issued' /\ v.refresh = grant'
      BY <1>5, <3>1 DEF SessionRecords
    <3> QED
      BY <3>2, WebAssumption DEF SessionRecords
  <2>3. PICK w \in WebStates :
            NowIs(q, w) /\ WebFields(w, "rotate", "use", v, web[q].out, web[q].floor)
    BY <1>2, <1>5, <2>2, WebBecomes DEF WebStages, Waiting, Outcomes
  <2> DEFINE s == Command("save", v)
  <2>4. Turn(q, w, s) /\ Saves(s) /\ s # <<>> /\ Len(s) = 1
    <3>1. w.at \in Waiting /\ WaitsFor(w) = "save" /\ w.kind = "use" /\ w.out # "ok" /\ w.seen = v
      BY <1>2, <2>3 DEF Waiting, WaitsFor, WebFields
    <3> QED
      BY <1>5, <2>1, <2>2, <2>3, <3>1, WaitTurn DEF Save, Ops
  <2> HIDE DEF s
  <2>5. LockKept(q, w, s)
    BY <1>1, <1>2 DEF LockKept
  <2>6. RecordKept(q, w, s)
    <3>1. issued <= issued' /\ v.access <= issued'
      BY <1>3, <1>5, <2>2
    <3> QED
      BY <1>1, <1>2, <2>2, <2>3, <2>4, <3>1, Before DEF RecordKept, WebFields
  <2>7. CalmKept(q, w, s)
    BY <1>1, <1>2, <1>5, <2>2, <2>3, <2>4 DEF CalmKept, CalmRequest, Waiting, WebFields
  <2> QED
    BY <2>4, <2>5, <2>6, <2>7, TurnKeepsInv
<1>6. Mishap => mishaps' \in 0..MaxMishaps /\ mishaps' # 0
  BY MishapCounts
<1>7. ASSUME web[q].seen.refresh = grant, issued < MaxTokens, issued' = issued + 1,
             grant' \in {grant, issued + 1},
             \/ LET next == [access |-> issued + 1, refresh |-> grant']
                IN  /\ NowIs(q, [web[q] EXCEPT !.at = "rotate", !.seen = next])
                    /\ Save(q, next)
                    /\ UNCHANGED mishaps
             \/ Mishap /\ Delete(q, web[q], "503")
      PROVE  WebInv'
  <2>1. CASE Mishap /\ Delete(q, web[q], "503")
    BY <1>3, <1>4, <1>6, <1>7, <2>1 DEF Delete, Answering, SharedTypes
  <2>2. CASE ~(Mishap /\ Delete(q, web[q], "503"))
    <3>1. PICK v : v = [access |-> issued + 1, refresh |-> grant']
      OBVIOUS
    <3>2. NowIs(q, Renewed(web[q], "rotate", v)) /\ Save(q, v) /\ mishaps' = mishaps
      BY <1>7, <2>2, <3>1 DEF Renewed
    <3> QED
      BY <1>5, <1>7, <3>1, <3>2
  <2> QED
    BY <2>1, <2>2
<1>8. ASSUME web[q].seen.refresh # grant, grant' \in {grant, 0}, Delete(q, web[q], "503"),
             issued' = issued, mishaps' = mishaps
      PROVE  WebInv'
  BY <1>2, <1>3, <1>4, <1>8 DEF Delete, Answering, SharedTypes
<1>9. ASSUME Mishap, Delete(q, web[q], "503"), UNCHANGED <<grant, issued>>
      PROVE  WebInv'
  BY <1>3, <1>4, <1>6, <1>9 DEF Delete, Answering, SharedTypes
<1> QED
  BY <1>7, <1>8, <1>9 DEF Refresh, AtProvider

(* Two commands behind each other *)
LEMMA QueueFacts ==
    ASSUME NEW old \in Seq(RedisCommands), Len(old) = 1, NEW c \in Seq(RedisCommands), Len(c) = 1
    PROVE  LET s == old \o c
           IN  /\ s \in Seq(RedisCommands) /\ Len(s) = 2 /\ s # <<>>
               /\ s[1] = old[1] /\ s[2] = c[1] /\ Head(s) = old[1] /\ Head(old) = old[1]
               /\ <<>> \o c = c /\ old # <<>> /\ c # <<>>
<1> DEFINE s == old \o c
<1>1. s \in Seq(RedisCommands) /\ Len(s) = 2 /\ s[1] = old[1] /\ s[2] = c[1]
  <2>1. s \in Seq(RedisCommands) /\ Len(s) = 2
    BY ConcatProperties
  <2>2. s[1] = old[1]
    BY ConcatProperties
  <2>3. s[2] = c[1]
    <3>1. Len(s) = 2 /\ 2 \in 1..2 /\ ~(2 <= Len(old)) /\ 2 - Len(old) = 1
      BY <2>1
    <3>2. s[2] = c[2 - Len(old)]
      BY <3>1, ConcatProperties
    <3> QED
      BY <3>1, <3>2
  <2> QED
    BY <2>1, <2>2, <2>3
<1>2. old # <<>> /\ c # <<>>
  OBVIOUS
<1>5. Head(old) = old[1]
  BY <1>2
<1>4. <<>> \o c = c
  BY ConcatEmptySeq
<1> HIDE DEF s
<1>3. s # <<>> /\ Head(s) = s[1]
  BY <1>1
<1> QED
  BY <1>1, <1>2, <1>3, <1>4, <1>5 DEF s

(* The commands of a request that stops waiting: the one it waited for or  *)
(* none, and perhaps another behind it.                                    *)
Remains(s, old, op) ==
    /\ s \in Seq(RedisCommands) /\ Len(s) <= 2
    /\ Saves(s) => Saves(old) /\ s[1] = old[1]
    /\ Len(s) = 2 => s[1] = old[1]
    /\ Writes(s) => Writes(old) \/ op = "delete"

(* What a request that stopped waiting leaves on the wire *)
LEMMA LeftBehind ==
    ASSUME NEW old \in Seq(RedisCommands), Len(old) = 1, NEW op \in {"delete", "unlock"}
    PROVE  /\ \A rest \in {old, <<>>} : Remains(rest, old, "none") /\ Len(rest) <= 1
           /\ \A rest \in {old, <<>>} :
                 LET s == rest \o Command(op, NoSession)
                 IN  Remains(s, old, op) /\ s # <<>> /\ s[Len(s)].op = op
<1> DEFINE c == Command(op, NoSession)
<1>1. c \in Seq(RedisCommands) /\ Len(c) = 1 /\ c # <<>> /\ c[1].op = op /\ Head(c).op = op
  BY CommandFacts DEF Ops
<1> HIDE DEF c
<1>2. Remains(<<>>, old, "none") /\ Len(<<>>) = 0
  BY DEF Remains, Saves, Writes
<1>3. Remains(old, old, "none") /\ old # <<>>
  <2>1. old # <<>>
    OBVIOUS
  <2> QED
    BY <2>1 DEF Remains
<1>4. Remains(c, old, op) /\ c[Len(c)].op = op
  BY <1>1 DEF Remains, Saves, Writes
<1>5. PICK s : s = old \o c
  OBVIOUS
<1>6. /\ s \in Seq(RedisCommands) /\ Len(s) = 2 /\ s # <<>> /\ s[1] = old[1] /\ s[2] = c[1]
      /\ Head(s) = old[1] /\ Head(old) = old[1] /\ old # <<>> /\ <<>> \o c = c
  BY <1>1, <1>5, QueueFacts
<1>7. Remains(s, old, op) /\ s[Len(s)].op = op
  <2>1. (Saves(s) => Saves(old)) /\ (Writes(s) => Writes(old))
    BY <1>6 DEF Saves, Writes
  <2>2. s[Len(s)].op = op
    BY <1>1, <1>6
  <2>3. Len(s) <= 2
    BY <1>6
  <2> QED
    BY <1>6, <2>1, <2>2, <2>3 DEF Remains
<1>8. ASSUME NEW rest \in {old, <<>>}
      PROVE  LET t == rest \o c
             IN  Remains(t, old, op) /\ t # <<>> /\ t[Len(t)].op = op
  <2>1. rest \o c = s \/ rest \o c = c
    BY <1>5, <1>6
  <2>2. Remains(s, old, op) /\ s # <<>> /\ s[Len(s)].op = op
    BY <1>6, <1>7
  <2>3. Remains(c, old, op) /\ c # <<>> /\ c[Len(c)].op = op
    BY <1>1, <1>4
  <2> QED
    BY <2>1, <2>2, <2>3
<1>9. ASSUME NEW rest \in {old, <<>>}
      PROVE  Remains(rest, old, "none") /\ Len(rest) <= 1
  <2>1. Len(old) <= 1 /\ Len(<<>>) <= 1
    BY <1>2
  <2> QED
    BY <1>2, <1>3, <2>1, Zenon
<1> QED
  BY <1>8, <1>9 DEF c

(* A request that stops waiting goes on to unlock, to delete, or nowhere.  *)
LEMMA StopsWaiting ==
    ASSUME WebInv, NEW q \in WebRequests, Awaits(q), mishaps' # 0, SharedTypes',
           UNCHANGED <<stored, lockedFor, ended, issued>>,
           NEW at \in {"done", "unlock", "delete"}, NowIs(q, Answering(web[q], at, "503")),
           NEW s, wire' = [wire EXCEPT ![q] = s],
           NEW op \in {"none", "unlock", "delete"}, Remains(s, wire[q], op),
           at = "done" => Len(s) <= 1 /\ op = "none",
           at # "done" => s # <<>> /\ s[Len(s)].op = at /\ op = at,
           web[q].at \in {"lock", "unlock"} => Len(s) <= 1 /\ at = "done"
    PROVE  WebInv'
<1>1. /\ wire[q] \in Seq(RedisCommands) /\ Len(wire[q]) = 1 /\ Head(wire[q]) = wire[q][1]
      /\ wire[q][1].op = WaitsFor(web[q]) /\ web[q].at \in Waiting
      /\ Saves(wire[q]) => /\ wire[q][1].value = web[q].seen /\ web[q].seen # NoSession
                           /\ web[q].kind = "use"
  <2>1. wire[q] \in Seq(RedisCommands) /\ Len(wire[q]) = 1 /\ web[q].at \in Waiting
    BY DEF WebInv, WebTypes, Awaits
  <2>2. Head(wire[q]) = wire[q][1]
    BY <2>1
  <2> QED
    BY <2>1, <2>2, AwaitedCommand DEF WebInv
<1>2. PICK w \in WebStates :
          NowIs(q, w) /\ WebFields(w, at, web[q].kind, web[q].seen, "503", web[q].floor)
  BY WebBecomes DEF WebStages, Waiting, Outcomes
<1>3. /\ w.at = at /\ w.kind = web[q].kind /\ w.seen = web[q].seen /\ w.out = "503"
      /\ w.floor = web[q].floor /\ ~Rotates(w)
  BY <1>2 DEF WebFields, Rotates
<1>4. Saves(s) => /\ Saves(wire[q]) /\ s[1].value = w.seen /\ w.seen # NoSession
                  /\ w.kind = "use"
  BY <1>1, <1>3 DEF Remains
<1>5. WebOrderly(w, s)
  <2>1. Len(s) = 2 => s[1].op \in {"get", "save", "delete"}
    <3>1. Len(s) = 2 => s[1].op = WaitsFor(web[q])
      BY <1>1 DEF Remains
    <3>2. Len(s) = 2 => web[q].at \in Waiting \ {"lock", "unlock"}
      BY <1>1
    <3> QED
      BY <3>1, <3>2 DEF WaitsFor, Waiting
  <2>2. w.at \in Waiting => s # <<>> /\ s[Len(s)].op = WaitsFor(w)
    BY <1>3 DEF Waiting, WaitsFor
  <2>3. w.at \notin Waiting \ {"delete", "unlock"} /\ w.at \notin {"idle", "refresh", "revoke", "get"}
    BY <1>3 DEF Waiting
  <2>4. Len(s) <= 2 /\ (w.at = "done" => Len(s) <= 1)
    BY <1>3 DEF Remains
  <2> QED
    BY <1>3, <1>4, <2>1, <2>2, <2>3, <2>4 DEF WebOrderly
<1>6. Turn(q, w, s)
  BY <1>2, <1>5 DEF Turn, NowIs, Remains
<1>7. Holds(w, s) => Holds(web[q], wire[q])
  <2>1. CASE op = "delete"
    <3>1. web[q].at \in {"get", "rotate", "touch", "delete"}
      BY <1>1, <2>1 DEF Waiting
    <3> QED
      BY <3>1 DEF Holds
  <2>2. CASE op # "delete"
    BY <1>3, <2>2 DEF Holds, Remains
  <2> QED
    BY <2>1, <2>2
<1>8. LockKept(q, w, s)
  BY <1>7, Before DEF LockKept
<1>9. RecordKept(q, w, s)
  BY <1>3, <1>4, Before DEF RecordKept
<1>10. CalmKept(q, w, s)
  BY DEF CalmKept
<1> QED
  BY <1>6, <1>8, <1>9, <1>10, TurnKeepsInv

(* TimeOut: the command may still be on its way. *)
LEMMA TimeOutKeeps ==
    ASSUME WebInv, NEW q \in WebRequests, TimeOut(q)
    PROVE  WebInv'
<1>1. /\ Awaits(q) /\ Mishap /\ UNCHANGED <<stored, lockedFor, ended>>
      /\ UNCHANGED <<grant, issued, aged, lapsed>>
  BY DEF TimeOut, AtProvider, InTime
<1>2. mishaps' # 0 /\ SharedTypes'
  BY <1>1, MishapCounts DEF WebInv, WebTypes, SharedTypes
<1>3. wire[q] \in Seq(RedisCommands) /\ Len(wire[q]) = 1 /\ web[q].at \in Waiting
  BY <1>1 DEF WebInv, WebTypes, Awaits
<1>4. PICK rest \in {wire[q], <<>>}, sent \in BOOLEAN :
          \/ /\ web[q].at \in {"lock", "unlock"} /\ ~sent
             /\ NowIs(q, Answering(web[q], "done", "503")) /\ wire' = [wire EXCEPT ![q] = rest]
          \/ /\ web[q].at \notin {"lock", "unlock"} /\ sent
             /\ NowIs(q, Answering(web[q], "delete", "503"))
             /\ wire' = [wire EXCEPT ![q] = rest \o Command("delete", NoSession)]
          \/ /\ web[q].at \notin {"lock", "unlock"} /\ sent
             /\ NowIs(q, Answering(web[q], "unlock", "503"))
             /\ wire' = [wire EXCEPT ![q] = rest \o Command("unlock", NoSession)]
          \/ /\ web[q].at \notin {"lock", "unlock"} /\ ~sent
             /\ NowIs(q, Answering(web[q], "done", "503")) /\ wire' = [wire EXCEPT ![q] = rest]
  <2>1. CASE web[q].at \in {"lock", "unlock"}
    BY <2>1 DEF TimeOut, Answering
  <2>2. CASE web[q].at = "rotate"
    BY <2>2 DEF TimeOut, Answering
  <2>3. CASE web[q].at \notin {"lock", "unlock", "rotate"}
    BY <2>3 DEF TimeOut, Answering
  <2> QED
    BY <2>1, <2>2, <2>3
<1>5. Remains(rest, wire[q], "none") /\ Len(rest) <= 1
  BY <1>3, LeftBehind
<1>6. CASE NowIs(q, Answering(web[q], "done", "503")) /\ wire' = [wire EXCEPT ![q] = rest]
  BY <1>1, <1>2, <1>5, <1>6, StopsWaiting
<1>7. ASSUME NEW op \in {"delete", "unlock"}, web[q].at \notin {"lock", "unlock"},
             NowIs(q, Answering(web[q], op, "503")),
             wire' = [wire EXCEPT ![q] = rest \o Command(op, NoSession)]
      PROVE  WebInv'
  <2>1. PICK s : s = rest \o Command(op, NoSession)
    OBVIOUS
  <2>2. Remains(s, wire[q], op) /\ s # <<>> /\ s[Len(s)].op = op
    BY <1>3, <2>1, LeftBehind
  <2> QED
    BY <1>1, <1>2, <1>7, <2>1, <2>2, StopsWaiting
<1> QED
  BY <1>4, <1>6, <1>7

(* A command that is executed late changes nothing but Redis. *)
LEMMA LateKeeps ==
    ASSUME WebInv, NEW q \in WebRequests, Late(q)
    PROVE  WebInv'
<1>1. /\ wire[q] # <<>> /\ ~Awaits(q) /\ Redis(q)
      /\ wire' = [wire EXCEPT ![q] = Tail(wire[q])]
      /\ UNCHANGED <<web, mishaps, grant, issued, aged, lapsed>>
  BY DEF Late, AtProvider, InTime
<1>2. PICK w \in WebStates, old \in Seq(RedisCommands), s \in Seq(RedisCommands) :
          w = web[q] /\ old = wire[q] /\ s = Tail(wire[q])
  <2>1. web[q] \in WebStates /\ wire[q] \in Seq(RedisCommands)
    BY DEF WebInv, WebTypes
  <2> QED
    BY <1>1, <2>1, HeadTailProperties
<1>3. /\ WebOrderly(w, old) /\ old # <<>> /\ Head(old) = old[1] /\ old[1] \in RedisCommands
      /\ ended \in BOOLEAN /\ SharedTypes
  BY <1>1, <1>2, Before DEF SharedTypes
<1>4. Len(s) = Len(old) - 1 /\ Len(old) \in 1..2 /\ (Len(old) = 2 => s[1] = old[2])
  <2>1. Len(old) <= 2
    BY <1>3 DEF WebOrderly
  <2>2. Len(old) \in Nat \ {0}
    BY <1>3, EmptySeq
  <2>3. Len(s) = Len(old) - 1 /\ \A i \in 1..Len(s) : s[i] = old[i + 1]
    BY <1>2, <1>3, HeadTailProperties
  <2> QED
    BY <2>1, <2>2, <2>3
<1>5. \/ Len(old) = 1 /\ s = <<>> /\ w.at = "done"
      \/ /\ Len(old) = 2 /\ Len(s) = 1 /\ s # <<>> /\ Head(s).op = w.at
         /\ w.at \in {"delete", "unlock"} /\ s[Len(s)].op = w.at
         /\ old[1].op \in {"get", "save", "delete"}
  <2>1. CASE Len(old) = 1
    <3>1. w.at = "done"
      BY <1>1, <1>2, <1>3, <2>1 DEF WebOrderly, Awaits, WebStates, WebStages
    <3>2. s = <<>>
      BY <1>4, <2>1, EmptySeq
    <3> QED
      BY <2>1, <3>1, <3>2
  <2>2. CASE Len(old) = 2
    <3>1. w.at \in {"delete", "unlock"} /\ old[1].op \in {"get", "save", "delete"}
      BY <1>3, <2>2 DEF WebOrderly, WebStates, WebStages
    <3>2. old[Len(old)].op = w.at
      BY <1>3, <3>1 DEF WebOrderly, Waiting, WaitsFor
    <3>3. Len(s) = 1 /\ s[1].op = w.at
      BY <1>4, <2>2, <3>2
    <3>4. s # <<>> /\ Head(s) = s[1]
      BY <3>3, QueueFacts
    <3> QED
      BY <2>2, <3>1, <3>3, <3>4
  <2> QED
    BY <1>4, <2>1, <2>2
<1>6. mishaps' # 0
  BY <1>1, <1>2, <1>5, Before DEF CalmRequest, Waiting
<1>7. ~Saves(s) /\ ~Rotates(w) /\ w.at \notin {"idle", "refresh", "revoke", "get"}
  BY <1>5 DEF Saves, Rotates
<1>8. WebOrderly(w, s)
  <2>1. CASE s = <<>> /\ w.at = "done"
    BY <1>3, <1>7, <2>1 DEF WebOrderly, Waiting
  <2>2. CASE s # <<>>
    BY <1>3, <1>5, <1>7, <2>2 DEF WebOrderly, Waiting, WaitsFor
  <2> QED
    BY <1>5, <2>1, <2>2
<1>9. LET op == old[1].op
      IN  /\ op \in Ops
          /\ op = "save" => /\ stored' = w.seen /\ Saves(wire[q])
                            /\ lockedFor' = lockedFor /\ ended' = ended
          /\ op = "delete" => /\ stored' = NoSession /\ lockedFor' = lockedFor
                              /\ ended' = (ended \/ w.kind # "use")
          /\ op \in {"lock", "get", "unlock"} => stored' = stored /\ ended' = ended
          /\ op = "get" => lockedFor' = lockedFor
          /\ op = "lock" => lockedFor' = IF lockedFor = NoHolder THEN q ELSE lockedFor
          /\ op = "unlock" => lockedFor' = IF lockedFor = q THEN NoHolder ELSE lockedFor
  <2>1. old[1].op \in Ops
    BY <1>3 DEF RedisCommands
  <2>2. old[1].op = "save" => Saves(wire[q]) /\ old[1].value = w.seen
    BY <1>2, <1>3 DEF Saves, WebOrderly
  <2> QED
    BY <1>1, <1>2, <1>3, <2>1, <2>2, RedisDoes
<1>10. /\ stored' \in {stored, NoSession} \/ (Saves(wire[q]) /\ stored' = w.seen)
       /\ lockedFor' = lockedFor \/ lockedFor \in {q, NoHolder}
       /\ lockedFor' \in {lockedFor, q, NoHolder} /\ ended' \in BOOLEAN
       /\ ended' # ended => /\ ended' /\ stored' = NoSession /\ old[1].op = "delete"
                            /\ w.kind # "use"
       /\ old[1].op \in {"get", "save", "delete"} => lockedFor' = lockedFor
  BY <1>3, <1>9 DEF Ops
<1>11. SharedTypes'
  <2>1. w.seen \in SessionRecords \cup {NoSession}
    BY DEF WebStates
  <2> QED
    BY <1>1, <1>3, <1>10, <2>1 DEF SharedTypes
<1>12. Turn(q, w, s)
  <2>1. web' = [web EXCEPT ![q] = w]
    BY <1>1, <1>2 DEF WebInv, WebTypes
  <2> QED
    BY <1>1, <1>2, <1>8, <1>11, <2>1 DEF Turn
<1>13. LockKept(q, w, s)
  <2>1. Holds(w, s) => w.at = "delete" /\ lockedFor' = lockedFor
    BY <1>5, <1>7, <1>10 DEF Holds, Writes
  <2>2. Holds(w, s) => lockedFor' = q
    BY <1>2, <2>1, Before DEF Holds
  <2> QED
    BY <1>10, <2>2 DEF LockKept
<1>14. RecordKept(q, w, s)
  <2>1. old[1].op = "delete" => Holds(web[q], wire[q])
    BY <1>2, <1>3 DEF Holds, Writes
  <2> QED
    BY <1>1, <1>2, <1>7, <1>10, <2>1, Before DEF RecordKept
<1>15. CalmKept(q, w, s)
  BY <1>6 DEF CalmKept
<1> QED
  BY <1>12, <1>13, <1>14, <1>15, TurnKeepsInv

(* The lock expires when its holder is through with the session. *)
LEMMA LeaseKeeps ==
    ASSUME WebInv, LeaseExpires
    PROVE  WebInv'
<1>1. /\ lockedFor \in WebRequests /\ LeaseOver(lockedFor) /\ lockedFor' = NoHolder
      /\ UNCHANGED <<stored, wire, web, ended, mishaps, grant, issued, aged, lapsed>>
  BY DEF LeaseExpires, WebInv, WebTypes, SharedTypes, AtProvider, InTime
<1>2. \A r \in WebRequests : ~Holds(web[r], wire[r])
  <2>1. ASSUME NEW r \in WebRequests, Holds(web[r], wire[r])
        PROVE  FALSE
    <3>1. lockedFor = r
      BY <2>1 DEF WebInv, WebLockInv
    <3> QED
      BY <1>1, <2>1, <3>1 DEF LeaseOver, Holds, Writes
  <2> QED
    BY <2>1
<1>3. WebTypes'
  BY <1>1 DEF WebInv, WebTypes, SharedTypes
<1>4. WebLockInv'
  BY <1>1, <1>2 DEF WebLockInv, Holds, Writes
<1>5. EndInv' /\ TokenInv'
  BY <1>1 DEF WebInv, EndInv, TokenInv, Above, Rotates, Saves
<1>6. CalmInv'
  BY <1>1 DEF WebInv, CalmInv, CalmRequest, Rotates
<1> QED
  BY <1>3, <1>4, <1>5, <1>6 DEF WebInv

(* Time passes. *)
LEMMA TimeKeeps ==
    ASSUME WebInv, AccessAges \/ SessionLapses \/ RecordExpires
    PROVE  WebInv'
<1>1. /\ stored' \in {stored, NoSession} /\ (lapsed => lapsed') /\ (stored' # stored => lapsed)
      /\ aged' \in 0..MaxTokens /\ lapsed' \in BOOLEAN
      /\ UNCHANGED <<lockedFor, wire, web, ended, mishaps, grant, issued>>
  <2>1. stored # NoSession => stored.access \in 0..MaxTokens
    BY WebAssumption DEF WebInv, WebTypes, SharedTypes, SessionRecords
  <2>2. aged \in 0..MaxTokens /\ lapsed \in BOOLEAN
    BY DEF WebInv, WebTypes, SharedTypes
  <2> QED
    BY <2>1, <2>2 DEF AccessAges, SessionLapses, RecordExpires, AtProvider, InTime
<1>2. WebTypes'
  BY <1>1 DEF WebInv, WebTypes, SharedTypes
<1>3. WebLockInv' /\ EndInv'
  BY <1>1 DEF WebInv, WebLockInv, EndInv, Holds, Writes, Rotates, Saves
<1>4. TokenInv'
  <2>1. \A n : Above(n) => Above(n)'
    BY <1>1 DEF Above, Rotates, Saves
  <2> QED
    BY <1>1, <2>1 DEF WebInv, TokenInv, Above, Rotates, Saves
<1>5. CalmInv'
  BY <1>1 DEF WebInv, CalmInv, CalmRequest, Rotates
<1> QED
  BY <1>2, <1>3, <1>4, <1>5 DEF WebInv

(* A new session *)
LEMMA SessionStarts == WebInit => WebInv
<1> SUFFICES ASSUME WebInit PROVE WebInv
  OBVIOUS
<1>1. /\ stored = [access |-> 1, refresh |-> 1] /\ stored \in SessionRecords
      /\ lockedFor = NoHolder /\ grant = 1 /\ issued = 1 /\ aged = 0
      /\ lapsed = FALSE /\ ended = FALSE /\ mishaps = 0
  BY WebAssumption DEF WebInit, SessionRecords
<1>2. SharedTypes
  <2>1. /\ 1 \in 0..MaxTokens /\ 1 \in 1..MaxTokens /\ 0 \in 0..MaxTokens
        /\ 0 \in 0..MaxMishaps
    BY WebAssumption
  <2>2. stored \in SessionRecords
    BY <1>1
  <2>3. grant = 1 /\ issued = 1 /\ aged = 0 /\ lapsed = FALSE /\ ended = FALSE /\ mishaps = 0
    BY <1>1
  <2> QED
    BY <1>1, <2>1, <2>2, <2>3, Zenon DEF SharedTypes
<1>3. /\ Unstarted \in WebStates /\ Unstarted.at = "idle" /\ Unstarted.seen = NoSession
      /\ Unstarted.kind = "use" /\ Unstarted.out = "none" /\ Unstarted.floor = 0
  <2>1. /\ Unstarted.at = "idle" /\ Unstarted.seen = NoSession /\ Unstarted.kind = "use"
        /\ Unstarted.out = "none" /\ Unstarted.floor = 0
    BY DEF Unstarted
  <2>2. Unstarted \in WebStates
    BY WebAssumption DEF Unstarted, WebStates, WebStages, WebKinds, Outcomes
  <2> QED
    BY <2>1, <2>2
<1>4. \A q \in WebRequests : web[q] = Unstarted /\ wire[q] = <<>>
  BY DEF WebInit
<1>5. /\ ~Saves(<<>>) /\ ~Writes(<<>>) /\ Len(<<>>) = 0 /\ ~Rotates(Unstarted)
      /\ WebOrderly(Unstarted, <<>>) /\ <<>> \in Seq(RedisCommands)
  BY <1>3, NothingSent DEF Waiting, Rotates
<1>6. WebTypes
  <2>1. web \in [WebRequests -> WebStates] /\ wire \in [WebRequests -> Seq(RedisCommands)]
    BY <1>3, <1>5 DEF WebInit
  <2> QED
    BY <1>2, <1>4, <1>5, <2>1 DEF WebTypes
<1>7. WebLockInv /\ EndInv
  BY <1>1, <1>3, <1>4, <1>5 DEF WebLockInv, EndInv, Holds
<1>8. TokenInv
  <2>1. stored.access = 1 /\ Above(0)
    BY <1>1, <1>4, <1>5 DEF Above
  <2> QED
    BY <1>1, <1>3, <1>4, <2>1 DEF TokenInv
<1>9. CalmInv
  <2>1. stored.refresh = grant /\ stored # NoSession
    BY <1>1, WebAssumption DEF SessionRecords
  <2>2. CalmRequest(Unstarted, <<>>)
    BY <1>3, <1>5 DEF CalmRequest, Waiting
  <2>3. \A q \in WebRequests : CalmRequest(web[q], wire[q])
    BY <1>4, <2>2
  <2> QED
    BY <2>1, <2>3 DEF CalmInv
<1> QED
  BY <1>6, <1>7, <1>8, <1>9 DEF WebInv

(* WebInv is inductive. *)
LEMMA SessionKeepsInv == WebInv /\ [WebNext]_webVars => WebInv'
<1> SUFFICES ASSUME WebInv, [WebNext]_webVars PROVE WebInv'
  OBVIOUS
<1>1. CASE UNCHANGED webVars
  BY <1>1 DEF webVars, WebInv, WebTypes, SharedTypes, WebLockInv, EndInv, TokenInv, CalmInv,
              Above, CalmRequest, Holds, Writes, Rotates, Saves
<1>2. ASSUME NEW q \in WebRequests,
             \/ Visit(q) \/ Locked(q) \/ GiveUp(q) \/ Read(q) \/ Refresh(q) \/ Rotated(q)
             \/ Touched(q) \/ Deleted(q) \/ Left(q) \/ Revoke(q) \/ TimeOut(q) \/ Late(q)
      PROVE  WebInv'
  BY <1>2, VisitKeeps, LockedKeeps, GiveUpKeeps, ReadKeeps, RefreshKeeps, RotatedKeeps,
     TouchedKeeps, DeletedKeeps, LeftKeeps, RevokeKeeps, TimeOutKeeps, LateKeeps
<1>3. CASE LeaseExpires \/ AccessAges \/ SessionLapses \/ RecordExpires
  BY <1>3, LeaseKeeps, TimeKeeps
<1> QED
  BY <1>1, <1>2, <1>3 DEF WebNext

(* It gives what a session promises. *)
LEMMA InvGivesSession == WebInv => SessionsTrue
<1> SUFFICES ASSUME WebInv PROVE SessionsTrue
  OBVIOUS
<1>1. EndedStays
  BY DEF WebInv, EndInv, EndedStays
<1>2. \A q \in WebRequests : Answered(q) => web[q].seen.access >= web[q].floor
  BY DEF WebInv, TokenInv, Answered
<1>3. ASSUME mishaps = 0, lockedFor = NoHolder, stored # NoSession
      PROVE  stored.refresh = grant
  <2>1. \A q \in WebRequests : web[q].at # "rotate"
    BY <1>3, WebAssumption DEF WebInv, WebLockInv, Holds
  <2> QED
    BY <1>3, <2>1 DEF WebInv, CalmInv
<1>4. ASSUME mishaps = 0
      PROVE  /\ stored = NoSession => ended \/ lapsed
             /\ \A q \in WebRequests :
                   web[q].at = "done" /\ web[q].kind = "logout" /\ web[q].out = "ok" => grant = 0
  BY <1>4 DEF WebInv, CalmInv, CalmRequest
<1> QED
  BY <1>1, <1>2, <1>3, <1>4 DEF SessionsTrue, RotationKept

(* Whatever requests, late commands, refused refreshes and expiries do to  *)
(* the session, what was ended stays away, no request answers with an      *)
(* older token than was in use when it began, and without mishaps nobody   *)
(* is signed out by a request beside his (SessionsTrue).                   *)
THEOREM SessionsAreTrue == WebInit /\ [][WebNext]_webVars => []SessionsTrue
  BY SessionStarts, SessionKeepsInv, InvGivesSession, PTL

-----------------------------------------------------------------------------
(* Types *)

(* The stored session is one the provider granted, tokens are numbered     *)
(* within the grants, and a request ends with one of the answers the web   *)
(* server gives (AuthService.resolveSession, logout).                      *)
THEOREM WebTypesKept == WebInit /\ [][WebNext]_webVars => []WebTypeOK
<1>1. WebInv => WebTypeOK
  BY DEF WebInv, WebTypes, SharedTypes, WebStates, WebStages, Outcomes, WebTypeOK
<1> QED
  BY <1>1, SessionStarts, SessionKeepsInv, PTL
=============================================================================
