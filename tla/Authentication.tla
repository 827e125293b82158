--------------------------- MODULE Authentication ---------------------------
(***************************************************************************)
(* OIDC verification in one API process (auth/verifier.py): bearer tokens  *)
(* are checked against signing keys cached from the identity provider.     *)
(* Requests run concurrently and meet at one refresh lock; a refresh takes *)
(* two fetches, during which time passes and the provider rotates its keys.*)
(***************************************************************************)
EXTENDS Integers, FiniteSets, FiniteSetsExt

CONSTANTS
    Calls,          \* connections, each with one request at a time
    CacheSeconds,   \* oidc_jwks_cache_seconds
    Cooldown,       \* oidc_refresh_cooldown_seconds
    TokenLife       \* longest life of a token

ASSUME AuthAssumption ==
    /\ CacheSeconds \in Nat \ {0} /\ Cooldown \in Nat \ {0} /\ TokenLife \in Nat
    /\ 0 \notin Calls       \* 0: nobody refreshes

(* Instants are kept as ages, which stop growing when they no longer matter *)
VARIABLES
    provider,   \* identity provider: keys it publishes and signs with
    keys,       \* _keys and the age of _refreshed_at
    refresh,    \* _refresh_lock, _last_refresh_attempt, _last_refresh_failed, fetch
    call        \* requests: their token and what became of it

authVars == <<provider, keys, refresh, call>>

Old == Max({CacheSeconds, Cooldown}) + 1
NoToken == [kid |-> "none", age |-> 0]

AuthInit ==
    /\ provider \in [planned : BOOLEAN, published : {{"old"}}, signs : {"old"}, waited : {0}]
    /\ keys = [set |-> {}, age |-> Old, asked |-> Old]
    /\ refresh = [holder |-> 0, tried |-> Old, failed |-> FALSE, stage |-> "none", got |-> {}]
    /\ call = [c \in Calls |-> [at |-> "idle", token |-> NoToken]]

Done == {"accepted", "unauthenticated", "unavailable"}

-----------------------------------------------------------------------------
(* The provider.  A planned rotation keeps to the waits of the operator's   *)
(* procedure; an emergency keeps to none.                                   *)

Rotate(next) == provider' = next /\ UNCHANGED <<keys, refresh, call>>

PublishNew ==
    /\ "new" \notin provider.published
    /\ Rotate([provider EXCEPT !.published = @ \cup {"new"}, !.waited = 0])

SignWithNew ==
    /\ provider.signs = "old" /\ "new" \in provider.published
    /\ provider.planned => provider.waited >= CacheSeconds
    /\ Rotate([provider EXCEPT !.signs = "new", !.waited = 0])

WithdrawOld ==
    /\ "old" \in provider.published /\ "new" \in provider.published
    /\ provider.planned => provider.signs = "new" /\ provider.waited >= TokenLife + CacheSeconds
    /\ Rotate([provider EXCEPT !.published = {"new"}, !.signs = "new", !.waited = 0])

-----------------------------------------------------------------------------
(* authenticate *)

CallTo(c, at) ==
    call' = [call EXCEPT ![c] = [at |-> at, token |-> IF at \in Done THEN NoToken ELSE @.token]]

(* A client comes with a token of the provider, or with one that only has   *)
(* an unknown key id                                                        *)
Arrive(c) ==
    /\ call[c].at \in {"idle"} \cup Done
    /\ \E kid \in {provider.signs, "forged"} :
         call' = [call EXCEPT ![c] = [at |-> "came", token |-> [kid |-> kid, age |-> 0]]]
    /\ UNCHANGED <<provider, keys, refresh>>

FreshSnapshot == keys.age <= CacheSeconds

Cached(c) == call[c].token.kid \in keys.set /\ FreshSnapshot

(* decode: the signature fits, and the token has not run out *)
TokenVerdict(c) == IF call[c].token.kid # "forged" /\ call[c].token.age <= TokenLife
              THEN "accepted" ELSE "unauthenticated"

(* _get_key without the lock *)
LookUp(c) ==
    /\ call[c].at = "came"
    /\ CallTo(c, IF Cached(c) THEN TokenVerdict(c) ELSE "queued")
    /\ UNCHANGED <<provider, keys, refresh>>

CoolingDown ==
    refresh.tried < Cooldown /\ (refresh.failed \/ FreshSnapshot)

(* Mutant: a key that is not known is refused, even after a failed fetch. *)
CooldownAnswer_NotFailed(kid) == IF kid \in keys.set THEN "unavailable" ELSE "unauthenticated"

CooldownAnswer(kid) ==
    IF kid \in keys.set \/ refresh.failed THEN "unavailable" ELSE "unauthenticated"

(* with the lock: look again, or answer from the cooldown, or start to fetch *)
Enter(c) ==
    /\ call[c].at = "queued" /\ refresh.holder = 0
    /\ \/ /\ Cached(c)
          /\ CallTo(c, TokenVerdict(c))
          /\ UNCHANGED refresh
       \/ /\ ~Cached(c) /\ CoolingDown
          /\ CallTo(c, CooldownAnswer(call[c].token.kid))
          /\ UNCHANGED refresh
       \/ /\ ~Cached(c) /\ ~CoolingDown
          /\ CallTo(c, "fetching")
          /\ refresh' = [refresh EXCEPT !.holder = c, !.tried = 0, !.stage = "metadata"]
    /\ UNCHANGED <<provider, keys>>

(* _refresh_keys: the discovery document, then the key set *)
FetchMetadata ==
    /\ refresh.stage = "metadata"
    /\ refresh' = [refresh EXCEPT !.stage = "keys"]
    /\ UNCHANGED <<provider, keys, call>>

FetchKeys ==
    /\ refresh.stage = "keys"
    /\ refresh' = [refresh EXCEPT !.stage = "read", !.got = provider.published]
    /\ UNCHANGED <<provider, keys, call>>

(* the time before the fetch *)
RefreshedAt == refresh.tried

Released(failed) ==
    refresh' = [refresh EXCEPT !.holder = 0, !.stage = "none", !.got = {}, !.failed = failed]

Install ==
    LET c == refresh.holder
    IN  /\ refresh.stage = "read"
        /\ keys' = [set |-> refresh.got, age |-> RefreshedAt, asked |-> refresh.tried]
        /\ Released(FALSE)
        /\ CallTo(c, IF call[c].token.kid \in refresh.got THEN TokenVerdict(c) ELSE "unauthenticated")
        /\ UNCHANGED <<provider>>

(* time-out, HTTP error, bad document *)
FetchFails ==
    /\ refresh.stage # "none"
    /\ Released(TRUE)
    /\ CallTo(refresh.holder, "unavailable")
    /\ UNCHANGED <<provider, keys>>

Older(age, cap) == IF age < cap THEN age + 1 ELSE age

Second ==
    /\ provider' = [provider EXCEPT !.waited = IF provider.planned
                                              THEN Older(@, TokenLife + CacheSeconds) ELSE 0]
    /\ keys' = [keys EXCEPT !.age = Older(@, Old), !.asked = Older(@, Old)]
    /\ refresh' = [refresh EXCEPT !.tried = Older(@, Old)]
    /\ call' = [c \in Calls |-> IF call[c].token = NoToken THEN call[c]
                                ELSE [call[c] EXCEPT !.token.age = Older(@, TokenLife + 1)]]

AuthNext ==
    \/ PublishNew \/ SignWithNew \/ WithdrawOld
    \/ \E c \in Calls : Arrive(c) \/ LookUp(c) \/ Enter(c)
    \/ FetchMetadata \/ FetchKeys \/ Install \/ FetchFails
    \/ Second

AuthSpec == AuthInit /\ [][AuthNext]_authVars

-----------------------------------------------------------------------------
(* Properties. *)

AuthTypeOK ==
    /\ provider.published \in {{"old"}, {"old", "new"}, {"new"}} /\ provider.signs \in {"old", "new"}
    /\ provider.waited \in 0..TokenLife + CacheSeconds
    /\ keys.set \subseteq {"old", "new"} /\ keys.age \in 0..Old /\ keys.asked \in 0..Old
    /\ refresh.holder \in Calls \cup {0} /\ refresh.stage \in {"none", "metadata", "keys", "read"}
    /\ refresh.tried \in 0..Old /\ refresh.failed \in BOOLEAN
    /\ \A c \in Calls : call[c].at \in {"idle", "came", "queued", "fetching"} \cup Done

(* No token is accepted on the word of a key set that was asked for more    *)
(* than the cache lifetime ago, however long its fetch took: a withdrawn    *)
(* key is trusted for that long and no longer (_get_key, _refresh_keys).    *)
TrustExpires ==
    [][\A c \in Calls :
          call[c].at \in {"came", "queued"} /\ call'[c].at = "accepted" =>
             keys.asked <= CacheSeconds]_authVars

(* Unknown key ids and failing fetches do not reach the provider more often *)
(* than once per cooldown, unless the keys of the last fetch have run out   *)
(* (docs/operations/oidc-authentication.md:21 "limited to once per ten      *)
(* seconds").                                                               *)
RefreshesSpaced ==
    [][refresh.holder = 0 /\ refresh'.holder # 0 =>
          \/ refresh.tried >= Cooldown
          \/ ~refresh.failed /\ keys.asked > CacheSeconds]_authVars

(* When the provider rotates as docs/operations/oidc-authentication.md:158  *)
(* asks, no token it signed is refused while it lives; the worst answer is  *)
(* that keys are unavailable.  This needs a cooldown that is no longer than *)
(* the cache lifetime, as the defaults are.                                 *)
PlannedRotationKeepsUsers ==
    [][\A c \in Calls :
          /\ Cooldown <= CacheSeconds /\ provider.planned
          /\ call[c].at \notin {"idle"} \cup Done /\ call'[c].at = "unauthenticated"
          => call[c].token.kid = "forged" \/ call[c].token.age > TokenLife]_authVars

(* The keys a process accepts follow the provider: withdrawn ones go, new   *)
(* ones come in time, and the provider is not flooded on the way            *)
(* (OidcTokenVerifier).                                                     *)
KeysFollowProvider == TrustExpires /\ RefreshesSpaced /\ PlannedRotationKeepsUsers
=============================================================================
