----------------------------- MODULE WebSession -----------------------------
(***************************************************************************)
(* One browser session of the web server (apps/web, lib/auth): its record  *)
(* and its lock in Redis, the requests that use, end or replace it, and    *)
(* the rotation of its tokens at the identity provider.                    *)
(*                                                                         *)
(* A command that times out for its caller may still reach Redis, after    *)
(* everything the same connection sent before it.  Requests are taken to   *)
(* be on different servers: on one they share a connection and are in      *)
(* order besides.  MemorySessionStore has the same operations without      *)
(* failures.  The id of a new login is unknown to everybody else.          *)
(***************************************************************************)
EXTENDS Naturals, Sequences

CONSTANTS
    WebRequests,   \* requests with the session's cookie
    NoHolder,      \* no lock key
    NoSession,     \* no record
    MaxTokens,     \* bound: access tokens issued to the session
    MaxMishaps     \* bound: commands that time out, provider calls that fail

ASSUME WebAssumption ==
    /\ MaxTokens \in Nat \ {0} /\ MaxMishaps \in Nat
    /\ NoHolder \notin WebRequests
    /\ NoSession \notin [access : 1..MaxTokens, refresh : 1..MaxTokens]

VARIABLES
    stored,     \* the record under the session's key
    lockedFor,   \* whose token the lock key holds
    wire,       \* commands of each request that Redis has not executed yet
    web,        \* the requests
    grant,      \* the refresh token the provider accepts; 0: none any more
    issued,     \* number of the newest access token
    aged,       \* access tokens up to this one are due for a refresh
    lapsed,     \* whether the session's time is over
    ended,      \* history: a logout or a login has deleted the record
    mishaps

webVars == <<stored, lockedFor, wire, web, grant, issued, aged, lapsed, ended, mishaps>>

SessionRecords == [access : 1..MaxTokens, refresh : 1..MaxTokens]

(* proxy and GET /auth/session; logout; completeLogin with the old cookie *)
WebKinds == {"use", "logout", "login"}

(* seen: the record the request works with; out: what it answers; floor:   *)
(* the newest access token that was in use when it began.                  *)
Unstarted == [at |-> "idle", kind |-> "use", seen |-> NoSession, out |-> "none", floor |-> 0]

WebInit ==
    /\ stored = [access |-> 1, refresh |-> 1]
    /\ lockedFor = NoHolder
    /\ wire = [q \in WebRequests |-> <<>>]
    /\ web = [q \in WebRequests |-> Unstarted]
    /\ grant = 1 /\ issued = 1 /\ aged = 0
    /\ lapsed = FALSE /\ ended = FALSE
    /\ mishaps = 0

Command(op, value) == <<[op |-> op, value |-> value]>>
Ask(q, op) == wire' = [wire EXCEPT ![q] = Command(op, NoSession)]
Save(q, record) == wire' = [wire EXCEPT ![q] = Command("save", record)]
NowIs(q, w) == web' = [web EXCEPT ![q] = w]
Goes(q, at) == NowIs(q, [web[q] EXCEPT !.at = at])
Mishap == mishaps < MaxMishaps /\ mishaps' = mishaps + 1

AtProvider == UNCHANGED <<grant, issued>>
InTime == UNCHANGED <<aged, lapsed>>
-----------------------------------------------------------------------------
(* Redis. *)

(* Mutant: SET without NX. *)
LockFree_Always == TRUE

(* SET key token NX *)
LockFree == lockedFor = NoHolder

Redis(q) ==
    LET c == Head(wire[q])
    IN  /\ stored' = CASE c.op = "save" -> c.value
                       [] c.op = "delete" -> NoSession
                       [] OTHER -> stored
        /\ lockedFor' = CASE c.op = "lock" /\ LockFree -> q
                         [] c.op = "unlock" /\ lockedFor = q -> NoHolder
                         [] OTHER -> lockedFor
        /\ ended' = (ended \/ (c.op = "delete" /\ web[q].kind # "use"))

(* The commands a request may wait for *)
Waiting == {"lock", "get", "rotate", "touch", "delete", "unlock"}
Awaits(q) == web[q].at \in Waiting /\ Len(wire[q]) = 1

(* Redis executes the command q waits for, and q gets the answer in time. *)
Served(q, at) ==
    /\ Awaits(q) /\ web[q].at = at
    /\ Redis(q)
    /\ AtProvider /\ InTime /\ UNCHANGED mishaps

(* A command nobody waits for any more *)
Late(q) ==
    /\ wire[q] # <<>> /\ ~Awaits(q)
    /\ Redis(q)
    /\ wire' = [wire EXCEPT ![q] = Tail(wire[q])]
    /\ UNCHANGED <<web, mishaps>> /\ AtProvider /\ InTime

(* The lock key outlives every command of its holder: PX is a minute, and  *)
(* a command (by default after two seconds) or a call of the provider is   *)
(* given up after ten seconds at most.                                     *)
LeaseOver(q) == web[q].at \in {"revoke", "done"} /\ wire[q] = <<>>

LeaseExpires ==
    /\ lockedFor # NoHolder
    /\ LeaseOver(lockedFor)
    /\ lockedFor' = NoHolder
    /\ UNCHANGED <<stored, wire, web, ended, mishaps>> /\ AtProvider /\ InTime
-----------------------------------------------------------------------------
(* A request. *)

Answered(q) == web[q].at = "done" /\ web[q].kind = "use" /\ web[q].out = "ok"

(* withSessionLock *)
Visit(q) ==
    /\ web[q].at = "idle"
    /\ \E kind \in WebKinds :
          NowIs(q, [Unstarted EXCEPT !.at = "lock", !.kind = kind,
              !.floor = LET used == {web[r].seen.access : r \in {s \in WebRequests : Answered(s)}}
                        IN  CHOOSE n \in used \cup {0} : \A m \in used : m <= n])
    /\ Ask(q, "lock")
    /\ UNCHANGED <<stored, lockedFor, ended, mishaps>> /\ AtProvider /\ InTime

(* The finally clause, with what is answered afterwards *)
Leave(q, out) ==
    /\ NowIs(q, [web[q] EXCEPT !.at = "unlock", !.out = out])
    /\ Ask(q, "unlock")

(* A held lock is asked for again every 20 ms ... *)
Locked(q) ==
    /\ LockFree
    /\ Served(q, "lock")
    /\ IF web[q].kind = "login"
       THEN NowIs(q, [web[q] EXCEPT !.at = "delete", !.out = "ok"]) /\ Ask(q, "delete")
       ELSE Goes(q, "get") /\ Ask(q, "get")

(* ... until the deadline. *)
GiveUp(q) ==
    /\ ~LockFree /\ Awaits(q) /\ web[q].at = "lock"
    /\ NowIs(q, [web[q] EXCEPT !.at = "done", !.out = "503"])
    /\ wire' = [wire EXCEPT ![q] = <<>>]
    /\ UNCHANGED <<stored, lockedFor, ended, mishaps>> /\ AtProvider /\ InTime

Delete(q, w, out) ==
    NowIs(q, [w EXCEPT !.at = "delete", !.out = out]) /\ Ask(q, "delete")

(* resolveSession and logout: the record is read under the lock *)
Read(q) ==
    LET w == [web[q] EXCEPT !.seen = stored]
    IN  /\ Served(q, "get")
        /\ IF stored = NoSession THEN Leave(q, "401")
           ELSE IF w.kind = "logout" THEN Delete(q, w, "ok")
           ELSE IF lapsed THEN Delete(q, w, "401")
           ELSE IF stored.access <= aged
                THEN NowIs(q, [w EXCEPT !.at = "refresh"]) /\ wire' = [wire EXCEPT ![q] = <<>>]
                ELSE NowIs(q, [w EXCEPT !.at = "touch"]) /\ Save(q, stored)

(* refreshLocked: the provider takes the current refresh token and may     *)
(* replace it, also when its answer does not arrive; any other token makes *)
(* it refuse, and perhaps give up the grant.                               *)
Refresh(q) ==
    LET seen == web[q].seen
    IN  /\ web[q].at = "refresh"
        /\ \/ /\ seen.refresh = grant
              /\ issued < MaxTokens /\ issued' = issued + 1
              /\ grant' \in {grant, issued + 1}
              /\ \/ LET next == [access |-> issued + 1, refresh |-> grant']
                    IN  /\ NowIs(q, [web[q] EXCEPT !.at = "rotate", !.seen = next])
                        /\ Save(q, next)
                        /\ UNCHANGED mishaps
                 \/ Mishap /\ Delete(q, web[q], "503")
           \/ /\ seen.refresh # grant
              /\ grant' \in {grant, 0}
              /\ Delete(q, web[q], "503")
              /\ UNCHANGED <<issued, mishaps>>
           \/ Mishap /\ Delete(q, web[q], "503") /\ AtProvider
        /\ UNCHANGED <<stored, lockedFor, ended>> /\ InTime

(* The refreshed record is stored, then its idle expiry is extended. *)
Rotated(q) == Served(q, "rotate") /\ Goes(q, "touch") /\ Save(q, web[q].seen)
Touched(q) == Served(q, "touch") /\ Leave(q, "ok")
Deleted(q) == Served(q, "delete") /\ Leave(q, web[q].out)

(* After the lock; a logout goes on to revoke the tokens it has read. *)
Left(q) ==
    /\ Served(q, "unlock")
    /\ Goes(q, IF web[q].kind = "logout" /\ web[q].out = "ok" THEN "revoke" ELSE "done")
    /\ wire' = [wire EXCEPT ![q] = <<>>]

Revoke(q) ==
    /\ web[q].at = "revoke"
    /\ \/ /\ grant' = IF web[q].seen.refresh = grant THEN 0 ELSE grant
          /\ UNCHANGED mishaps
       \/ Mishap /\ UNCHANGED grant
    /\ Goes(q, "done")
    /\ UNCHANGED <<stored, lockedFor, wire, issued, ended>> /\ InTime

(* bounded: the caller stops waiting.  The command stays on its way or is  *)
(* lost with the connection; then unlock has none until a reconnection.    *)
TimeOut(q) ==
    /\ Awaits(q) /\ Mishap
    /\ \E rest \in {wire[q], <<>>}, sent \in BOOLEAN :
          LET then(op) == wire' = [wire EXCEPT ![q] =
                              IF sent THEN rest \o Command(op, NoSession) ELSE rest]
          IN  CASE web[q].at \in {"lock", "unlock"} ->
                     /\ ~sent
                     /\ NowIs(q, [web[q] EXCEPT !.at = "done", !.out = "503"])
                     /\ wire' = [wire EXCEPT ![q] = rest]
                [] web[q].at = "rotate" /\ sent ->
                     NowIs(q, [web[q] EXCEPT !.at = "delete", !.out = "503"]) /\ then("delete")
                [] OTHER ->
                     /\ NowIs(q, [web[q] EXCEPT !.at = IF sent THEN "unlock" ELSE "done",
                                                  !.out = "503"])
                     /\ then("unlock")
    /\ UNCHANGED <<stored, lockedFor, ended>> /\ AtProvider /\ InTime
-----------------------------------------------------------------------------
(* Time. *)

AccessAges ==
    /\ stored # NoSession
    /\ aged < stored.access /\ issued < MaxTokens
    /\ aged' = stored.access
    /\ UNCHANGED <<stored, lockedFor, wire, web, ended, lapsed, mishaps>> /\ AtProvider

SessionLapses ==
    /\ ~lapsed /\ lapsed' = TRUE
    /\ UNCHANGED <<stored, lockedFor, wire, web, ended, aged, mishaps>> /\ AtProvider

(* PX of the record; what is written to it later lives a second at least. *)
RecordExpires ==
    /\ lapsed /\ stored # NoSession
    /\ stored' = NoSession
    /\ UNCHANGED <<lockedFor, wire, web, ended, mishaps>> /\ AtProvider /\ InTime

WebNext ==
    \/ \E q \in WebRequests :
          \/ Visit(q) \/ Locked(q) \/ GiveUp(q) \/ Read(q) \/ Refresh(q) \/ Rotated(q)
          \/ Touched(q) \/ Deleted(q) \/ Left(q) \/ Revoke(q) \/ TimeOut(q) \/ Late(q)
    \/ LeaseExpires \/ AccessAges \/ SessionLapses \/ RecordExpires
-----------------------------------------------------------------------------
(* Properties. *)

WebTypeOK ==
    /\ stored \in SessionRecords \cup {NoSession}
    /\ lockedFor \in WebRequests \cup {NoHolder}
    /\ grant \in 0..MaxTokens /\ issued \in 1..MaxTokens /\ aged \in 0..MaxTokens
    /\ lapsed \in BOOLEAN /\ ended \in BOOLEAN /\ mishaps \in 0..MaxMishaps
    /\ \A q \in WebRequests :
          /\ web[q].at \in Waiting \cup {"idle", "refresh", "revoke", "done"}
          /\ web[q].kind \in WebKinds /\ web[q].floor \in 0..MaxTokens
          /\ web[q].seen \in SessionRecords \cup {NoSession}
          /\ web[q].out \in {"none", "ok", "401", "503"}

(* A session that was ended stays away, whatever a request that had read   *)
(* it still writes and however late it arrives (completeLogin "invalidates *)
(* any prior session", oidc-authentication.md).                            *)
EndedStays == ended => stored = NoSession

(* "Per-session locking to prevent concurrent stale-token overwrite"       *)
(* (threat-model): a request never answers with an older access token than *)
(* one already in use when it began, and without mishaps the record keeps  *)
(* the token the provider accepts, requests beside each other sign nobody  *)
(* out, and a logout leaves nothing valid at the provider.                 *)
RotationKept ==
    /\ \A q \in WebRequests : Answered(q) => web[q].seen.access >= web[q].floor
    /\ mishaps = 0 =>
          /\ lockedFor = NoHolder /\ stored # NoSession => stored.refresh = grant
          /\ stored = NoSession => ended \/ lapsed
          /\ \A q \in WebRequests :
                web[q].at = "done" /\ web[q].kind = "logout" /\ web[q].out = "ok" => grant = 0

SessionsTrue == EndedStays /\ RotationKept
=============================================================================
