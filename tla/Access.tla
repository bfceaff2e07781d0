------------------------------- MODULE Access -------------------------------
(***************************************************************************)
(* How a request gets to an endpoint: the deployment boundary, the ceiling *)
(* of its address, its credential (an API key of the database or a token   *)
(* signed with a key of the identity provider), the quota of its principal *)
(* and its permission.  Meanwhile administrators revoke keys, keys expire, *)
(* the provider rotates its signing keys, and the database, the provider   *)
(* or the limiter's store fail.                                            *)
(*                                                                         *)
(* Time passes in half seconds, and whatever happens between two ticks     *)
(* happens just after the first.                                           *)
(***************************************************************************)
EXTENDS Integers, FiniteSets

CONSTANTS Clients,     \* threads that serve requests, one after another
          Admins,      \* processes of the credential CLI
          Keys,        \* API credentials
          RoleOf,      \* RoleOf[k]: the role the key k is created with
          Expiries,    \* times a key may be created to expire at
          Kids,        \* identifiers of the provider's signing keys
          Addresses, TrustedProxies,
          Calls,       \* Calls[m]: requests that may arrive in the mode m, see Call
          Modes,       \* values of AUTH_MODE to consider
          Backends,    \* Backends[m]: values of RATE_LIMIT_BACKEND to consider in the mode m
          Limits,      \* Limits[c]: requests of the category c in one window
          Window,      \* its length, in half seconds
          JwksTtl,     \* half seconds a fetched key set is used for
          RevokeTries, RevokeAttempts,  \* 3 and 3 in the code
          Watched,     \* Watched[m]: categories whose consumptions the history keeps
          MaxCalls, Horizon    \* bounds, by mode: requests and ticks of a behaviour

Roles == {"viewer", "analyst", "service", "admin"}
Permissions == {"job.submit", "job.read", "job.cancel", "incident.read",
    "incident.status.update", "incident.audit.read", "report.read", "worker.read", "audit.read"}
Categories == {"general", "authentication_failure", "job_submission", "mutation", "read"}

(* A credential presented: none, or one that is malformed or matches no    *)
(* row; an API key (id is the key); a token (id is the kid of its header,  *)
(* claims says whether the rest of it is in order, roles the roles its     *)
(* claims map to).  A probe is the readiness endpoint, which asks for the  *)
(* signing keys itself.                                                    *)
Credential == [kind : {"none", "key", "token", "probe"}, id : Keys \cup Kids \cup {"none"},
               claims : BOOLEAN, roles : SUBSET Roles]
Claimed == {"absent", "malformed"} \cup Addresses
Call == [host : {"trusted", "other"}, scheme : {"http", "https"},
         proto : {"absent", "malformed", "http", "https"},
         body : {"fits", "too_large", "malformed", "grows"},
         peer : Addresses, forwarded : Claimed, xForwarded : Claimed,
         credential : Credential, permission : Permissions,
         category : Categories \cup {"none"}]

Never == 1000000

ASSUME AccessAssumption ==
    /\ \A m \in Modes : \A call \in Calls[m] :
          call \in Call /\ (call.credential.kind = "key" => call.credential.id \in Keys)
    /\ RoleOf \in [Keys -> Roles] /\ Expiries \subseteq Nat
    /\ Limits \in [Categories -> Nat \ {0}]
    /\ Window \in Nat \ {0, 1} /\ Window % 2 = 0
    /\ JwksTtl \in Nat \ {0} /\ RevokeTries \in Nat \ {0} /\ RevokeAttempts \in Nat \ {0}
    /\ Modes \subseteq {"disabled", "api_key", "oidc", "hybrid"}
    /\ \A m \in Modes : Backends[m] \subseteq {"memory", "redis"} /\ Horizon[m] \in 0 .. Never

VARIABLES
    config,      \* [mode, backend]: settings of the process
    now,         \* time, in half seconds
    credential,  \* credential[k]: row of api_credentials
    audits,      \* audits[k]: api_credential_revoked events of k
    revoker,     \* revoker[a]: the revocation the process a is in
    published,   \* signing keys the provider publishes
    jwks,        \* [keys, ends]: the cached key set; no keys when there is none
    lock,        \* the thread that holds the resolver's lock, or "free"
    request,     \* request[c]: the request the thread c serves
    windows,     \* windows[b]: the limiter's counter of the bucket b
    arrivals,    \* number of requests so far
    log,         \* history: log[w]: what w consumed in the last window
    withdrawn    \* history: when the provider withdrew each signing key
vars == <<config, now, credential, audits, revoker, published, jwks, lock, request,
          windows, arrivals, log, withdrawn>>
records == <<credential, audits>>
limiting == <<windows, log>>
keyring == <<jwks, lock>>
outside == <<config, now, published, withdrawn, revoker>>

UsesKeys == config.mode \in {"api_key", "hybrid"}
UsesTokens == config.mode \in {"oidc", "hybrid"}
Smaller(a, b) == IF a < b THEN a ELSE b

(***************************************************************************)
(* Boundary, addresses and permissions                                     *)
(***************************************************************************)
Scheme(call) ==
    IF call.peer \in TrustedProxies /\ call.proto # "absent" THEN call.proto ELSE call.scheme

BoundaryAnswer(call) ==
    IF \/ call.host # "trusted"
       \/ Scheme(call) # "https"
       \/ call.body = "malformed" THEN 400
    ELSE IF call.body = "too_large" THEN 413
    ELSE 0

(* Headers that name a client are believed only from a trusted proxy, and  *)
(* must agree.                                                             *)
ClientAddressAsTold(call) ==
    IF call.xForwarded \in Addresses THEN call.xForwarded ELSE call.peer
ClientAddress(call) ==
    LET claims == {call.forwarded, call.xForwarded} \ {"absent"}
    IN  IF call.peer \notin TrustedProxies \/ claims = {} THEN call.peer
        ELSE IF claims \subseteq Addresses /\ Cardinality(claims) = 1
             THEN CHOOSE a \in claims : TRUE
             ELSE "anonymous"

ViewerPermissions == {"job.read", "incident.read", "report.read"}
PermissionsOf(role) ==
    CASE role = "viewer" -> ViewerPermissions
      [] role = "service" -> ViewerPermissions \cup {"job.submit"}
      [] role = "analyst" -> ViewerPermissions
            \cup {"job.submit", "job.cancel", "incident.status.update", "incident.audit.read"}
      [] role = "admin" -> Permissions
HasPermission(roles, permission) == \E role \in roles : permission \in PermissionsOf(role)

RolesOf(call) ==
    IF config.mode = "disabled" THEN {"admin"}
    ELSE IF call.credential.kind = "key" THEN {RoleOf[call.credential.id]}
    ELSE call.credential.roles
Principal(call) ==
    IF config.mode = "disabled" THEN "local-development"
    ELSE IF call.credential.kind = "key" THEN call.credential.id ELSE "subject"

(***************************************************************************)
(* Fixed windows                                                           *)
(***************************************************************************)
Owners == Addresses \cup Keys \cup {"anonymous", "subject", "local-development"}
Buckets == Owners \X Categories
NoWindow == [count |-> 0, ends |-> 0]

(* InMemoryRateLimiter.consume                                             *)
CountInMemory(w, limit) ==
    [count |-> Smaller(w.count, limit) + 1,
     ends |-> IF w.count = 0 THEN now + Window ELSE w.ends]

(* The script of RedisRateLimiter.  TTL is in seconds and rounded, so it   *)
(* reads zero in the last half second of a window.                         *)
CountInRedis(w, limit) ==
    LET ends    == IF w.count = 0 THEN now + Window ELSE w.ends
        ttl     == (ends - now) \div 2
        renewed == ttl < 1 \/ 2 * ttl > Window
        left    == IF renewed THEN Window ELSE 2 * ttl
    IN  IF w.count > limit
        THEN [count |-> limit + 1, ends |-> now + left]
        ELSE [count |-> w.count + 1, ends |-> IF renewed THEN now + Window ELSE ends]

Counted(bucket) ==
    IF config.backend = "redis" THEN CountInRedis(windows[bucket], Limits[bucket[2]])
                                ELSE CountInMemory(windows[bucket], Limits[bucket[2]])
Allowed(bucket) == Counted(bucket).count <= Limits[bucket[2]]

(* One consumption of the bucket, by w: an address or a principal.  The    *)
(* history numbers those of one instant.                                   *)
AtOnce(consumptions) == Cardinality({e \in consumptions : e.at = now})
Consume(bucket, w) ==
    /\ windows' = [windows EXCEPT ![bucket] = Counted(bucket)]
    /\ log' = IF bucket[2] \in Watched[config.mode]
              THEN [log EXCEPT ![<<w, bucket[2]>>] =
                       @ \cup {[at |-> now, nth |-> AtOnce(@), allowed |-> Allowed(bucket)]}]
              ELSE log

(***************************************************************************)
(* Initial state                                                           *)
(***************************************************************************)
NoCall == [kind |-> "none"]
NoRequest == [pc |-> "idle", call |-> NoCall, taken |-> 0, seen |-> 0, forced |-> FALSE,
              outage |-> FALSE, answer |-> 0]
NoRevoker == [pc |-> "idle", key |-> "none", seen |-> 0, tries |-> 0, attempts |-> 0, began |-> 0]
NoKey == [status |-> "absent", version |-> 0, expires |-> 0]

AccessInit ==
    /\ config \in UNION {[mode : {m}, backend : Backends[m]] : m \in Modes}
    /\ now = 0
    /\ credential = [k \in Keys |-> NoKey]
    /\ audits = [k \in Keys |-> 0]
    /\ revoker = [a \in Admins |-> NoRevoker]
    /\ published \in SUBSET (IF UsesTokens THEN Kids ELSE {})
    /\ jwks = [keys |-> {}, ends |-> 0]
    /\ lock = "free"
    /\ request = [c \in Clients |-> NoRequest]
    /\ windows = [b \in Buckets |-> NoWindow]
    /\ arrivals = 0
    /\ log = [w \in Owners \X Categories |-> {}]
    /\ withdrawn = [k \in Kids |-> Never]

At(c, pc) == request[c].pc = pc
Goto(c, pc) == request' = [request EXCEPT ![c].pc = pc]
Answer(c, status) ==
    request' = [request EXCEPT ![c] = [NoRequest EXCEPT !.pc = "answered", !.answer = status]]
Fail(c, outage) ==
    request' = [request EXCEPT ![c].pc = "failed", ![c].seen = 0, ![c].taken = 0,
                               ![c].forced = FALSE, ![c].outage = outage]

(***************************************************************************)
(* A request, from its arrival to its credential                           *)
(***************************************************************************)
(* Which check the credential is for, by the configured mode.              *)
Entrance(call) ==
    LET kind == call.credential.kind
    IN  IF config.mode = "disabled" THEN "quota"
        ELSE IF kind = "key" /\ UsesKeys THEN "lookup"
        ELSE IF kind = "token" /\ UsesTokens THEN "keys"
        ELSE "failed"

(* The two middlewares run without a pause, before the endpoint's thread.  *)
(* The readiness endpoint has no ceiling; a body longer than it was said   *)
(* to be is noticed when the endpoint reads it.                            *)
Arrival(c, call) ==
    /\ request[c].pc \in {"idle", "answered"}
    /\ arrivals < MaxCalls[config.mode]
    /\ arrivals' = arrivals + 1
    /\ UNCHANGED <<outside, records, keyring>>
Begin(c, call, pc) ==
    request' = [request EXCEPT ![c] = [NoRequest EXCEPT !.pc = pc, !.call = call]]

Arrive(c, call) ==
    LET bucket == <<ClientAddress(call), "general">>
    IN  /\ Arrival(c, call)
        /\ IF BoundaryAnswer(call) # 0
           THEN Answer(c, BoundaryAnswer(call)) /\ UNCHANGED limiting
           ELSE IF call.credential.kind = "probe"
           THEN Begin(c, call, "keys") /\ UNCHANGED limiting
           ELSE /\ Consume(bucket, call.peer)
                /\ IF ~Allowed(bucket) THEN Answer(c, 429)
                   ELSE IF call.body = "grows" THEN Answer(c, 413)
                   ELSE Begin(c, call, Entrance(call))

ArriveUnlimited(c, call) ==
    /\ config.backend = "redis"
    /\ Arrival(c, call)
    /\ BoundaryAnswer(call) = 0 /\ call.credential.kind # "probe"
    /\ Answer(c, 503) /\ UNCHANGED limiting

(* The time is read before the row.                                        *)
LookUp(c) ==
    LET row == credential[request[c].call.credential.id]
    IN  /\ At(c, "lookup")
        /\ request' = [request EXCEPT
               ![c].pc = IF row.status # "active" THEN "failed"
                         ELSE IF row.expires <= now THEN "expire" ELSE "use",
               ![c].taken = now, ![c].seen = row.version]
        /\ UNCHANGED <<outside, records, keyring, limiting, arrivals>>

(* last_used_at is set on a row that is still active: this decides.        *)
UseAsRead(row, taken) == TRUE
Usable(row, taken) == row.status = "active" /\ row.expires > taken
UseKey(c) ==
    LET k == request[c].call.credential.id
    IN  /\ At(c, "use")
        /\ IF Usable(credential[k], request[c].taken)
           THEN /\ credential' = [credential EXCEPT ![k].version = @ + 1]
                /\ Goto(c, "quota")
           ELSE Fail(c, FALSE) /\ UNCHANGED credential
        /\ UNCHANGED <<outside, audits, keyring, limiting, arrivals>>

ExpireKey(c) ==
    LET k   == request[c].call.credential.id
        row == credential[k]
    IN  /\ At(c, "expire")
        /\ credential' = IF row.status = "active" /\ row.version = request[c].seen
                         THEN [credential EXCEPT ![k].status = "expired", ![k].version = @ + 1]
                         ELSE credential
        /\ Fail(c, FALSE)
        /\ UNCHANGED <<outside, audits, keyring, limiting, arrivals>>

DatabaseFails(c) ==
    /\ request[c].pc \in {"lookup", "use", "expire"}
    /\ Fail(c, FALSE)
    /\ UNCHANGED <<outside, records, keyring, limiting, arrivals>>

(***************************************************************************)
(* Tokens: the key set is fetched and cached under a lock                  *)
(***************************************************************************)
(* The readiness endpoint wants keys, a token wants its own.               *)
Selected(call, keys) == call.credential.kind = "probe" \/ call.credential.id \in keys
Accept(c, time) ==
    IF request[c].call.credential.kind = "probe" THEN Answer(c, 200)
    ELSE IF ~request[c].call.credential.claims THEN Fail(c, FALSE)
    ELSE request' = [request EXCEPT ![c].pc = "quota", ![c].taken = time, ![c].forced = FALSE]

(* A kid that is not in the set: in a set of the cache, or fetched because *)
(* the cached one had expired, it is looked up once more in a new one.     *)
MissWithoutRefresh(c) == Fail(c, FALSE)
Miss(c) == IF request[c].forced THEN Fail(c, FALSE) ELSE Goto(c, "refresh")
Fresh(time) == jwks.keys # {} /\ time < jwks.ends

UseCachedKeys(c) ==
    /\ At(c, "keys") /\ lock = "free" /\ Fresh(now)
    /\ IF Selected(request[c].call, jwks.keys) THEN Accept(c, now)
                                               ELSE Miss(c)
    /\ UNCHANGED <<outside, records, keyring, limiting, arrivals>>

StartFetch(c) ==
    /\ lock = "free"
    /\ \/ At(c, "keys") /\ ~Fresh(now)
       \/ At(c, "refresh")
    /\ lock' = c
    /\ request' = [request EXCEPT ![c].pc = "fetch", ![c].taken = now,
                                  ![c].forced = At(c, "refresh")]
    /\ UNCHANGED <<outside, records, jwks, limiting, arrivals>>

FetchAnswered(c) ==
    /\ At(c, "fetch") /\ published # {}
    /\ jwks' = [keys |-> published, ends |-> request[c].taken + JwksTtl]
    /\ lock' = "free"
    /\ IF Selected(request[c].call, published) THEN Accept(c, request[c].taken)
       ELSE Miss(c)
    /\ UNCHANGED <<outside, records, limiting, arrivals>>

(* Whatever was cached stays as it is.                                     *)
KeysAfterFailureExtended == [jwks EXCEPT !.ends = now + JwksTtl]
KeysAfterFailure == jwks
LockKept(c) == c
LockAfterFailure(c) == "free"
FetchFails(c) ==
    /\ At(c, "fetch")
    /\ lock' = LockAfterFailure(c)
    /\ jwks' = KeysAfterFailure
    /\ IF request[c].call.credential.kind = "probe" THEN Answer(c, 503) ELSE Fail(c, TRUE)
    /\ UNCHANGED <<outside, records, limiting, arrivals>>

(***************************************************************************)
(* Failure and quota                                                       *)
(***************************************************************************)
RefuseCredential(c) ==
    LET call   == request[c].call
        bucket == <<ClientAddress(call), "authentication_failure">>
    IN  /\ At(c, "failed")
        /\ Consume(bucket, call.peer)
        /\ Answer(c, IF Allowed(bucket) THEN 401 ELSE 429)
        /\ UNCHANGED <<outside, records, keyring, arrivals>>

Decide(c) ==
    Answer(c, IF HasPermission(RolesOf(request[c].call), request[c].call.permission)
              THEN 200 ELSE 403)

(* The quota of the principal is consumed before its permission is looked  *)
(* at, and a few endpoints have none.                                      *)
Quota(c) ==
    LET call   == request[c].call
        bucket == <<Principal(call), call.category>>
    IN  /\ At(c, "quota")
        /\ IF call.category = "none" THEN Decide(c) /\ UNCHANGED limiting
           ELSE /\ Consume(bucket, Principal(call))
                /\ IF Allowed(bucket) THEN Decide(c) ELSE Answer(c, 429)
        /\ UNCHANGED <<outside, records, keyring, arrivals>>

LimiterDown(c) ==
    /\ config.backend = "redis"
    /\ \/ At(c, "failed")
       \/ At(c, "quota") /\ request[c].call.category # "none"
    /\ Answer(c, 503)
    /\ UNCHANGED <<outside, records, keyring, limiting, arrivals>>

(***************************************************************************)
(* Administration of keys                                                  *)
(***************************************************************************)
(* A mode without keys is considered without keys.                         *)
CreateKey(k, expires) ==
    /\ UsesKeys
    /\ credential[k].status = "absent"
    /\ credential' = [credential EXCEPT ![k] =
           [status |-> "active", version |-> 1, expires |-> expires]]
    /\ UNCHANGED <<outside, audits, keyring, request, limiting, arrivals>>

BeginRevoke(a, k) ==
    /\ revoker[a].pc = "idle" /\ credential[k].status # "absent"
    /\ revoker' = [revoker EXCEPT ![a] =
           [NoRevoker EXCEPT !.pc = "read", !.key = k, !.began = credential[k].version]]
    /\ UNCHANGED <<config, now, published, withdrawn, records, keyring, request, limiting,
                   arrivals>>

NothingToRevoke(row) == row.status # "active"
AlreadyRevoked(row) == row.status = "revoked"
ReadForRevoke(a) ==
    LET row == credential[revoker[a].key]
    IN  /\ revoker[a].pc = "read"
        /\ revoker' = [revoker EXCEPT
               ![a].pc = IF AlreadyRevoked(row) THEN "revoked" ELSE "write",
               ![a].seen = row.version]
        /\ UNCHANGED <<config, now, published, withdrawn, records, keyring, request, limiting,
                       arrivals>>

(* The update expects the version that was read.                           *)
Wins(row, seen) == row.status # "revoked" /\ row.version = seen
WriteRevoke(a) ==
    LET k == revoker[a].key
    IN  /\ revoker[a].pc = "write"
        /\ IF Wins(credential[k], revoker[a].seen)
           THEN /\ credential' = [credential EXCEPT ![k].status = "revoked", ![k].version = @ + 1]
                /\ audits' = [audits EXCEPT ![k] = 1]
                /\ revoker' = [revoker EXCEPT ![a].pc = "revoked"]
           ELSE /\ revoker' = [revoker EXCEPT
                      ![a].pc = IF revoker[a].tries + 1 = RevokeTries THEN "conflict" ELSE "read",
                      ![a].tries = @ + 1]
                /\ UNCHANGED records
        /\ UNCHANGED <<config, now, published, withdrawn, keyring, request, limiting, arrivals>>

RevokeFails(a) ==
    /\ revoker[a].pc \in {"read", "write"}
    /\ revoker' = [revoker EXCEPT
           ![a].pc = IF revoker[a].attempts + 1 = RevokeAttempts THEN "failed" ELSE "read",
           ![a].tries = 0, ![a].attempts = @ + 1]
    /\ UNCHANGED <<config, now, published, withdrawn, records, keyring, request, limiting,
                   arrivals>>

(***************************************************************************)
(* The identity provider and the clock                                     *)
(***************************************************************************)
Publish(k) ==
    /\ UsesTokens
    /\ k \notin published /\ withdrawn[k] = Never
    /\ published' = published \cup {k}
    /\ UNCHANGED <<config, now, withdrawn, revoker, records, keyring, request, limiting, arrivals>>

Withdraw(k) ==
    /\ k \in published
    /\ published' = published \ {k}
    /\ withdrawn' = [withdrawn EXCEPT ![k] = now]
    /\ UNCHANGED <<config, now, revoker, records, keyring, request, limiting, arrivals>>

Recent(consumptions) == {e \in consumptions : e.at + Window > now + 1}

Tick ==
    /\ now < Horizon[config.mode]
    /\ now' = now + 1
    /\ windows' = [b \in Buckets |-> IF windows[b].ends <= now + 1 THEN NoWindow ELSE windows[b]]
    /\ log' = [w \in DOMAIN log |-> Recent(log[w])]
    /\ UNCHANGED <<config, published, withdrawn, revoker, records, keyring, request, arrivals>>

Serve(c) ==
    \/ LookUp(c) \/ UseKey(c) \/ ExpireKey(c) \/ DatabaseFails(c)
    \/ UseCachedKeys(c) \/ StartFetch(c) \/ FetchAnswered(c) \/ FetchFails(c)
    \/ RefuseCredential(c) \/ Quota(c) \/ LimiterDown(c)
Revoke(a) == ReadForRevoke(a) \/ WriteRevoke(a) \/ RevokeFails(a)

AccessNext ==
    \/ \E c \in Clients : Serve(c) \/ \E call \in Calls[config.mode] :
                                        Arrive(c, call) \/ ArriveUnlimited(c, call)
    \/ \E a \in Admins : Revoke(a) \/ \E k \in Keys : BeginRevoke(a, k)
    \/ \E k \in Keys, expires \in Expiries : CreateKey(k, expires)
    \/ \E k \in Kids : Publish(k) \/ Withdraw(k)
    \/ Tick

AccessSpec == AccessInit /\ [][AccessNext]_vars

(* A thread that serves a request goes on, and so does the command line    *)
(* tool; the provider answers or its client times out.  Whoever waits for  *)
(* the lock gets it in the end: a fetch is short, and arrivals are bounded.*)
AccessFairness ==
    /\ \A c \in Clients : WF_vars(Serve(c))
    /\ \A a \in Admins : WF_vars(Revoke(a))
FairAccessSpec == AccessSpec /\ AccessFairness

(***************************************************************************)
(* Properties                                                              *)
(***************************************************************************)
(* A request is authenticated with a key only while the row of the key is  *)
(* active, and had not expired when the request looked; a revoked key      *)
(* stays revoked, whatever requests and administrators had read before     *)
(* (authentication.py: the conditional updates of authenticate and revoke).*)
Authenticates(c, k) ==
    /\ config.mode # "disabled"
    /\ request[c].pc # "quota" /\ request'[c].pc = "quota"
    /\ request'[c].call.credential.kind = "key" /\ request'[c].call.credential.id = k
CredentialsRespected == [][\A k \in Keys :
    /\ credential[k].status = "revoked" => credential'[k].status = "revoked"
    /\ \A c \in Clients : Authenticates(c, k) =>
           credential[k].status = "active" /\ credential[k].expires > request[c].taken]_vars

(* A revocation that reports success left the key revoked, with its one    *)
(* audit event; one that reports a conflict lost against as many other     *)
(* changes of the row as it has tries.                                     *)
RevocationReported == \A a \in Admins :
    LET row == credential[revoker[a].key]
    IN  /\ revoker[a].pc = "revoked" =>
               row.status = "revoked" /\ audits[revoker[a].key] = 1
        /\ revoker[a].pc = "conflict" => row.version >= revoker[a].began + RevokeTries

(* A token is accepted no longer than the life of a cached key set after   *)
(* the provider withdrew the key that signed it (oidc.py: the two caches). *)
WithdrawnKeyRefused == [][\A c \in Clients :
    LET call == request'[c].call
    IN  /\ request[c].pc \in {"keys", "fetch"} /\ request'[c].pc = "quota"
        => request'[c].taken < withdrawn[call.credential.id] + JwksTtl]_vars

(* A token in order is not refused while the provider publishes its key    *)
(* and answers (oidc.py: the refresh for an unknown kid).                  *)
RotatedKeyAccepted == [][\A c \in Clients :
    LET call == request'[c].call
    IN  /\ request[c].pc \in {"keys", "refresh", "fetch"} /\ request'[c].pc = "failed"
        /\ call.credential.claims /\ ~request'[c].outage
        => call.credential.id \notin published]_vars

(* In any stretch of one window, an address that is not a trusted proxy is *)
(* let through, or told 401, no more than twice the limit, whatever its    *)
(* headers say; and so is a principal (rate_limiting.py: the windows,      *)
(* security.py: trusted_client_address).  In Redis it is three times: each *)
(* refusal but the first sets the rest of the window anew, in whole        *)
(* seconds, so a window may last little longer than half of its length,    *)
(* and the stretch may meet three.                                         *)
Admitted(consumptions) == {e \in consumptions : e.allowed}
WindowsMet == IF config.backend = "redis" THEN 3 ELSE 2
AdmissionsBounded == \A w \in Owners \X Categories :
    w[1] \notin TrustedProxies => Cardinality(Admitted(log[w])) <= WindowsMet * Limits[w[2]]

(* Who is refused made more requests than the limit in the last window.    *)
RefusedOnlyOverLimit == \A w \in Owners \X Categories : \A e \in log[w] :
    /\ w[1] \notin TrustedProxies
    /\ e.at = now /\ ~e.allowed /\ \A d \in log[w] : d.at = now => d.nth <= e.nth
    => Cardinality(log[w]) > Limits[w[2]]

(* Every request is answered and every revocation ends.                    *)
RequestsEnd ==
    /\ \A c \in Clients : request[c].pc # "idle" ~> request[c].pc = "answered"
    /\ \A a \in Admins : revoker[a].pc # "idle" ~> revoker[a].pc \in {"revoked", "conflict", "failed"}
=============================================================================
