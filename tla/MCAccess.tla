------------------------------ MODULE MCAccess ------------------------------
(* Small instances of Access for TLC. *)
EXTENDS Access, TLC
CONSTANTS c1, c2, a1, a2, k1, s1, s2, home, away, proxy

MCRoleOf == k1 :> "service"
MCLimits == [c \in Categories |-> 1]
MCTwoLimits == [c \in Categories |-> 2]

None == [kind |-> "none", id |-> "none", claims |-> FALSE, roles |-> {}]
Key == [None EXCEPT !.kind = "key", !.id = k1]
Token == [kind |-> "token", id |-> s2, claims |-> TRUE, roles |-> {"viewer"}]
Probe == [None EXCEPT !.kind = "probe"]
With(presented) ==
    [host |-> "trusted", scheme |-> "https", proto |-> "absent", body |-> "fits",
     peer |-> home, forwarded |-> "absent", xForwarded |-> "absent",
     credential |-> presented, permission |-> "job.submit", category |-> "job_submission"]
Proxied == [With(Key) EXCEPT !.peer = proxy, !.scheme = "http", !.proto = "https",
                             !.forwarded = away]

Away(call) == [call EXCEPT !.peer = away]
Unmetered(call) == [call EXCEPT !.category = "none"]

(* The boundary and the limiter; keys; tokens and the readiness endpoint;  *)
(* both kinds of credentials.                                              *)
MCCalls ==
    "disabled" :> {With(None), [With(None) EXCEPT !.xForwarded = away],
                   [With(None) EXCEPT !.xForwarded = proxy],
                   [With(None) EXCEPT !.host = "other"],
                   [With(None) EXCEPT !.body = "grows"],
                   [With(None) EXCEPT !.body = "too_large"]}
    @@ "api_key" :> {With(Key), Away(With(Key)), With(None)}
    @@ "oidc" :> {Unmetered(With(Token)), With(Probe)}
    @@ "hybrid" :> {Proxied, [Proxied EXCEPT !.xForwarded = home, !.credential = None],
                    [With(Token) EXCEPT !.permission = "job.cancel"],
                    With([Token EXCEPT !.claims = FALSE])}
MCBackends ==
    "disabled" :> {"memory", "redis"} @@ "api_key" :> {"redis"} @@ "oidc" :> {"memory"}
    @@ "hybrid" :> {"redis"}
MCWatched ==
    "disabled" :> Categories @@ "api_key" :> {} @@ "oidc" :> {} @@ "hybrid" :> {}
MCMaxCalls == "disabled" :> 4 @@ "api_key" :> 2 @@ "oidc" :> 3 @@ "hybrid" :> 2
MCHorizon == "disabled" :> 5 @@ "api_key" :> 1 @@ "oidc" :> 2 @@ "hybrid" :> 0
=============================================================================
