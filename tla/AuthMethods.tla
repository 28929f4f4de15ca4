---------------------------- MODULE AuthMethods ----------------------------
(***************************************************************************)
(* The verdicts of the authorization pipeline: what a schema, the CSRF     *)
(* check, the login handler and the token handler say of one request.      *)
(*                                                                         *)
(* A token is a record instead of an encrypted header; a header that does  *)
(* not decrypt has the type "garbage".  Times are ticks, and a time.After  *)
(* is a strict comparison.  The password hash of a request is good when it *)
(* was made from the right password and from the salt the server sent.     *)
(***************************************************************************)
EXTENDS Integers, Sequences

CONSTANTS
    AccessTtl, RefreshTtl,     \* ACCESS_TOKEN_TTL_SECONDS, REFRESH_TOKEN_TTL_SECONDS
    GenBefore,                 \* ACCESS_TOKEN_GEN_BEFORE_SECONDS
    CsrfTtl,                   \* TOKEN_TTL_SECONDS of the CSRF handler
    ThrottleDelay,             \* THROTTLE_DELAY_SECONDS of the login handler
    AutoProlongateAccess, AutoProlongateRefresh, DisableRefresh

ASSUME TtlAssumption ==
    /\ {AccessTtl, RefreshTtl, GenBefore, CsrfTtl, ThrottleDelay} \subseteq Nat \ {0}
    /\ {AutoProlongateAccess, AutoProlongateRefresh, DisableRefresh} \subseteq BOOLEAN

NoToken == [type |-> "none", session |-> 0, tenancy |-> "", exp |-> 0]
GarbageToken == [NoToken EXCEPT !.type = "garbage"]
NoCsrf == -1

\* The paths that the auth service and the status service register.
RefreshPath == "/auth/refresh"
LogoutPath == "/auth/logout"
LoginPath == "/auth/login"
NegotiatePath == "/auth/negotiate"
StatusPath == "/status/check"

\* ErrorProtocolCodes of the handlers.
HttpCode(error) ==
    CASE error = "ok" -> 200
      [] error \in {"unauthorized", "auth_token_expired", "auth_token_invalid", "session_expired", "unknown_user",
                    "refresh_disabled", "login_failed", "login_credentials_required"} -> 401
      [] error \in {"anti_csrf_token_required", "anti_csrf_token_expired", "anti_csrf_token_invalid", "forbidden"} -> 403
      [] error = "wait_retry" -> 429
      [] error = "not_found" -> 404
      [] error = "internal_server_error" -> 500
      [] OTHER -> 400

Expired(exp, now) == now > exp
SetTTL(ttl, now) == now + ttl

----------------------------------------------------------------------------
(* AuthCsrf.Handle *)

IsCsrfError(error) == error \in {"anti_csrf_token_required", "anti_csrf_token_expired", "anti_csrf_token_invalid"}

CheckCsrf(path, token, now) ==
    IF path = StatusPath THEN "ok"
    ELSE IF token = NoCsrf THEN "anti_csrf_token_required"
    ELSE IF Expired(token, now) THEN "anti_csrf_token_expired"
    ELSE "ok"

----------------------------------------------------------------------------
(* Schemas *)

\* A handler says whether the request has its method, and an error.
Verdict(found, error) == [found |-> found, error |-> error]

\* SetGenericErrorCode keeps the code that is already there.
WithCode(error) == IF error = "error" THEN "unauthorized" ELSE error

\* AuthSchema.Handle, given what each handler in turn says: the handler that ends the loop, and
\* the verdict.
Ends(aggregation, verdict) ==
    IF verdict.found THEN aggregation = "or" \/ verdict.error # "ok" ELSE aggregation # "or"
SchemaVerdict(aggregation, verdicts) ==
    LET ending == {i \in DOMAIN verdicts : Ends(aggregation, verdicts[i])}
        first  == CHOOSE i \in ending : \A j \in ending : i <= j
        last   == verdicts[first]
    IN IF ending = {} THEN Verdict(verdicts = <<>>, "ok")
       ELSE IF ~last.found THEN Verdict(FALSE, IF last.error = "ok" THEN "unauthorized" ELSE WithCode(last.error))
       ELSE Verdict(TRUE, WithCode(last.error))

\* EndpointsAuthConfigBase.Schema and AuthBase.HandleRequest: the schema of an endpoint, or the
\* default one.  The manager looks only at the error of the verdict.
DefaultSchema == "evgo-token"
Schema(endpoints, path) == IF path \in DOMAIN endpoints THEN endpoints[path] ELSE DefaultSchema

\* NoAuthMethod.Handle
NoAuth == Verdict(TRUE, "ok")

----------------------------------------------------------------------------
(* LoginHandler.Handle: a login alone is answered with a salt, a fake one  *)
(* when there is no such user; the password hash is checked by the second  *)
(* request, and a failure delays the next attempt.                         *)

Malformed == "malformed"   \* a login that ValidateLogin refuses
LoginVerdict(request, user, delayed) ==
    LET checkPhash == request.phash # "none"
        negotiate  == request.path = NegotiatePath
        salted     == Verdict(TRUE, IF negotiate THEN "ok" ELSE "login_credentials_required")
        unknown    == IF checkPhash THEN Verdict(TRUE, "login_failed") ELSE salted
    IN IF request.login = "" THEN Verdict(FALSE, "ok")
       ELSE IF request.login = Malformed THEN unknown
       ELSE IF delayed THEN Verdict(TRUE, "wait_retry")
       ELSE IF user.login # request.login THEN unknown
       ELSE IF user.blocked THEN Verdict(TRUE, "login_failed")
       ELSE IF checkPhash THEN Verdict(TRUE, IF request.phash = "good" THEN "ok" ELSE "login_failed")
       ELSE salted

SaltOf(request, user) == IF user.login = request.login THEN "salt" ELSE "fake"
SetsDelay(request, verdict) == verdict.error = "login_failed" /\ request.login # Malformed

----------------------------------------------------------------------------
(* AuthTokenHandler.Handle *)

TokenOf(request) == IF request.path = RefreshPath THEN request.refresh ELSE request.access
TokenName(request) == IF request.path = RefreshPath THEN "refresh" ELSE "access"

\* What is checked before the session is looked up.
TokenVerdict(request, now) ==
    LET token == TokenOf(request)
    IN IF request.path = RefreshPath /\ DisableRefresh THEN "refresh_disabled"
       ELSE IF token.type = "garbage" THEN "auth_token_invalid"
       ELSE IF token.type = "none" THEN "error"
       ELSE IF Expired(token.exp, now)
            THEN IF request.path = RefreshPath THEN "session_expired" ELSE "auth_token_expired"
       ELSE IF token.type # TokenName(request) THEN "auth_token_invalid"
       ELSE IF token.tenancy # request.tenancy THEN "session_expired"
       ELSE "ok"

\* What is checked with the session and its user.
SessionVerdict(session, user, now) ==
    IF ~session.valid \/ Expired(session.exp, now) THEN "session_expired"
    ELSE IF user.login = "" THEN "unknown_user"
    ELSE IF user.blocked THEN "session_expired"
    ELSE "ok"

\* Which tokens a request is given back.
RegeneratesAccess(request, now) ==
    \/ request.path = RefreshPath
    \/ AutoProlongateAccess /\ SetTTL(GenBefore, now) > request.access.exp
RegeneratesRefreshOnlyOnRefresh(request, session, now) ==
    AutoProlongateRefresh /\ ~DisableRefresh /\ request.path = RefreshPath
RegeneratesRefresh(request, session, now) ==
    /\ AutoProlongateRefresh /\ ~DisableRefresh
    /\ request.path = RefreshPath \/ SetTTL(AccessTtl, now) > session.exp

\* GenToken
GenToken(type, ttl, session, tenancy, now) ==
    [type |-> type, session |-> session, tenancy |-> tenancy, exp |-> SetTTL(ttl, now)]

ReloginRequired(error) == error \in {"auth_token_invalid", "session_expired", "unknown_user"}
RefreshRequired(error) == error = "auth_token_expired"
=============================================================================
