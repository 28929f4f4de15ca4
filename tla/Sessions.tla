------------------------------ MODULE Sessions ------------------------------
(***************************************************************************)
(* The server's side of a session: the requests of the clients of one user *)
(* pass the checks of AuthMethods, create, prolong and invalidate rows of  *)
(* the session table, and record the client of the session.  A request     *)
(* keeps its own copy of the session row from the moment it read it; the   *)
(* statements of two requests interleave.                                  *)
(***************************************************************************)
EXTENDS AuthMethods, FiniteSets

CONSTANTS
    Requesters,   \* every one of them has at most one request on its way
    MaxTime,      \* bound of the clock
    MaxSessions,  \* bound of the session table
    MaxFaults     \* bound of lost messages, database errors, refusals and the administrator's actions

ASSUME SessionsAssumption ==
    IsFiniteSet(Requesters) /\ {MaxTime, MaxSessions, MaxFaults} \subseteq Nat

VARIABLES
    clock,
    user,        \* the row of the user: login and blocked
    delay,       \* the time at which the login delay leaves the cache
    sessions,    \* the session table, a sequence of [valid, exp]
    clients,     \* the sessions that have a row in the table of session clients
    srv,         \* requester -> its request on the server
    faults,      \* how many faults have happened
    overlapped,  \* sessions of which two requests held a copy at the same time
    stale,       \* sessions of which a request held a copy while the clock moved, or that were not prolonged
    ended        \* sessions that were invalidated at some time

server == <<clock, user, delay, sessions, clients, srv, faults, overlapped, stale, ended>>

Login == "user"
Endpoints == [path \in {LoginPath, StatusPath} |-> IF path = LoginPath THEN "login_phash_token" ELSE "noauth"]

NoResponse == [error |-> "nil", access |-> NoToken, refresh |-> NoToken, csrf |-> NoCsrf, salt |-> "none"]
NoRequest == [path |-> "none", tenancy |-> "", access |-> NoToken, refresh |-> NoToken, csrf |-> NoCsrf,
              login |-> "", phash |-> "none"]
Idle == [stage |-> "none", request |-> NoRequest, now |-> 0, session |-> 0, copy |-> [valid |-> FALSE, exp |-> 0],
         client |-> "none", dead |-> FALSE, response |-> NoResponse]

InitServer ==
    /\ clock = 0
    /\ user = [login |-> Login, blocked |-> FALSE]
    /\ delay = 0
    /\ sessions = <<>>
    /\ clients = {}
    /\ srv = [q \in Requesters |-> Idle]
    /\ faults = 0
    /\ overlapped = {}
    /\ stale = {}
    /\ ended = {}

At(q, stage) == srv[q].stage = stage
Path(q) == srv[q].request.path
SchemaOf(q) == Schema(Endpoints, Path(q))
IsLogin(q) == SchemaOf(q) = "login_phash_token"
Holders(session) == {q \in Requesters : srv[q].session = session /\ srv[q].stage \notin {"none", "arrive", "reply"}}

\* The request moves on; what is not listed stays.
Over(new, old) == [f \in DOMAIN new \union DOMAIN old |-> IF f \in DOMAIN new THEN new[f] ELSE old[f]]
Step(q, changed) == srv' = [srv EXCEPT ![q] = Over(changed, srv[q])]
\* Request.Close: the response with the headers that were set so far.
Respond(q, error, headers) ==
    Step(q, [stage |-> "reply", response |-> Over([error |-> error], Over(headers, srv[q].response))])
\* Every request that passes the CSRF check is given a new CSRF token.
NewCsrf == [csrf |-> SetTTL(CsrfTtl, clock)]
Headers(q, headers) == [response |-> Over(headers, srv[q].response)]

----------------------------------------------------------------------------
(* requestHandler *)

\* An unknown, inactive or blocked tenancy, an address that is not in the tenancy's list, a body
\* that is too big, or one that the endpoint cannot parse.
RejectEarly(q) ==
    /\ At(q, "arrive") /\ faults < MaxFaults
    /\ \E error \in {"not_found", "forbidden", "bad_request"} : Respond(q, error, <<>>)
    /\ faults' = faults + 1
    /\ UNCHANGED <<clock, user, delay, sessions, clients, overlapped, stale, ended>>

RefuseCsrf(q) ==
    /\ At(q, "arrive")
    /\ LET error == CheckCsrf(Path(q), srv[q].request.csrf, clock)
       IN error # "ok" /\ Respond(q, error, <<>>)
    /\ UNCHANGED <<clock, user, delay, sessions, clients, faults, overlapped, stale, ended>>

PassesCsrf(q) == At(q, "arrive") /\ CheckCsrf(Path(q), srv[q].request.csrf, clock) = "ok"

ServeNoAuth(q) ==
    /\ PassesCsrf(q) /\ SchemaOf(q) = "noauth"
    /\ Step(q, Over([stage |-> "handler"], Headers(q, NewCsrf)))
    /\ UNCHANGED <<clock, user, delay, sessions, clients, faults, overlapped, stale, ended>>

\* LoginphashToken: the login handler, then the handler of new tokens.
Delayed == clock < delay
LoginOf(q) == LoginVerdict(srv[q].request, user, Delayed)
Authenticated(q) == LoginOf(q) = Verdict(TRUE, "ok") /\ srv[q].request.phash # "none"
LoginSchema(q) == SchemaVerdict("and", <<LoginOf(q), Verdict(Authenticated(q), "ok")>>)

RefuseLogin(q) ==
    /\ PassesCsrf(q) /\ IsLogin(q)
    /\ LoginSchema(q).error # "ok"
    /\ LET salt == IF LoginSchema(q).error = "login_credentials_required"
                   THEN [salt |-> SaltOf(srv[q].request, user)] ELSE <<>>
       IN Respond(q, LoginSchema(q).error, Over(NewCsrf, salt))
    /\ delay' = IF SetsDelay(srv[q].request, LoginOf(q)) THEN SetTTL(ThrottleDelay, clock) ELSE delay
    /\ UNCHANGED <<clock, user, sessions, clients, faults, overlapped, stale, ended>>

\* The login is good: CreateSession.
CreateSession(q) ==
    /\ PassesCsrf(q) /\ IsLogin(q)
    /\ LoginSchema(q).error = "ok"
    /\ Len(sessions) < MaxSessions
    /\ LET session == [valid |-> TRUE, exp |-> SetTTL(RefreshTtl, clock)]
       IN /\ sessions' = Append(sessions, session)
          /\ Step(q, Over([stage |-> "client", now |-> clock, session |-> Len(sessions) + 1, copy |-> session],
                          Headers(q, NewCsrf)))
    /\ UNCHANGED <<clock, user, delay, clients, faults, overlapped, stale, ended>>

\* AuthTokenHandler: the token, the session and the user are checked, and the request goes on
\* with its copy of the session row.
CheckToken(q) ==
    LET request == srv[q].request
        early   == TokenVerdict(request, clock)
    IN IF early # "ok" THEN early ELSE SessionVerdict(sessions[TokenOf(request).session], user, clock)

RefuseToken(q) ==
    /\ PassesCsrf(q) /\ SchemaOf(q) = DefaultSchema
    /\ CheckToken(q) # "ok"
    /\ Respond(q, WithCode(CheckToken(q)), NewCsrf)
    /\ UNCHANGED <<clock, user, delay, sessions, clients, faults, overlapped, stale, ended>>

FindSession(q) ==
    /\ PassesCsrf(q) /\ SchemaOf(q) = DefaultSchema
    /\ CheckToken(q) = "ok"
    /\ LET session == TokenOf(srv[q].request).session
       IN /\ Step(q, Over([stage |-> "client", now |-> clock, session |-> session, copy |-> sessions[session]],
                          Headers(q, NewCsrf)))
          /\ overlapped' = IF Holders(session) = {} THEN overlapped ELSE overlapped \union {session}
    /\ UNCHANGED <<clock, user, delay, sessions, clients, faults, stale, ended>>

----------------------------------------------------------------------------
(* UpdateSessionClient: the row of the client is read... *)

FindClient(q) ==
    /\ At(q, "client")
    /\ Step(q, IF srv[q].session \in clients THEN [stage |-> "tokens", client |-> "stored"] ELSE [stage |-> "create"])
    /\ UNCHANGED <<clock, user, delay, sessions, clients, faults, overlapped, stale, ended>>

\* ...and created when there was none.  A creation that fails is only logged, and followed by an
\* update by an id that no row has, which changes nothing and succeeds: the request goes on with
\* that id.  It fails since the unique index has a row by now...
CreateClient(q) ==
    /\ At(q, "create")
    /\ Step(q, [stage |-> "tokens", client |-> IF srv[q].session \in clients THEN "lost" ELSE "stored"])
    /\ clients' = clients \union {srv[q].session}
    /\ UNCHANGED <<clock, user, delay, sessions, faults, overlapped, stale, ended>>

\* ...or since the statement fails.
CreateClientFails(q) ==
    /\ At(q, "create") /\ faults < MaxFaults
    /\ Step(q, [stage |-> "tokens", client |-> "unstored"])
    /\ faults' = faults + 1
    /\ UNCHANGED <<clock, user, delay, sessions, clients, overlapped, stale, ended>>

----------------------------------------------------------------------------
(* Tokens *)

NewAccess(q) == [access |-> GenToken("access", AccessTtl, srv[q].session, srv[q].request.tenancy, clock)]
NewRefresh(q) == [refresh |-> GenToken("refresh", RefreshTtl, srv[q].session, srv[q].request.tenancy, clock)]

\* The tail of AuthTokenHandler.Handle and of AuthNewTokenHandler.Process: GenAccessToken, and
\* the new expiration of GenRefreshToken, which is set on the request's own copy first.  A login
\* generates the refresh token before the access token.
GenTokens(q) ==
    /\ At(q, "tokens")
    /\ LET request   == srv[q].request
           refresh   == IF IsLogin(q) THEN ~DisableRefresh ELSE RegeneratesRefresh(request, srv[q].copy, srv[q].now)
           access    == IF IsLogin(q) THEN DisableRefresh ELSE RegeneratesAccess(request, srv[q].now)
           prolonged == [srv[q].copy EXCEPT !.exp = SetTTL(RefreshTtl, clock)]
       IN IF Path(q) = LogoutPath THEN Step(q, [stage |-> "logout"])
          ELSE Step(q, Over(IF refresh THEN [stage |-> "prolong", copy |-> prolonged] ELSE [stage |-> "handler"],
                            Headers(q, IF access THEN NewAccess(q) ELSE <<>>)))
    /\ UNCHANGED <<clock, user, delay, sessions, clients, faults, overlapped, stale, ended>>

\* UpdateSessionExpiration writes the one column; then the refresh token is generated.
UpdateWholeSession(q) ==
    /\ At(q, "prolong")
    /\ sessions' = [sessions EXCEPT ![srv[q].session] = srv[q].copy]
    /\ Step(q, Over([stage |-> "handler"],
                    Headers(q, Over(NewRefresh(q), IF IsLogin(q) THEN NewAccess(q) ELSE <<>>))))
    /\ UNCHANGED <<clock, user, delay, clients, faults, overlapped, stale, ended>>
UpdateSessionExpiration(q) ==
    /\ At(q, "prolong")
    /\ sessions' = [sessions EXCEPT ![srv[q].session].exp = srv[q].copy.exp]
    /\ Step(q, Over([stage |-> "handler"],
                    Headers(q, Over(NewRefresh(q), IF IsLogin(q) THEN NewAccess(q) ELSE <<>>))))
    /\ UNCHANGED <<clock, user, delay, clients, faults, overlapped, stale, ended>>

\* Logout: InvalidateSession.
InvalidateSession(q) ==
    /\ At(q, "logout")
    /\ sessions' = [sessions EXCEPT ![srv[q].session].valid = FALSE]
    /\ ended' = ended \union {srv[q].session}
    /\ Step(q, [stage |-> "handler"])
    /\ UNCHANGED <<clock, user, delay, clients, faults, overlapped, stale>>

\* The endpoint's handler and the response.
HandleRequest(q) ==
    /\ At(q, "handler")
    /\ Respond(q, "ok", <<>>)
    /\ UNCHANGED <<clock, user, delay, sessions, clients, faults, overlapped, stale, ended>>

\* A statement fails and the answer is an internal error: one of the statements that check the
\* login or the token, or create the session, or one of the later ones.  A client that can
\* neither be created nor updated is one of them.
ReadsTables(q) ==
    /\ PassesCsrf(q)
    /\ IF IsLogin(q) THEN srv[q].request.login \notin {"", Malformed}
       ELSE SchemaOf(q) = DefaultSchema /\ TokenVerdict(srv[q].request, clock) = "ok"
DatabaseFails(q) ==
    /\ faults < MaxFaults
    /\ \/ ReadsTables(q) /\ Respond(q, "internal_server_error", NewCsrf)
       \/ srv[q].stage \in {"client", "create", "prolong", "logout"} /\ Respond(q, "internal_server_error", <<>>)
    /\ faults' = faults + 1
    /\ stale' = IF At(q, "prolong") THEN stale \union {srv[q].session} ELSE stale
    /\ UNCHANGED <<clock, user, delay, sessions, clients, overlapped, ended>>

----------------------------------------------------------------------------
(* The administrator and the clock *)

InvalidateUserSessions ==
    /\ faults < MaxFaults /\ \E s \in DOMAIN sessions : sessions[s].valid
    /\ sessions' = [s \in DOMAIN sessions |-> [sessions[s] EXCEPT !.valid = FALSE]]
    /\ ended' = ended \union DOMAIN sessions
    /\ faults' = faults + 1
    /\ UNCHANGED <<clock, user, delay, clients, srv, overlapped, stale>>

SetBlocked ==
    /\ faults < MaxFaults
    /\ user' = [user EXCEPT !.blocked = ~@]
    /\ faults' = faults + 1
    /\ UNCHANGED <<clock, delay, sessions, clients, srv, overlapped, stale, ended>>

Tick ==
    /\ clock < MaxTime
    /\ clock' = clock + 1
    /\ stale' = stale \union {s \in DOMAIN sessions : Holders(s) # {}}
    /\ UNCHANGED <<user, delay, sessions, clients, srv, faults, overlapped, ended>>

ServerStep(q) ==
    \/ RefuseCsrf(q) \/ ServeNoAuth(q) \/ RefuseLogin(q) \/ CreateSession(q) \/ RefuseToken(q) \/ FindSession(q)
    \/ FindClient(q) \/ CreateClient(q) \/ GenTokens(q) \/ UpdateSessionExpiration(q) \/ InvalidateSession(q)
    \/ HandleRequest(q)
Disturbance ==
    \/ Tick \/ InvalidateUserSessions \/ SetBlocked
    \/ \E q \in Requesters : RejectEarly(q) \/ CreateClientFails(q) \/ DatabaseFails(q)

----------------------------------------------------------------------------
(* Properties *)

Running(q) == At(q, "handler") /\ SchemaOf(q) = DefaultSchema

\* A request that reaches its handler belongs to a session that was not ended before the request
\* was sent: a logout, or the administrator's invalidation, is final, although requests that read
\* the session row before still write to it (InvalidateSession, UpdateSessionExpiration).  And the
\* client id that the handler sees, and that the operation log records, is the id of a row of the
\* session's clients, with two exceptions in UpdateSessionClient: two requests of the session
\* were on their way together, and both tried to create the row; or the statement that creates
\* it failed, which the code only logs before it lets the handler run.
HandlerSession ==
    \A q \in Requesters : Running(q) =>
        /\ ~srv[q].dead
        /\ \/ srv[q].client = "stored" /\ srv[q].session \in clients
           \/ srv[q].client = "lost" /\ srv[q].session \in overlapped
           \/ srv[q].client = "unstored"
=============================================================================
