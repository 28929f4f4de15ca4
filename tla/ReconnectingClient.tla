------------------------- MODULE ReconnectingClient -------------------------
(***************************************************************************)
(* The REST client that logs in and refreshes its tokens by itself, used   *)
(* by several goroutines at once against the server of Sessions.           *)
(*                                                                         *)
(* A call is a stack of requests: checkResponse answers a refusal by       *)
(* sending a request of its own (a CSRF token, a login, a refresh), whose  *)
(* response is checked by the same function, and then resends the first.   *)
(* The resent request carries the headers it was first built with, and     *)
(* only those of the new tokens that it had no old one of.                 *)
(***************************************************************************)
EXTENDS Sessions

CONSTANTS
    Ops(_, _),    \* requester, calls so far -> the calls it makes: "read" (a query), "write" (a body),
                  \* "foreign" (a body, for another tenancy), "logout"
    MayCall(_, _, _, _), \* whether a requester may make another call, given the calls and the faults so
                  \* far, and whether another call is on its way
    MayFail(_),   \* whether faults may happen, given the calls so far
    Logins, Passwords,  \* the credentials that the client may be configured with
    RequestLimit, \* the bound that RetriesAreSafe claims
    MaxDepth      \* bound of the stack, never reached

VARIABLES
    credentials,  \* LOGIN and PASSWORD of the client's configuration
    tok,          \* AccessToken, RefreshToken, CsrfToken of the client
    inLogin,      \* autoReconnect.inLogin
    tried,        \* lastLogin and lastPassword are those of the configuration
    stack,        \* requester -> the requests of its call, the current one last
    ret,          \* requester -> what the request that was just popped returned
    calls,        \* requester -> how many calls it has made
    sent,         \* requester -> the requests it sent in this call
    ran,          \* requester -> how often the handler of this call ran
    noisy,        \* requester -> something happened around it during this call
    streak        \* requester -> how many undisturbed calls to the client's tenancy in a row have failed

client == <<credentials, tok, inLogin, tried, stack, ret, calls, sent, ran, noisy, streak>>
vars == <<server, client>>

Nothing == [resp |-> NoResponse, err |-> FALSE, some |-> FALSE]
Result(resp, err) == [resp |-> resp, err |-> err, some |-> TRUE]

Init ==
    /\ InitServer
    /\ credentials \in [login : Logins, password : Passwords]
    /\ tok = [access |-> NoToken, refresh |-> NoToken, csrf |-> NoCsrf]
    /\ inLogin = FALSE
    /\ tried = FALSE
    /\ stack = [q \in Requesters |-> <<>>]
    /\ ret = [q \in Requesters |-> Nothing]
    /\ calls = [q \in Requesters |-> 0]
    /\ sent = [q \in Requesters |-> 0]
    /\ ran = [q \in Requesters |-> 0]
    /\ noisy = [q \in Requesters |-> FALSE]
    /\ streak = [q \in Requesters |-> 0]

----------------------------------------------------------------------------
(* Headers *)

\* addTokens: the client's tokens, overridden by the headers that are given.
AddTokens(tokens, headers) ==
    [headers EXCEPT !.access = IF @ = NoToken THEN tokens.access ELSE @,
                    !.csrf = IF @ = NoCsrf THEN tokens.csrf ELSE @]
NoHeaders == [access |-> NoToken, refresh |-> NoToken, csrf |-> NoCsrf, login |-> "", phash |-> "none"]

\* updateTokens: the tokens of a response replace the client's.
UpdateTokens(resp) ==
    [access |-> IF resp.access = NoToken THEN tok.access ELSE resp.access,
     refresh |-> IF resp.refresh = NoToken THEN tok.refresh ELSE resp.refresh,
     csrf |-> IF resp.csrf = NoCsrf THEN tok.csrf ELSE resp.csrf]

----------------------------------------------------------------------------
(* A request of the client *)

ResendTries == 5
HomeTenancy == "home"
\* SendRequest builds the headers once.
Frame(tokens, path, tenancy, query, headers) ==
    [path |-> path, tenancy |-> tenancy, query |-> query, headers |-> AddTokens(tokens, headers),
     tries |-> ResendTries, at |-> "wait"]

Top(q) == stack[q][Len(stack[q])]
Active(q) == stack[q] # <<>>
Busy(q) == \E o \in Requesters \ {q} : Active(o)

\* DefaultSendWithBody adds the client's tokens of now to the headers of the frame;
\* DefaultSendWithQuery sends the headers of the frame.
RequestOf(tokens, frame) ==
    Over([path |-> frame.path, tenancy |-> frame.tenancy],
         IF frame.query THEN frame.headers ELSE AddTokens(tokens, frame.headers))
TokenIsDead(request) ==
    LET token == TokenOf(request)
    IN token.type \in {"access", "refresh"} /\ token.session \in ended
Send(q, tokens, frame) ==
    LET request == RequestOf(tokens, frame)
    IN /\ srv' = [srv EXCEPT ![q] = [Idle EXCEPT !.stage = "arrive", !.request = request,
                                                 !.dead = TokenIsDead(request)]]
       /\ sent' = [sent EXCEPT ![q] = @ + 1]

\* checkResponse sends a request of its own.
Push(q, at, tokens, frame) ==
    /\ Len(stack[q]) < MaxDepth
    /\ stack' = [stack EXCEPT ![q] = Append([@ EXCEPT ![Len(@)].at = at], frame)]
    /\ Send(q, tokens, frame)

IsResponseOK(r) == ~r.err /\ HttpCode(r.resp.error) < 400
Consume(q) == srv' = [srv EXCEPT ![q] = Idle]
\* A request returns: SendRequest takes the tokens of the response unless there is an error.  The
\* first request of the stack ends the call.
Return(q, resp, err) ==
    /\ stack' = [stack EXCEPT ![q] = SubSeq(@, 1, Len(@) - 1)]
    /\ tok' = IF err THEN tok ELSE UpdateTokens(resp)
    /\ Consume(q)
    /\ IF Len(stack[q]) > 1
       THEN ret' = [ret EXCEPT ![q] = Result(resp, err)] /\ UNCHANGED <<streak, noisy, sent, ran>>
       ELSE /\ ret' = [ret EXCEPT ![q] = Nothing]
            /\ LET spoilt == noisy[q] \/ resp = NoResponse \/ Top(q).tenancy # HomeTenancy
               IN streak' = [streak EXCEPT ![q] = IF IsResponseOK(Result(resp, err)) \/ spoilt THEN 0 ELSE @ + 1]
            /\ noisy' = [noisy EXCEPT ![q] = FALSE]
            /\ sent' = [sent EXCEPT ![q] = 0]
            /\ ran' = [ran EXCEPT ![q] = 0]

\* Post, Get, Logout...: a call of the application.
PathOf(op) == IF op = "logout" THEN LogoutPath ELSE op
Call(q) ==
    /\ ~Active(q) /\ MayCall(q, calls, faults, Busy(q))
    /\ \E op \in Ops(q, calls) :
         LET frame == Frame(tok, PathOf(op), IF op = "foreign" THEN "foreign" ELSE HomeTenancy, op = "read", NoHeaders)
         IN stack' = [stack EXCEPT ![q] = <<frame>>] /\ Send(q, tok, frame)
    /\ calls' = [calls EXCEPT ![q] = @ + 1]
    /\ noisy' = [r \in Requesters |-> IF r = q THEN Busy(q) ELSE Active(r)]
    /\ streak' = [r \in Requesters |-> IF r = q THEN streak[q] ELSE 0]
    /\ UNCHANGED <<clock, user, delay, sessions, clients, faults, overlapped, stale, ended, credentials, tok, inLogin, tried,
                   ret, ran>>

----------------------------------------------------------------------------
(* checkResponse *)

Received(q) == Active(q) /\ ~ret[q].some /\ Top(q).at = "wait" /\ At(q, "reply")
Response(q) == srv[q].response
Code(q) == HttpCode(Response(q).error)
\* What no step of checkResponse touches; what only a return touches.
untouched == <<clock, user, delay, sessions, clients, faults, overlapped, stale, ended, credentials, calls>>
ofReturn == <<ran, noisy, streak>>

\* A good response, or no more tries.
Accept(q) ==
    /\ Received(q)
    /\ Response(q).error = "ok" \/ Top(q).tries < 0
    /\ Return(q, Response(q), FALSE)
    /\ UNCHANGED <<untouched, inLogin, tried>>

Refused(q) == Received(q) /\ Response(q).error # "ok" /\ Top(q).tries >= 0

\* Refresh the CSRF token.
AskCsrf(q) ==
    /\ Refused(q) /\ IsCsrfError(Response(q).error)
    /\ Push(q, "csrf", tok, Frame(tok, StatusPath, "", TRUE, NoHeaders))
    /\ UNCHANGED <<untouched, ofReturn, tok, inLogin, tried, ret>>

GiveUp(q) ==
    /\ Refused(q) /\ ~IsCsrfError(Response(q).error) /\ Code(q) # 401
    /\ Return(q, Response(q), TRUE)
    /\ UNCHANGED <<untouched, inLogin, tried>>

Unauthorized(q) == Refused(q) /\ Code(q) = 401
WantsLogin(q) ==
    \/ tok.refresh = NoToken
    \/ ReloginRequired(Response(q).error)
    \/ Response(q).error = "login_failed"
WantsRefresh(q) == ~WantsLogin(q) /\ (tok.access = NoToken \/ RefreshRequired(Response(q).error))

\* A refusal during somebody's login or refresh, or after a login with these credentials failed.
StopAtLogin(q) ==
    /\ Unauthorized(q)
    /\ \/ inLogin /\ (WantsLogin(q) \/ WantsRefresh(q))
       \/ ~inLogin /\ WantsLogin(q) /\ Response(q).error = "login_failed" /\ tried
    /\ Return(q, Response(q), TRUE)
    /\ UNCHANGED <<untouched, inLogin, tried>>

\* Nobody is logging in: the lock is released before inLogin is set.
Decide(q, what) ==
    /\ stack' = [stack EXCEPT ![q][Len(stack[q])].at = what]
    /\ Consume(q)
    /\ UNCHANGED <<untouched, ofReturn, sent, tok, inLogin, tried, ret>>
DecideLogin(q) ==
    /\ Unauthorized(q) /\ ~inLogin /\ WantsLogin(q)
    /\ ~(Response(q).error = "login_failed" /\ tried)
    /\ Decide(q, "login")
DecideRefresh(q) == Unauthorized(q) /\ ~inLogin /\ WantsRefresh(q) /\ Decide(q, "refresh")

Done(q) ==
    /\ Unauthorized(q) /\ ~WantsLogin(q) /\ ~WantsRefresh(q)
    /\ Return(q, Response(q), FALSE)
    /\ UNCHANGED <<untouched, inLogin, tried>>

Waits(q, at) == Active(q) /\ Top(q).at = at
\* Login, first step.
LoginFrame(phash) ==
    Frame(tok, LoginPath, HomeTenancy, FALSE, [NoHeaders EXCEPT !.login = credentials.login, !.phash = phash])
StartLogin(q) ==
    /\ Waits(q, "login")
    /\ inLogin' = TRUE /\ tried' = TRUE
    /\ Push(q, "login1", tok, LoginFrame("none"))
    /\ UNCHANGED <<untouched, ofReturn, tok, ret>>

\* RequestRefreshToken drops the access token first.
StartRefresh(q) ==
    /\ Waits(q, "refresh")
    /\ inLogin' = TRUE
    /\ tok' = [tok EXCEPT !.access = NoToken]
    /\ Push(q, "refreshing", tok',
            Frame(tok', RefreshPath, HomeTenancy, FALSE, [NoHeaders EXCEPT !.refresh = tok.refresh]))
    /\ UNCHANGED <<untouched, ofReturn, tried, ret>>

----------------------------------------------------------------------------
(* After a request of checkResponse's own *)

Returned(q, at) == ret[q].some /\ Waits(q, at)
LowerOf(a, b) == IF a < b THEN a ELSE b
\* resend: one try less.
Resent(frame, limit) == [frame EXCEPT !.at = "wait", !.tries = LowerOf(@, limit) - 1]
Resend(q, limit) ==
    /\ stack' = [stack EXCEPT ![q][Len(stack[q])] = Resent(@, limit)]
    /\ Send(q, tok, Top(q))
    /\ ret' = [ret EXCEPT ![q] = Nothing]
    /\ UNCHANGED <<tok, ofReturn>>
Fail(q) == Return(q, ret[q].resp, TRUE)

AfterCsrf(q) ==
    /\ Returned(q, "csrf")
    /\ IF IsResponseOK(ret[q]) THEN Resend(q, 2) ELSE Fail(q)
    /\ UNCHANGED <<untouched, inLogin, tried>>

\* Login, second step.  A first step that got no response is not handled: the process panics.
MakePhash(resp) == IF resp.salt = "salt" /\ credentials.password = "right" THEN "good" ELSE "bad"
SecondStep(q) ==
    /\ Returned(q, "login1") /\ ret[q].resp # NoResponse
    /\ IF ret[q].err /\ ret[q].resp.error # "login_credentials_required"
       THEN Fail(q) /\ inLogin' = FALSE
       ELSE /\ Push(q, "login2", tok, LoginFrame(MakePhash(ret[q].resp)))
            /\ ret' = [ret EXCEPT ![q] = Nothing]
            /\ UNCHANGED <<tok, inLogin, ofReturn>>
    /\ UNCHANGED <<untouched, tried>>
AfterLoginKeepsFlag(q) ==
    /\ Returned(q, "login2")
    /\ IF ~ret[q].err /\ HttpCode(ret[q].resp.error) = 200
       THEN Resend(q, 1) /\ UNCHANGED inLogin ELSE Fail(q) /\ inLogin' = FALSE
    /\ UNCHANGED <<untouched, tried>>
AfterLogin(q) ==
    /\ Returned(q, "login2")
    /\ inLogin' = FALSE
    /\ IF ~ret[q].err /\ HttpCode(ret[q].resp.error) = 200 THEN Resend(q, 1) ELSE Fail(q)
    /\ UNCHANGED <<untouched, tried>>
AfterRefresh(q) ==
    /\ Returned(q, "refreshing")
    /\ inLogin' = FALSE
    /\ IF IsResponseOK(ret[q]) THEN Resend(q, 1) ELSE Fail(q)
    /\ UNCHANGED <<untouched, tried>>

----------------------------------------------------------------------------
(* Around the client *)

\* A request or its response is lost: there is an error and no response.
IsLost(q) ==
    /\ Active(q) /\ ~ret[q].some /\ srv[q].stage \in {"arrive", "reply"}
    /\ faults < MaxFaults /\ MayFail(calls)
LoseAndResend(q) ==
    /\ IsLost(q)
    /\ faults' = faults + 1
    /\ Resend(q, Top(q).tries)
    /\ UNCHANGED <<clock, user, delay, sessions, clients, overlapped, stale, ended, credentials, calls, inLogin, tried>>
Lose(q) ==
    /\ IsLost(q)
    /\ faults' = faults + 1
    /\ Return(q, NoResponse, TRUE)
    /\ UNCHANGED <<clock, user, delay, sessions, clients, overlapped, stale, ended, credentials, calls, inLogin, tried>>

\* The server works on the request; the handler of the call itself is counted.
Serve(q) ==
    /\ ServerStep(q)
    /\ ran' = [ran EXCEPT ![q] = IF At(q, "handler") /\ Len(stack[q]) = 1 THEN @ + 1 ELSE @]
    /\ UNCHANGED <<credentials, tok, inLogin, tried, stack, ret, calls, sent, noisy, streak>>

\* Two calls at once are disturbed only while both requests hold a session: a bound of the model.
MayDisturb ==
    LET active == {q \in Requesters : Active(q)}
    IN Cardinality(active) <= 1 \/ \A q \in active : q \in Holders(srv[q].session)
Disturb ==
    /\ Disturbance /\ MayDisturb /\ (faults' = faults \/ MayFail(calls))
    /\ noisy' = [q \in Requesters |-> Active(q)]
    /\ streak' = [q \in Requesters |-> 0]
    /\ UNCHANGED <<credentials, tok, inLogin, tried, stack, ret, calls, sent, ran>>

\* Everybody has made their calls, or the process panicked.
Panicked == \E q \in Requesters : Returned(q, "login1") /\ ret[q].resp = NoResponse
Finished ==
    /\ Panicked \/ \A q \in Requesters : ~Active(q) /\ ~MayCall(q, calls, faults, Busy(q))
    /\ UNCHANGED vars

ClientStep(q) ==
    \/ Call(q) \/ Accept(q) \/ AskCsrf(q) \/ GiveUp(q) \/ StopAtLogin(q) \/ DecideLogin(q)
    \/ DecideRefresh(q) \/ Done(q) \/ StartLogin(q) \/ StartRefresh(q) \/ Lose(q) \/ AfterCsrf(q) \/ SecondStep(q)
    \/ AfterLogin(q) \/ AfterRefresh(q)

Next ==
    \/ \E q \in Requesters : ClientStep(q) \/ Serve(q)
    \/ Disturb
    \/ Finished
Spec == Init /\ [][Next]_vars

----------------------------------------------------------------------------
(* Properties *)

\* The handler of a call runs at most once, although a reply may be lost after the handler ran and
\* the requests of the call are sent again.
RunsOnce == \A q \in Requesters : ran[q] <= 1

\* However the server refuses it, a call ends after a bounded number of requests (every resend
\* lowers the tries, and the requests of checkResponse's own do not log in again), and its handler
\* runs at most once.
RetriesAreSafe == RunsOnce /\ \A q \in Requesters : sent[q] <= RequestLimit

Live(token) == token.type # "none" /\ ~Expired(token.exp, clock)

\* A session lives as long as the tokens that were issued for it: a live token is never refused
\* because its session has expired, unless requests of the session overlapped or took long, or the
\* new expiration could not be written, which is answered with the new access token all the same
\* (UpdateSessionExpiration, session_controller.go).
SessionCoversTokens ==
    \A token \in {tok.access, tok.refresh} :
      Live(token) /\ token.session \notin overlapped \union stale => token.exp <= sessions[token.session].exp

\* What the client has: a refusal of its refresh token when its access token is expired too is
\* never followed by a login (auto_reconnect.go:166-199).
RefreshIsAccepted ==
    tok.refresh = NoToken \/ (Live(tok.refresh) /\ SessionVerdict(sessions[tok.refresh.session], user, clock) = "ok")
AccessIsExpired == tok.access = NoToken \/ ~Live(tok.access)
Stuck == AccessIsExpired /\ ~RefreshIsAccepted
CanLogin == credentials = [login |-> Login, password |-> "right"] /\ ~user.blocked /\ ~Delayed

\* A client with good credentials recovers by itself: of calls that nothing disturbs, at most
\* two in a row fail, while the refresh token is accepted or there is none yet
\* (checkResponse, auto_reconnect.go).
RecoversInTwo == \A q \in Requesters : CanLogin /\ ~Stuck => streak[q] <= 2
=============================================================================
