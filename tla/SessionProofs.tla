---------------------------- MODULE SessionProofs ----------------------------
(***************************************************************************)
(* For any number of goroutines, calls, sessions, faults and logouts: a    *)
(* request that reaches its handler belongs to a session that had not      *)
(* ended when the request was sent; the handler of a call runs at most     *)
(* once; and a session lives as long as the tokens that were issued for    *)
(* it.                                                                     *)
(***************************************************************************)
EXTENDS ReconnectingClient, SequenceTheorems, TLAPS

-----------------------------------------------------------------------------
(* The inductive invariant.                                                *)

Row == [valid : BOOLEAN, exp : Int]
Fields == {"stage", "request", "now", "session", "copy", "client", "dead", "response"}
ResponseFields == {"error", "access", "refresh", "csrf", "salt"}
HeaderFields == {"access", "refresh", "csrf", "login", "phash"}

(* Every token that is anywhere was issued for a session of the table.     *)
Known(token) == token.type \in {"access", "refresh"} => token.session \in DOMAIN sessions

ResponseOK(r) == DOMAIN r = ResponseFields /\ Known(r.access) /\ Known(r.refresh)
HeadersOK(h) == DOMAIN h = HeaderFields /\ Known(h.access) /\ Known(h.refresh)
FrameOK(f) == {"headers", "at"} \subseteq DOMAIN f /\ HeadersOK(f.headers)
StackOK(s) == \E S : s \in Seq(S) /\ \A f \in S : FrameOK(f)

(* A request on the server.  When it arrives with a token of an ended      *)
(* session it is dead, and only a request that is not dead gets past the   *)
(* token check.  Its client is a stored one unless another request of the  *)
(* session got in its way, or the client could not be created.             *)
Inside(x) == x.stage \notin {"none", "arrive", "reply"}
Identified(x) == Inside(x) /\ x.stage \notin {"client", "create"}
SchemaOK(x) ==
    Inside(x) =>
      /\ x.session # 0 \/ (x.stage = "handler" /\ Schema(Endpoints, x.request.path) = "noauth")
      /\ Schema(Endpoints, x.request.path) = DefaultSchema => x.session # 0 /\ ~x.dead
ClientOK(x) ==
    /\ x.stage = "create" => x.session \in overlapped \/ x.session \notin clients
    /\ Identified(x) /\ x.session # 0 =>
         \/ x.client = "stored" /\ x.session \in clients
         \/ x.client = "lost" /\ x.session \in overlapped
         \/ x.client = "unstored"
RequestOK(x) ==
    /\ DOMAIN x = Fields
    /\ x.copy \in Row
    /\ ResponseOK(x.response)
    /\ Known(x.request.access) /\ Known(x.request.refresh)
    /\ x.session \in 0 .. Len(sessions)
    /\ x.stage = "arrive" => x.session = 0 /\ (x.dead => TokenOf(x.request).session \in ended)
    /\ SchemaOK(x)
    /\ ClientOK(x)

(* Two requests that hold one session have overlapped.                     *)
Overlap ==
    \A q, r \in Requesters :
      q # r /\ Inside(srv[q]) /\ Inside(srv[r]) /\ srv[q].session = srv[r].session /\ srv[q].session # 0
         => srv[q].session \in overlapped

TableInv ==
    /\ clock \in Nat
    /\ sessions \in Seq(Row)
    /\ \A s \in ended : s \in DOMAIN sessions /\ ~sessions[s].valid
RequestInv ==
    /\ DOMAIN srv = Requesters
    /\ \A q \in Requesters : RequestOK(srv[q])
    /\ Overlap
ClientInv ==
    /\ DOMAIN tok = {"access", "refresh", "csrf"} /\ Known(tok.access) /\ Known(tok.refresh)
    /\ DOMAIN stack = Requesters /\ \A q \in Requesters : StackOK(stack[q])
    /\ DOMAIN ret = Requesters /\ \A q \in Requesters : ResponseOK(ret[q].resp)
IInv == TableInv /\ RequestInv /\ ClientInv

-----------------------------------------------------------------------------
(* Records that are merged.                                                *)

LEMMA OverNew ==
    ASSUME NEW new, NEW old, NEW f \in DOMAIN new
    PROVE  Over(new, old)[f] = new[f]
BY DEF Over

LEMMA OverOld ==
    ASSUME NEW new, NEW old, NEW f \in DOMAIN old \ DOMAIN new
    PROVE  Over(new, old)[f] = old[f]
BY DEF Over

LEMMA OverDomain ==
    ASSUME NEW new, NEW old
    PROVE  DOMAIN Over(new, old) = DOMAIN new \union DOMAIN old
BY DEF Over

LEMMA Stepped ==
    ASSUME NEW y, DOMAIN y = Fields, NEW new, DOMAIN new \subseteq Fields
    PROVE  /\ DOMAIN Over(new, y) = Fields
           /\ \A f \in Fields : Over(new, y)[f] = IF f \in DOMAIN new THEN new[f] ELSE y[f]
BY DEF Over

LEMMA OverStage ==
    ASSUME NEW s, NEW r, NEW new, new = Over([stage |-> s], [response |-> r])
    PROVE  DOMAIN new = {"stage", "response"} /\ new.stage = s /\ new.response = r
<1>1. DOMAIN new = {"stage", "response"}
  BY DEF Over
<1>. QED
  BY <1>1 DEF Over

LEMMA OverCopy ==
    ASSUME NEW s, NEW c, NEW r, NEW new, new = Over([stage |-> s, copy |-> c], [response |-> r])
    PROVE  /\ DOMAIN new = {"stage", "copy", "response"}
           /\ new.stage = s /\ new.copy = c /\ new.response = r
<1>1. DOMAIN new = {"stage", "copy", "response"}
  BY DEF Over
<1>. QED
  BY <1>1 DEF Over

LEMMA OverSession ==
    ASSUME NEW s, NEW n, NEW i, NEW c, NEW r, NEW new,
           new = Over([stage |-> s, now |-> n, session |-> i, copy |-> c], [response |-> r])
    PROVE  /\ DOMAIN new = {"stage", "now", "session", "copy", "response"}
           /\ new.stage = s /\ new.now = n /\ new.session = i /\ new.copy = c /\ new.response = r
<1>1. DOMAIN new = {"stage", "now", "session", "copy", "response"}
  BY DEF Over
<1>. QED
  BY <1>1 DEF Over

-----------------------------------------------------------------------------
(* What the growth of the tables keeps.                                    *)

Grows ==
    /\ sessions \in Seq(Row) /\ sessions' \in Seq(Row)
    /\ Len(sessions) <= Len(sessions')
    /\ ended \subseteq ended' /\ overlapped \subseteq overlapped'

LEMMA SessionsGrow ==
    ASSUME Grows
    PROVE  /\ DOMAIN sessions \subseteq DOMAIN sessions'
           /\ 0 .. Len(sessions) \subseteq 0 .. Len(sessions')
<1>1. /\ DOMAIN sessions = 1 .. Len(sessions) /\ Len(sessions) \in Nat
      /\ DOMAIN sessions' = 1 .. Len(sessions') /\ Len(sessions') \in Nat
  BY LenProperties DEF Grows
<1>2. Len(sessions) <= Len(sessions')
  BY DEF Grows
<1>. QED
  BY <1>1, <1>2

LEMMA KnownKept ==
    ASSUME NEW token, Known(token), Grows
    PROVE  Known(token)'
BY SessionsGrow DEF Known

LEMMA ResponseKept ==
    ASSUME NEW r, ResponseOK(r), Grows
    PROVE  ResponseOK(r)'
<1>1. Known(r.access)' /\ Known(r.refresh)'
  BY KnownKept DEF ResponseOK
<1>. QED
  BY <1>1 DEF ResponseOK

LEMMA StackKept ==
    ASSUME NEW s, StackOK(s), Grows
    PROVE  StackOK(s)'
<1>1. PICK S : s \in Seq(S) /\ \A f \in S : FrameOK(f)
  BY DEF StackOK
<1>2. ASSUME NEW f \in S
      PROVE  FrameOK(f)'
  <2>1. FrameOK(f)
    BY <1>1
  <2>2. Known(f.headers.access)' /\ Known(f.headers.refresh)'
    BY <2>1, KnownKept DEF FrameOK, HeadersOK
  <2>. QED
    BY <2>1, <2>2 DEF FrameOK, HeadersOK
<1>. QED
  BY <1>1, <1>2 DEF StackOK

LEMMA ClientKept ==
    ASSUME ClientInv, Grows, UNCHANGED <<tok, stack, ret>>
    PROVE  ClientInv'
<1>1. Known(tok.access)' /\ Known(tok.refresh)'
  <2>1. PICK a, b : a = tok.access /\ b = tok.refresh
    OBVIOUS
  <2>2. Known(a)' /\ Known(b)'
    BY <2>1, KnownKept DEF ClientInv
  <2>. QED
    BY <2>1, <2>2
<1>2. ASSUME NEW q \in Requesters
      PROVE  StackOK(stack[q])' /\ ResponseOK(ret[q].resp)'
  <2>1. PICK s, r : s = stack[q] /\ r = ret[q].resp
    OBVIOUS
  <2>2. StackOK(s)' /\ ResponseOK(r)'
    BY <2>1, StackKept, ResponseKept DEF ClientInv
  <2>. QED
    BY <2>1, <2>2
<1>. QED
  BY <1>1, <1>2 DEF ClientInv

(* The other requests when a client is stored for one of their sessions.   *)
LEMMA RequestKept ==
    ASSUME NEW x, RequestOK(x), Grows, clients \subseteq clients',
           x.stage = "create" => x.session \in overlapped' \/ x.session \notin clients'
    PROVE  RequestOK(x)'
<1>1. ResponseOK(x.response)' /\ Known(x.request.access)' /\ Known(x.request.refresh)'
  BY ResponseKept, KnownKept DEF RequestOK
<1>2. x.session \in 0 .. Len(sessions')
  BY SessionsGrow DEF RequestOK
<1>3. x.stage = "arrive" => x.session = 0 /\ (x.dead => TokenOf(x.request).session \in ended')
  BY DEF RequestOK, Grows
<1>4. SchemaOK(x)'
  BY DEF RequestOK, SchemaOK, Inside
<1>5. ClientOK(x)'
  BY DEF RequestOK, ClientOK, Grows, Identified, Inside
<1>. QED
  BY <1>1, <1>2, <1>3, <1>4, <1>5 DEF RequestOK

(* One request moves; it holds the session that it held, or one that the   *)
(* others do not hold, or it has overlapped with them.                     *)
LEMMA RequestMoves ==
    ASSUME RequestInv, Grows, NEW q \in Requesters, NEW x,
           srv' = [srv EXCEPT ![q] = x], RequestOK(x)',
           \/ clients' = clients
           \/ /\ clients' = clients \union {srv[q].session}
              /\ Inside(srv[q]) /\ srv[q].session # 0,
           \/ ~Inside(x)
           \/ Inside(srv[q]) /\ x.session = srv[q].session
           \/ \A r \in Requesters \ {q} :
                Inside(srv[r]) /\ srv[r].session = x.session => x.session \in overlapped' \union {0}
    PROVE  RequestInv'
<1>1. srv'[q] = x /\ DOMAIN srv' = Requesters /\ \A r \in Requesters \ {q} : srv'[r] = srv[r]
  BY DEF RequestInv
<1>2. ASSUME NEW r \in Requesters
      PROVE  RequestOK(srv[r])'
  <2>1. CASE r = q
    BY <1>1, <2>1
  <2>2. CASE r # q
    <3>1. PICK y : y = srv[r]
      OBVIOUS
    <3>2. RequestOK(y)
      BY <3>1 DEF RequestInv
    <3>3. ASSUME y.stage = "create", y.session \in clients', y.session \notin overlapped'
          PROVE  FALSE
      <4>1. y.session \notin overlapped /\ y.session \notin clients
        BY <3>2, <3>3 DEF RequestOK, ClientOK, Grows
      <4>2. y.session = srv[q].session /\ Inside(srv[q]) /\ srv[q].session # 0
        BY <4>1, <3>3
      <4>3. Inside(y)
        BY <3>3 DEF Inside
      <4>. QED
        BY <2>2, <3>1, <4>1, <4>2, <4>3 DEF RequestInv, Overlap
    <3>4. clients \subseteq clients'
      OBVIOUS
    <3>5. RequestOK(y)'
      BY <3>2, <3>3, <3>4, RequestKept
    <3>. QED
      BY <1>1, <2>2, <3>1, <3>5
  <2>. QED
    BY <2>1, <2>2
<1>3. Overlap'
  <2>. SUFFICES ASSUME NEW a \in Requesters, NEW b \in Requesters, a # b,
                       Inside(srv'[a]), Inside(srv'[b]), srv'[a].session = srv'[b].session, srv'[a].session # 0
                PROVE  srv'[a].session \in overlapped'
    BY DEF Overlap, Inside
  <2>1. CASE a # q /\ b # q
    BY <1>1, <2>1 DEF RequestInv, Overlap, Grows
  <2>2. ASSUME NEW r \in Requesters, r # q, Inside(x), Inside(srv[r]), srv[r].session = x.session, x.session # 0
        PROVE  x.session \in overlapped'
    BY <2>2 DEF RequestInv, Overlap, Grows
  <2>3. CASE a = q
    BY <1>1, <2>2, <2>3
  <2>4. CASE b = q
    BY <1>1, <2>2, <2>4
  <2>. QED
    BY <2>1, <2>3, <2>4
<1>. QED
  BY <1>1, <1>2, <1>3 DEF RequestInv

-----------------------------------------------------------------------------
(* Steps of the server that leave the tables alone.                        *)

Still == UNCHANGED <<clock, sessions, ended, overlapped, clients>>

LEMMA StillGrows ==
    ASSUME TableInv, UNCHANGED <<sessions, ended, overlapped>>
    PROVE  Grows
BY LenProperties DEF TableInv, Grows

LEMMA StillTable ==
    ASSUME TableInv, UNCHANGED <<clock, sessions, ended>>
    PROVE  TableInv'
BY DEF TableInv

LEMMA StillStep ==
    ASSUME IInv, NEW q \in Requesters, NEW x, srv' = [srv EXCEPT ![q] = x], RequestOK(x), Still,
           \/ ~Inside(x)
           \/ Inside(srv[q]) /\ x.session = srv[q].session
           \/ x.session = 0,
           UNCHANGED <<tok, stack, ret>>
    PROVE  IInv'
<1>1. Grows /\ TableInv'
  BY StillGrows, StillTable DEF IInv, Still
<1>2. RequestOK(x)'
  BY <1>1, RequestKept DEF RequestOK, ClientOK, Still
<1>3. RequestInv'
  BY <1>1, <1>2, RequestMoves DEF IInv, Still
<1>. QED
  BY <1>1, <1>3, ClientKept DEF IInv

LEMMA HeadersSet ==
    ASSUME NEW r, ResponseOK(r), NEW h, DOMAIN h \subseteq ResponseFields,
           "access" \in DOMAIN h => Known(h.access), "refresh" \in DOMAIN h => Known(h.refresh)
    PROVE  ResponseOK(Over(h, r))
<1>1. DOMAIN Over(h, r) = ResponseFields
  BY OverDomain DEF ResponseOK
<1>2. Over(h, r).access \in {r.access} \union {h.access : i \in DOMAIN h \intersect {"access"}}
  BY OverNew, OverOld DEF ResponseOK, ResponseFields
<1>3. Over(h, r).refresh \in {r.refresh} \union {h.refresh : i \in DOMAIN h \intersect {"refresh"}}
  BY OverNew, OverOld DEF ResponseOK, ResponseFields
<1>. QED
  BY <1>1, <1>2, <1>3 DEF ResponseOK

LEMMA Replies ==
    ASSUME NEW y, RequestOK(y), NEW error, NEW h, DOMAIN h \subseteq {"csrf", "salt"}, NEW x,
           x = Over([stage |-> "reply", response |-> Over([error |-> error], Over(h, y.response))], y)
    PROVE  RequestOK(x) /\ ~Inside(x)
<1>1. ResponseOK(Over(h, y.response))
  BY HeadersSet DEF RequestOK, ResponseFields
<1>. DEFINE r == Over([error |-> error], Over(h, y.response))
<1>2. ResponseOK(r)
  <2>1. DOMAIN [error |-> error] = {"error"}
    OBVIOUS
  <2>. QED
    BY <1>1, <2>1, HeadersSet DEF ResponseFields
<1>. HIDE DEF r
<1>3. DOMAIN y = Fields
  BY DEF RequestOK
<1>4. /\ DOMAIN x = Fields /\ x.stage = "reply" /\ x.response = r /\ x.copy = y.copy
      /\ x.request = y.request /\ x.session = y.session
  <2>. DEFINE new == [stage |-> "reply", response |-> r]
  <2>1. x = Over(new, y)
    BY DEF r
  <2>2. DOMAIN new = {"stage", "response"} /\ new.stage = "reply" /\ new.response = r
    OBVIOUS
  <2>. HIDE DEF new
  <2>3. DOMAIN x = Fields /\ \A f \in Fields : x[f] = IF f \in {"stage", "response"} THEN new[f] ELSE y[f]
    BY <1>3, <2>1, <2>2, Stepped DEF Fields
  <2>. QED
    BY <2>2, <2>3 DEF Fields
<1>. QED
  BY <1>2, <1>4 DEF RequestOK, SchemaOK, ClientOK, Identified, Inside

LEMMA RespondInv ==
    ASSUME IInv, NEW q \in Requesters, NEW error, NEW h, DOMAIN h \subseteq {"csrf", "salt"},
           Respond(q, error, h), Still, UNCHANGED <<tok, stack, ret>>
    PROVE  IInv'
<1>1. PICK y : y = srv[q]
  OBVIOUS
<1>2. PICK x : x = Over([stage |-> "reply", response |-> Over([error |-> error], Over(h, y.response))], y)
  OBVIOUS
<1>3. RequestOK(y) /\ srv' = [srv EXCEPT ![q] = x]
  BY <1>1, <1>2 DEF IInv, RequestInv, Respond, Step
<1>4. RequestOK(x) /\ ~Inside(x)
  BY <1>2, <1>3, Replies
<1>. QED
  BY <1>3, <1>4, StillStep

(* The headers that a reply may have.                                      *)
LEMMA ReplyHeaders ==
    /\ DOMAIN <<>> \subseteq {"csrf", "salt"}
    /\ \A salt : DOMAIN [salt |-> salt] \subseteq {"csrf", "salt"}
    /\ DOMAIN NewCsrf = {"csrf"}
BY DEF NewCsrf

LEMMA ReplyingInv ==
    ASSUME IInv, NEW q \in Requesters, UNCHANGED <<tok, stack, ret>>,
           RejectEarly(q) \/ RefuseCsrf(q) \/ RefuseToken(q) \/ RefuseLogin(q) \/ HandleRequest(q) \/ DatabaseFails(q)
    PROVE  IInv'
<1>1. CASE RejectEarly(q) \/ RefuseCsrf(q) \/ HandleRequest(q) \/ DatabaseFails(q)
  <2>1. PICK error, h : h \in {<<>>, NewCsrf} /\ Respond(q, error, h)
    BY <1>1 DEF RejectEarly, RefuseCsrf, HandleRequest, DatabaseFails
  <2>2. Still
    BY <1>1 DEF RejectEarly, RefuseCsrf, HandleRequest, DatabaseFails, Still
  <2>. QED
    BY <2>1, <2>2, ReplyHeaders, RespondInv
<1>2. CASE RefuseToken(q)
  <2>1. PICK error, h : h = NewCsrf /\ Respond(q, error, h)
    BY <1>2 DEF RefuseToken
  <2>2. Still
    BY <1>2 DEF RefuseToken, Still
  <2>. QED
    BY <2>1, <2>2, ReplyHeaders, RespondInv
<1>3. CASE RefuseLogin(q)
  <2>1. PICK error, salt, h :
          /\ DOMAIN salt \subseteq {"csrf", "salt"} /\ h = Over(NewCsrf, salt) /\ Respond(q, error, h)
    BY <1>3, ReplyHeaders DEF RefuseLogin
  <2>2. DOMAIN h \subseteq {"csrf", "salt"}
    BY <2>1, ReplyHeaders, OverDomain
  <2>3. Still
    BY <1>3 DEF RefuseLogin, Still
  <2>. QED
    BY <2>1, <2>2, <2>3, RespondInv
<1>. QED
  BY <1>1, <1>2, <1>3

-----------------------------------------------------------------------------
(* Steps of a request on the server.                                       *)

LEMMA CsrfSet ==
    ASSUME NEW y, RequestOK(y), NEW h, h = NewCsrf
    PROVE  ResponseOK(Over(h, y.response))
BY ReplyHeaders, HeadersSet DEF RequestOK, ResponseFields

LEMMA ServeNoAuthInv ==
    ASSUME IInv, NEW q \in Requesters, ServeNoAuth(q), UNCHANGED <<tok, stack, ret>>
    PROVE  IInv'
<1>1. PICK y, h, r : y = srv[q] /\ h = NewCsrf /\ r = Over(h, y.response)
  OBVIOUS
<1>2. PICK new : new = Over([stage |-> "handler"], [response |-> r])
  OBVIOUS
<1>3. DOMAIN new = {"stage", "response"} /\ new.stage = "handler" /\ new.response = r
  BY <1>2, OverStage
<1>4. PICK x : x = Over(new, y)
  OBVIOUS
<1>5. RequestOK(y) /\ srv' = [srv EXCEPT ![q] = x] /\ Still
  BY <1>1, <1>2, <1>4 DEF IInv, RequestInv, ServeNoAuth, Step, Headers, Still
<1>6. y.stage = "arrive" /\ Schema(Endpoints, y.request.path) = "noauth"
  BY <1>1 DEF ServeNoAuth, PassesCsrf, At, SchemaOf, Path
<1>7. DOMAIN x = Fields /\ \A f \in Fields : x[f] = IF f \in {"stage", "response"} THEN new[f] ELSE y[f]
  BY <1>3, <1>4, <1>5, Stepped DEF RequestOK, Fields
<1>8. /\ x.stage = "handler" /\ x.response = r /\ x.copy = y.copy /\ x.request = y.request
      /\ x.session = y.session /\ x.dead = y.dead
  BY <1>3, <1>7 DEF Fields
<1>9. ResponseOK(r)
  BY <1>1, <1>5, CsrfSet
<1>10. "noauth" # DefaultSchema
  BY DEF DefaultSchema
<1>11. RequestOK(x) /\ x.session = 0
  BY <1>5, <1>6, <1>7, <1>8, <1>9, <1>10 DEF RequestOK, SchemaOK, ClientOK, Inside, Identified
<1>. QED
  BY <1>5, <1>11, StillStep

LEMMA FindClientInv ==
    ASSUME IInv, NEW q \in Requesters, FindClient(q), UNCHANGED <<tok, stack, ret>>
    PROVE  IInv'
<1>1. PICK y : y = srv[q]
  OBVIOUS
<1>2. PICK new :
        new = IF y.session \in clients THEN [stage |-> "tokens", client |-> "stored"] ELSE [stage |-> "create"]
  OBVIOUS
<1>3. PICK x : x = Over(new, y)
  OBVIOUS
<1>4. RequestOK(y) /\ srv' = [srv EXCEPT ![q] = x] /\ Still /\ y.stage = "client"
  BY <1>1, <1>2, <1>3 DEF IInv, RequestInv, FindClient, Step, At, Still
<1>5. \/ /\ DOMAIN new = {"stage", "client"} /\ new.stage = "tokens" /\ new.client = "stored"
         /\ y.session \in clients
      \/ DOMAIN new = {"stage"} /\ new.stage = "create" /\ y.session \notin clients
  BY <1>2
<1>6. DOMAIN x = Fields /\ \A f \in Fields : x[f] = IF f \in DOMAIN new THEN new[f] ELSE y[f]
  BY <1>3, <1>4, <1>5, Stepped DEF RequestOK, Fields
<1>7. /\ x.response = y.response /\ x.copy = y.copy /\ x.request = y.request
      /\ x.session = y.session /\ x.dead = y.dead
      /\ \/ x.stage = "tokens" /\ x.client = "stored" /\ y.session \in clients
         \/ x.stage = "create" /\ y.session \notin clients
  BY <1>5, <1>6 DEF Fields
<1>8. RequestOK(x) /\ Inside(y)
  BY <1>4, <1>6, <1>7 DEF RequestOK, SchemaOK, ClientOK, Inside, Identified
<1>. QED
  BY <1>1, <1>4, <1>7, <1>8, StillStep

LEMMA CreateClientFailsInv ==
    ASSUME IInv, NEW q \in Requesters, CreateClientFails(q), UNCHANGED <<tok, stack, ret>>
    PROVE  IInv'
<1>1. PICK y, new : y = srv[q] /\ new = [stage |-> "tokens", client |-> "unstored"]
  OBVIOUS
<1>2. PICK x : x = Over(new, y)
  OBVIOUS
<1>3. RequestOK(y) /\ srv' = [srv EXCEPT ![q] = x] /\ Still /\ y.stage = "create"
  BY <1>1, <1>2 DEF IInv, RequestInv, CreateClientFails, Step, At, Still
<1>4. DOMAIN new = {"stage", "client"} /\ new.stage = "tokens" /\ new.client = "unstored"
  BY <1>1
<1>5. DOMAIN x = Fields /\ \A f \in Fields : x[f] = IF f \in DOMAIN new THEN new[f] ELSE y[f]
  BY <1>2, <1>3, <1>4, Stepped DEF RequestOK, Fields
<1>6. /\ x.response = y.response /\ x.copy = y.copy /\ x.request = y.request
      /\ x.session = y.session /\ x.dead = y.dead /\ x.stage = "tokens" /\ x.client = "unstored"
  BY <1>4, <1>5 DEF Fields
<1>7. RequestOK(x) /\ Inside(y)
  BY <1>3, <1>5, <1>6 DEF RequestOK, SchemaOK, ClientOK, Inside, Identified
<1>. QED
  BY <1>1, <1>3, <1>6, <1>7, StillStep

(* The request at "tokens" goes on to "logout", "prolong" or "handler"     *)
(* with an access token of its own session at most.                        *)
LEMMA GenTokensInv ==
    ASSUME IInv, NEW q \in Requesters, GenTokens(q), UNCHANGED <<tok, stack, ret>>
    PROVE  IInv'
<1>1. PICK y, c, h :
        /\ y = srv[q] /\ c = [y.copy EXCEPT !.exp = SetTTL(RefreshTtl, clock)]
        /\ h = [access |-> GenToken("access", AccessTtl, y.session, y.request.tenancy, clock)]
  OBVIOUS
<1>2. RequestOK(y) /\ y.stage = "tokens" /\ Still
  BY <1>1 DEF IInv, RequestInv, GenTokens, At, Still
<1>3. c \in Row
  BY <1>1, <1>2, TtlAssumption DEF RequestOK, Row, SetTTL, IInv, TableInv
<1>4. Inside(y) /\ y.session # 0 /\ y.session \in DOMAIN sessions
  <2>1. Inside(y) /\ y.session # 0
    BY <1>2 DEF RequestOK, SchemaOK, Inside
  <2>. QED
    BY <1>2, <2>1, LenProperties DEF RequestOK, IInv, TableInv
<1>5. DOMAIN h = {"access"} /\ Known(h.access)
  BY <1>1, <1>4 DEF GenToken, Known
<1>6. PICK new, g :
        /\ srv' = [srv EXCEPT ![q] = Over(new, y)]
        /\ g \in {h, <<>>}
        /\ \/ new = [stage |-> "logout"]
           \/ new = Over([stage |-> "prolong", copy |-> c], [response |-> Over(g, y.response)])
           \/ new = Over([stage |-> "handler"], [response |-> Over(g, y.response)])
  BY <1>1 DEF GenTokens, Step, Headers, NewAccess
<1>7. PICK r : r = Over(g, y.response)
  OBVIOUS
<1>8. ResponseOK(r)
  <2>1. g = h \/ DOMAIN g = {}
    BY <1>6
  <2>. QED
    BY <1>2, <1>5, <1>7, <2>1, HeadersSet DEF RequestOK, ResponseFields
<1>9. \/ DOMAIN new = {"stage"} /\ new.stage = "logout"
      \/ /\ DOMAIN new = {"stage", "copy", "response"} /\ new.stage = "prolong" /\ new.copy = c /\ new.response = r
      \/ DOMAIN new = {"stage", "response"} /\ new.stage = "handler" /\ new.response = r
  <2>1. CASE new = [stage |-> "logout"]
    BY <2>1
  <2>2. CASE new = Over([stage |-> "prolong", copy |-> c], [response |-> r])
    BY <2>2, OverCopy
  <2>3. CASE new = Over([stage |-> "handler"], [response |-> r])
    BY <2>3, OverStage
  <2>. QED
    BY <1>6, <1>7, <2>1, <2>2, <2>3
<1>10. PICK x : x = Over(new, y)
  OBVIOUS
<1>11. DOMAIN x = Fields /\ \A f \in Fields : x[f] = IF f \in DOMAIN new THEN new[f] ELSE y[f]
  BY <1>2, <1>9, <1>10, Stepped DEF RequestOK, Fields
<1>12. /\ x.response \in {y.response, r} /\ x.copy \in {y.copy, c} /\ x.request = y.request
       /\ x.session = y.session /\ x.dead = y.dead /\ x.client = y.client
       /\ x.stage \in {"logout", "prolong", "handler"}
  BY <1>9, <1>11 DEF Fields
<1>13. RequestOK(x)
  BY <1>2, <1>3, <1>4, <1>8, <1>11, <1>12 DEF RequestOK, SchemaOK, ClientOK, Inside, Identified
<1>. QED
  BY <1>1, <1>2, <1>4, <1>6, <1>10, <1>12, <1>13, StillStep

-----------------------------------------------------------------------------
(* Steps that write to the tables.                                         *)

LEMMA AppendRow ==
    ASSUME NEW row \in Row, NEW s \in Seq(Row)
    PROVE  /\ Append(s, row) \in Seq(Row) /\ Len(Append(s, row)) = Len(s) + 1
           /\ DOMAIN Append(s, row) = 1 .. Len(s) + 1
           /\ \A i \in 1 .. Len(s) : Append(s, row)[i] = s[i]
BY AppendProperties, LenProperties

(* A new session is held by nobody else.                                   *)
LEMMA CreateSessionInv ==
    ASSUME IInv, NEW q \in Requesters, CreateSession(q), UNCHANGED <<tok, stack, ret>>
    PROVE  IInv'
<1>1. PICK y, h, r, n, row :
        /\ y = srv[q] /\ h = NewCsrf /\ r = Over(h, y.response) /\ n = Len(sessions) + 1
        /\ row = [valid |-> TRUE, exp |-> SetTTL(RefreshTtl, clock)]
  OBVIOUS
<1>2. PICK now : now = clock
  OBVIOUS
<1>3. PICK new, x :
        /\ new = Over([stage |-> "client", now |-> now, session |-> n, copy |-> row], [response |-> r])
        /\ x = Over(new, y)
  OBVIOUS
<1>4. /\ RequestOK(y) /\ srv' = [srv EXCEPT ![q] = x] /\ sessions' = Append(sessions, row)
      /\ UNCHANGED <<clock, clients, ended, overlapped>>
  BY <1>1, <1>2, <1>3 DEF IInv, RequestInv, CreateSession, Step, Headers
<1>5. Schema(Endpoints, y.request.path) = "login_phash_token"
  BY <1>1 DEF CreateSession, IsLogin, SchemaOf, Path
<1>6. row \in Row /\ sessions \in Seq(Row) /\ Len(sessions) \in Nat /\ DOMAIN sessions = 1 .. Len(sessions)
  BY <1>1, TtlAssumption, LenProperties DEF Row, SetTTL, IInv, TableInv
<1>7. /\ sessions' \in Seq(Row) /\ Len(sessions') = n /\ DOMAIN sessions' = 1 .. n
      /\ \A i \in DOMAIN sessions : sessions'[i] = sessions[i]
  BY <1>1, <1>4, <1>6, AppendRow
<1>8. Grows
  BY <1>1, <1>4, <1>6, <1>7 DEF Grows
<1>9. TableInv'
  BY <1>1, <1>4, <1>6, <1>7 DEF IInv, TableInv
<1>10. /\ DOMAIN new = {"stage", "now", "session", "copy", "response"}
       /\ new.stage = "client" /\ new.session = n /\ new.copy = row /\ new.response = r
  BY <1>3, OverSession
<1>11. DOMAIN x = Fields /\ \A f \in Fields : x[f] = IF f \in DOMAIN new THEN new[f] ELSE y[f]
  BY <1>3, <1>4, <1>10, Stepped DEF RequestOK, Fields
<1>12. x.stage = "client" /\ x.session = n /\ x.copy = row /\ x.response = r /\ x.request = y.request
  BY <1>10, <1>11 DEF Fields
<1>13. ResponseOK(r)' /\ Known(y.request.access)' /\ Known(y.request.refresh)'
  <2>1. ResponseOK(r)
    BY <1>1, <1>4, CsrfSet
  <2>. QED
    BY <1>4, <1>8, <2>1, ResponseKept, KnownKept DEF RequestOK
<1>14. "login_phash_token" # DefaultSchema
  BY DEF DefaultSchema
<1>15. RequestOK(x)'
  BY <1>1, <1>5, <1>6, <1>7, <1>11, <1>12, <1>13, <1>14 DEF RequestOK, SchemaOK, ClientOK, Inside, Identified
<1>16. \A r1 \in Requesters : srv[r1].session # n
  BY <1>1, <1>6 DEF IInv, RequestInv, RequestOK
<1>17. RequestInv'
  BY <1>4, <1>8, <1>12, <1>15, <1>16, RequestMoves DEF IInv
<1>. QED
  BY <1>8, <1>9, <1>17, ClientKept DEF IInv

(* A session that is found is valid, hence it has not ended.               *)
LEMMA FindSessionInv ==
    ASSUME IInv, NEW q \in Requesters, FindSession(q), UNCHANGED <<tok, stack, ret>>
    PROVE  IInv'
<1>1. PICK y, h, r, n, row :
        /\ y = srv[q] /\ h = NewCsrf /\ r = Over(h, y.response) /\ n = TokenOf(y.request).session
        /\ row = sessions[n]
  OBVIOUS
<1>2. PICK now : now = clock
  OBVIOUS
<1>3. PICK new, x :
        /\ new = Over([stage |-> "client", now |-> now, session |-> n, copy |-> row], [response |-> r])
        /\ x = Over(new, y)
  OBVIOUS
<1>4. /\ RequestOK(y) /\ srv' = [srv EXCEPT ![q] = x] /\ y.stage = "arrive"
      /\ UNCHANGED <<clock, clients, ended, sessions>>
      /\ overlapped' = IF Holders(n) = {} THEN overlapped ELSE overlapped \union {n}
      /\ CheckToken(q) = "ok" /\ Schema(Endpoints, y.request.path) = DefaultSchema
  BY <1>1, <1>2, <1>3 DEF IInv, RequestInv, FindSession, Step, Headers, PassesCsrf, At, SchemaOf, Path
<1>5. TokenVerdict(y.request, now) = "ok" /\ SessionVerdict(row, user, now) = "ok"
  BY <1>1, <1>2, <1>4 DEF CheckToken
<1>6. n \in DOMAIN sessions
  <2>1. TokenOf(y.request).type \in {"access", "refresh"}
    BY <1>5 DEF TokenVerdict, TokenName
  <2>2. Known(TokenOf(y.request))
    BY <1>4 DEF RequestOK, TokenOf
  <2>. QED
    BY <1>1, <2>1, <2>2 DEF Known
<1>7. row.valid
  BY <1>5 DEF SessionVerdict
<1>8. n \notin ended
  BY <1>1, <1>7 DEF IInv, TableInv
<1>9. ~y.dead
  BY <1>1, <1>4, <1>8 DEF RequestOK
<1>10. sessions \in Seq(Row) /\ Len(sessions) \in Nat /\ DOMAIN sessions = 1 .. Len(sessions) /\ row \in Row
  BY <1>1, <1>6, LenProperties DEF IInv, TableInv
<1>11. Grows /\ TableInv'
  BY <1>4, <1>10, StillTable DEF Grows, IInv
<1>12. /\ DOMAIN new = {"stage", "now", "session", "copy", "response"}
       /\ new.stage = "client" /\ new.session = n /\ new.copy = row /\ new.response = r
  BY <1>3, OverSession
<1>13. DOMAIN x = Fields /\ \A f \in Fields : x[f] = IF f \in DOMAIN new THEN new[f] ELSE y[f]
  BY <1>3, <1>4, <1>12, Stepped DEF RequestOK, Fields
<1>14. /\ x.stage = "client" /\ x.session = n /\ x.copy = row /\ x.response = r /\ x.request = y.request
       /\ x.dead = y.dead
  BY <1>12, <1>13 DEF Fields
<1>15. ResponseOK(r)
  BY <1>1, <1>4, CsrfSet
<1>16. RequestOK(x)
  BY <1>4, <1>6, <1>9, <1>10, <1>13, <1>14, <1>15 DEF RequestOK, SchemaOK, ClientOK, Inside, Identified
<1>17. RequestOK(x)'
  BY <1>4, <1>11, <1>14, <1>16, RequestKept
<1>18. ASSUME NEW o \in Requesters \ {q}, Inside(srv[o]), srv[o].session = n
       PROVE  n \in overlapped'
  BY <1>4, <1>18 DEF Holders, Inside
<1>19. RequestInv'
  BY <1>4, <1>11, <1>14, <1>17, <1>18, RequestMoves DEF IInv
<1>. QED
  BY <1>11, <1>19, ClientKept DEF IInv

LEMMA CreateClientInv ==
    ASSUME IInv, NEW q \in Requesters, CreateClient(q), UNCHANGED <<tok, stack, ret>>
    PROVE  IInv'
<1>1. PICK y : y = srv[q]
  OBVIOUS
<1>2. PICK new, x :
        /\ new = [stage |-> "tokens", client |-> IF y.session \in clients THEN "lost" ELSE "stored"]
        /\ x = Over(new, y)
  OBVIOUS
<1>3. /\ RequestOK(y) /\ srv' = [srv EXCEPT ![q] = x] /\ y.stage = "create"
      /\ clients' = clients \union {y.session} /\ UNCHANGED <<clock, sessions, ended, overlapped>>
  BY <1>1, <1>2 DEF IInv, RequestInv, CreateClient, Step, At
<1>4. /\ DOMAIN new = {"stage", "client"} /\ new.stage = "tokens"
      /\ new.client = IF y.session \in clients THEN "lost" ELSE "stored"
  BY <1>2
<1>5. DOMAIN x = Fields /\ \A f \in Fields : x[f] = IF f \in DOMAIN new THEN new[f] ELSE y[f]
  BY <1>2, <1>3, <1>4, Stepped DEF RequestOK, Fields
<1>6. /\ x.response = y.response /\ x.copy = y.copy /\ x.request = y.request
      /\ x.session = y.session /\ x.dead = y.dead /\ x.stage = "tokens" /\ x.client = new.client
  BY <1>4, <1>5 DEF Fields
<1>7. Inside(y) /\ y.session # 0
  BY <1>3 DEF RequestOK, SchemaOK, Inside
<1>8. Grows /\ TableInv'
  BY <1>3, StillGrows, StillTable DEF IInv
<1>9. ClientOK(x)'
  BY <1>3, <1>4, <1>6 DEF RequestOK, ClientOK
<1>10. RequestOK(x)'
  <2>1. ResponseOK(x.response)' /\ Known(x.request.access)' /\ Known(x.request.refresh)'
    BY <1>3, <1>6, <1>8, ResponseKept, KnownKept DEF RequestOK
  <2>2. x.session \in 0 .. Len(sessions')
    BY <1>3, <1>6 DEF RequestOK
  <2>3. SchemaOK(x)'
    BY <1>3, <1>6, <1>7 DEF RequestOK, SchemaOK, Inside
  <2>. QED
    BY <1>3, <1>5, <1>6, <1>9, <2>1, <2>2, <2>3 DEF RequestOK
<1>11. RequestInv'
  BY <1>1, <1>3, <1>6, <1>7, <1>8, <1>10, RequestMoves DEF IInv
<1>. QED
  BY <1>8, <1>11, ClientKept DEF IInv

(* The column that is written is not the one that says whether the session *)
(* is valid.                                                               *)
LEMMA UpdateSessionExpirationInv ==
    ASSUME IInv, NEW q \in Requesters, UpdateSessionExpiration(q), UNCHANGED <<tok, stack, ret>>
    PROVE  IInv'
<1>1. PICK y, a, b :
        /\ y = srv[q]
        /\ a = [access |-> GenToken("access", AccessTtl, y.session, y.request.tenancy, clock)]
        /\ b = [refresh |-> GenToken("refresh", RefreshTtl, y.session, y.request.tenancy, clock)]
  OBVIOUS
<1>2. PICK g, h, r, new, x :
        /\ g \in {a, <<>>} /\ h = Over(b, g) /\ r = Over(h, y.response)
        /\ new = Over([stage |-> "handler"], [response |-> r]) /\ x = Over(new, y)
        /\ srv' = [srv EXCEPT ![q] = x]
  BY <1>1 DEF UpdateSessionExpiration, Step, Headers, NewAccess, NewRefresh
<1>3. /\ RequestOK(y) /\ y.stage = "prolong" /\ UNCHANGED <<clock, clients, ended, overlapped>>
      /\ sessions' = [sessions EXCEPT ![y.session].exp = y.copy.exp]
  BY <1>1 DEF IInv, RequestInv, UpdateSessionExpiration, At
<1>4. /\ Inside(y) /\ y.session # 0 /\ y.session \in DOMAIN sessions
      /\ sessions \in Seq(Row) /\ Len(sessions) \in Nat /\ DOMAIN sessions = 1 .. Len(sessions)
  <2>1. Inside(y) /\ y.session # 0
    BY <1>3 DEF RequestOK, SchemaOK, Inside
  <2>. QED
    BY <1>3, <2>1, LenProperties DEF RequestOK, IInv, TableInv
<1>5. /\ sessions' \in Seq(Row) /\ Len(sessions') = Len(sessions) /\ DOMAIN sessions' = DOMAIN sessions
      /\ \A s \in DOMAIN sessions : sessions'[s].valid = sessions[s].valid
  <2>1. PICK row : row = [sessions[y.session] EXCEPT !.exp = y.copy.exp]
    OBVIOUS
  <2>2. sessions[y.session] \in Row /\ y.copy \in Row
    BY <1>3, <1>4 DEF RequestOK
  <2>3. row \in Row /\ row.valid = sessions[y.session].valid
    BY <2>1, <2>2 DEF Row
  <2>4. sessions' = [sessions EXCEPT ![y.session] = row]
    BY <1>3, <2>1
  <2>5. sessions' \in Seq(Row) /\ Len(sessions') = Len(sessions) /\ DOMAIN sessions' = DOMAIN sessions
    BY <1>4, <2>3, <2>4, ExceptSeq
  <2>. QED
    BY <1>4, <2>3, <2>4, <2>5
<1>6. Grows /\ TableInv'
  BY <1>3, <1>4, <1>5 DEF Grows, IInv, TableInv
<1>7. ResponseOK(r)
  <2>1. DOMAIN a = {"access"} /\ DOMAIN b = {"refresh"} /\ Known(a.access) /\ Known(b.refresh)
    BY <1>1, <1>4 DEF GenToken, Known
  <2>2. DOMAIN g \subseteq {"access"} /\ ("access" \in DOMAIN g => Known(g.access))
    BY <1>2, <2>1
  <2>3. DOMAIN h = DOMAIN b \union DOMAIN g
    BY <1>2, OverDomain
  <2>4. "refresh" \in DOMAIN h => h.refresh = b.refresh
    BY <1>2, <2>1, OverNew
  <2>5. "access" \in DOMAIN h => "access" \in DOMAIN g /\ h.access = g.access
    <3>1. "access" \in DOMAIN h => "access" \in DOMAIN g \ DOMAIN b
      BY <2>1, <2>3
    <3>. QED
      BY <1>2, <3>1, OverOld
  <2>. QED
    BY <1>2, <1>3, <2>1, <2>2, <2>3, <2>4, <2>5, HeadersSet DEF RequestOK, ResponseFields
<1>8. DOMAIN new = {"stage", "response"} /\ new.stage = "handler" /\ new.response = r
  BY <1>2, OverStage
<1>9. DOMAIN x = Fields /\ \A f \in Fields : x[f] = IF f \in DOMAIN new THEN new[f] ELSE y[f]
  BY <1>2, <1>3, <1>8, Stepped DEF RequestOK, Fields
<1>10. /\ x.response = r /\ x.copy = y.copy /\ x.request = y.request
       /\ x.session = y.session /\ x.dead = y.dead /\ x.stage = "handler" /\ x.client = y.client
  BY <1>8, <1>9 DEF Fields
<1>11. RequestOK(x)
  BY <1>3, <1>4, <1>7, <1>9, <1>10 DEF RequestOK, SchemaOK, ClientOK, Inside, Identified
<1>12. RequestOK(x)'
  BY <1>3, <1>6, <1>10, <1>11, RequestKept
<1>13. RequestInv'
  BY <1>1, <1>2, <1>3, <1>4, <1>6, <1>10, <1>12, RequestMoves DEF IInv
<1>. QED
  BY <1>6, <1>13, ClientKept DEF IInv

LEMMA InvalidateSessionInv ==
    ASSUME IInv, NEW q \in Requesters, InvalidateSession(q), UNCHANGED <<tok, stack, ret>>
    PROVE  IInv'
<1>1. PICK y, new, x : y = srv[q] /\ new = [stage |-> "handler"] /\ x = Over(new, y)
  OBVIOUS
<1>2. /\ RequestOK(y) /\ y.stage = "logout" /\ srv' = [srv EXCEPT ![q] = x]
      /\ UNCHANGED <<clock, clients, overlapped>> /\ ended' = ended \union {y.session}
      /\ sessions' = [sessions EXCEPT ![y.session].valid = FALSE]
  BY <1>1 DEF IInv, RequestInv, InvalidateSession, At, Step
<1>3. /\ Inside(y) /\ y.session # 0 /\ y.session \in DOMAIN sessions
      /\ sessions \in Seq(Row) /\ Len(sessions) \in Nat /\ DOMAIN sessions = 1 .. Len(sessions)
  <2>1. Inside(y) /\ y.session # 0
    BY <1>2 DEF RequestOK, SchemaOK, Inside
  <2>. QED
    BY <1>2, <2>1, LenProperties DEF RequestOK, IInv, TableInv
<1>4. /\ sessions' \in Seq(Row) /\ Len(sessions') = Len(sessions) /\ DOMAIN sessions' = DOMAIN sessions
      /\ ~sessions'[y.session].valid
      /\ \A s \in DOMAIN sessions \ {y.session} : sessions'[s] = sessions[s]
  <2>1. PICK row : row = [sessions[y.session] EXCEPT !.valid = FALSE]
    OBVIOUS
  <2>2. sessions[y.session] \in Row
    BY <1>3
  <2>3. row \in Row /\ ~row.valid
    BY <2>1, <2>2 DEF Row
  <2>4. sessions' = [sessions EXCEPT ![y.session] = row]
    BY <1>2, <2>1
  <2>5. sessions' \in Seq(Row) /\ Len(sessions') = Len(sessions) /\ DOMAIN sessions' = DOMAIN sessions
    BY <1>3, <2>3, <2>4, ExceptSeq
  <2>. QED
    BY <1>3, <2>3, <2>4, <2>5
<1>5. Grows /\ TableInv'
  BY <1>2, <1>3, <1>4 DEF Grows, IInv, TableInv
<1>6. DOMAIN x = Fields /\ \A f \in Fields : x[f] = IF f \in {"stage"} THEN new[f] ELSE y[f]
  <2>1. DOMAIN new = {"stage"} /\ x = Over(new, y)
    BY <1>1
  <2>. QED
    BY <1>2, <2>1, Stepped DEF RequestOK, Fields
<1>7. /\ x.response = y.response /\ x.copy = y.copy /\ x.request = y.request
      /\ x.session = y.session /\ x.dead = y.dead /\ x.stage = "handler" /\ x.client = y.client
  BY <1>1, <1>6 DEF Fields
<1>8. RequestOK(x)
  BY <1>2, <1>3, <1>6, <1>7 DEF RequestOK, SchemaOK, ClientOK, Inside, Identified
<1>9. RequestOK(x)'
  BY <1>2, <1>5, <1>7, <1>8, RequestKept
<1>10. RequestInv'
  BY <1>1, <1>2, <1>3, <1>5, <1>7, <1>9, RequestMoves DEF IInv
<1>. QED
  BY <1>5, <1>10, ClientKept DEF IInv

LEMMA ServerStepInv ==
    ASSUME IInv, NEW q \in Requesters, ServerStep(q), UNCHANGED <<tok, stack, ret>>
    PROVE  IInv'
BY ReplyingInv, ServeNoAuthInv, CreateSessionInv, FindSessionInv, FindClientInv, CreateClientInv, GenTokensInv,
   UpdateSessionExpirationInv, InvalidateSessionInv DEF ServerStep

-----------------------------------------------------------------------------
(* What the client builds: headers, frames and requests.                   *)

LEMMA NothingKnown ==
    /\ Known(NoToken) /\ ResponseOK(NoResponse) /\ HeadersOK(NoHeaders) /\ ResponseOK(Nothing.resp)
    /\ \A login, phash : HeadersOK([NoHeaders EXCEPT !.login = login, !.phash = phash])
<1>1. Known(NoToken)
  BY DEF Known, NoToken
<1>2. ResponseOK(NoResponse)
  BY <1>1 DEF ResponseOK, NoResponse, ResponseFields
<1>3. HeadersOK(NoHeaders)
  BY <1>1 DEF HeadersOK, NoHeaders, HeaderFields
<1>4. ResponseOK(Nothing.resp)
  BY <1>2 DEF Nothing
<1>5. ASSUME NEW login, NEW phash
      PROVE  HeadersOK([NoHeaders EXCEPT !.login = login, !.phash = phash])
  BY <1>3 DEF HeadersOK, HeaderFields
<1>. QED
  BY <1>1, <1>2, <1>3, <1>4, <1>5

LEMMA AddTokensOK ==
    ASSUME NEW tokens, Known(tokens.access), NEW h, HeadersOK(h)
    PROVE  HeadersOK(AddTokens(tokens, h))
BY DEF HeadersOK, HeaderFields, AddTokens

LEMMA NewFrame ==
    ASSUME NEW tokens, Known(tokens.access), NEW h, HeadersOK(h), NEW path, NEW tenancy, NEW query
    PROVE  FrameOK(Frame(tokens, path, tenancy, query, h))
BY AddTokensOK DEF FrameOK, Frame

LEMMA RequestTokens ==
    ASSUME NEW tokens, Known(tokens.access), NEW frame, FrameOK(frame), NEW request, request = RequestOf(tokens, frame)
    PROVE  Known(request.access) /\ Known(request.refresh)
<1>1. PICK h : h = IF frame.query THEN frame.headers ELSE AddTokens(tokens, frame.headers)
  OBVIOUS
<1>2. HeadersOK(h)
  BY <1>1, AddTokensOK DEF FrameOK
<1>3. PICK to : to = [path |-> frame.path, tenancy |-> frame.tenancy]
  OBVIOUS
<1>4. request = Over(to, h) /\ DOMAIN to = {"path", "tenancy"}
  BY <1>1, <1>3 DEF RequestOf
<1>5. {"access", "refresh"} \subseteq DOMAIN h \ DOMAIN to
  BY <1>2, <1>4 DEF HeadersOK, HeaderFields
<1>6. request.access = h.access /\ request.refresh = h.refresh
  BY <1>4, <1>5, OverOld
<1>. QED
  BY <1>2, <1>6 DEF HeadersOK

LEMMA IdleOK ==
    ASSUME IInv
    PROVE  RequestOK(Idle) /\ ~Inside(Idle)
<1>1. DOMAIN Idle = Fields /\ Idle.stage = "none" /\ Idle.session = 0 /\ Idle.response = NoResponse
  BY DEF Idle, Fields
<1>2. Idle.copy \in Row
  BY DEF Idle, Row
<1>3. Known(Idle.request.access) /\ Known(Idle.request.refresh)
  BY NothingKnown DEF Idle, NoRequest
<1>4. 0 \in 0 .. Len(sessions)
  BY LenProperties DEF IInv, TableInv
<1>. QED
  BY <1>1, <1>2, <1>3, <1>4, NothingKnown DEF RequestOK, SchemaOK, ClientOK, Inside, Identified

(* The request that is sent, or that was answered, replaces the one before. *)
LEMMA ReplaceRequest ==
    ASSUME IInv, Still, NEW q \in Requesters, NEW x, srv' = [srv EXCEPT ![q] = x], RequestOK(x), ~Inside(x)
    PROVE  RequestInv'
<1>1. Grows
  BY StillGrows DEF IInv, Still
<1>2. RequestOK(x)'
  BY <1>1, RequestKept DEF RequestOK, ClientOK, Still
<1>. QED
  BY <1>1, <1>2, RequestMoves DEF IInv, Still

LEMMA ConsumeInv ==
    ASSUME IInv, Still, NEW q \in Requesters, Consume(q)
    PROVE  RequestInv'
<1>1. PICK x : x = Idle
  OBVIOUS
<1>. QED
  BY <1>1, IdleOK, ReplaceRequest DEF Consume

LEMMA SendInv ==
    ASSUME IInv, Still, NEW q \in Requesters, NEW tokens, Known(tokens.access), NEW frame, FrameOK(frame),
           Send(q, tokens, frame)
    PROVE  RequestInv'
<1>1. PICK request : request = RequestOf(tokens, frame)
  OBVIOUS
<1>2. PICK dead : dead = TokenIsDead(request)
  OBVIOUS
<1>3. PICK x : x = [Idle EXCEPT !.stage = "arrive", !.request = request, !.dead = dead]
  OBVIOUS
<1>4. srv' = [srv EXCEPT ![q] = x]
  BY <1>1, <1>2, <1>3 DEF Send
<1>5. Known(request.access) /\ Known(request.refresh)
  BY <1>1, RequestTokens
<1>6. /\ DOMAIN x = Fields /\ x.stage = "arrive" /\ x.request = request /\ x.dead = dead
      /\ x.session = Idle.session /\ x.copy = Idle.copy /\ x.response = Idle.response
  <2>1. DOMAIN Idle = Fields
    BY DEF Idle, Fields
  <2>. QED
    BY <1>3, <2>1 DEF Fields
<1>7. Idle.session = 0
  BY DEF Idle
<1>8. dead => TokenOf(request).session \in ended
  BY <1>2 DEF TokenIsDead
<1>9. RequestOK(x) /\ ~Inside(x)
  BY <1>5, <1>6, <1>7, <1>8, IdleOK DEF RequestOK, SchemaOK, ClientOK, Inside, Identified
<1>. QED
  BY <1>4, <1>9, ReplaceRequest

-----------------------------------------------------------------------------
(* What a step of the client leaves of its own state.                      *)

LEMMA StackReplaced ==
    ASSUME NEW s, StackOK(s), s # <<>>, NEW g, FrameOK(g)
    PROVE  StackOK([s EXCEPT ![Len(s)] = g])
<1>1. PICK S : s \in Seq(S) /\ \A f \in S : FrameOK(f)
  BY DEF StackOK
<1>2. [s EXCEPT ![Len(s)] = g] \in Seq(S \union {g})
  BY <1>1
<1>. QED
  BY <1>1, <1>2 DEF StackOK

LEMMA StackPushed ==
    ASSUME NEW s, StackOK(s), NEW g, FrameOK(g)
    PROVE  StackOK(Append(s, g))
<1>1. PICK S : s \in Seq(S) /\ \A f \in S : FrameOK(f)
  BY DEF StackOK
<1>2. Append(s, g) \in Seq(S \union {g})
  BY <1>1
<1>. QED
  BY <1>1, <1>2 DEF StackOK

LEMMA StackPopped ==
    ASSUME NEW s, StackOK(s), s # <<>>
    PROVE  StackOK(SubSeq(s, 1, Len(s) - 1))
<1>1. PICK S : s \in Seq(S) /\ \A f \in S : FrameOK(f)
  BY DEF StackOK
<1>2. SubSeq(s, 1, Len(s) - 1) \in Seq(S)
  BY <1>1
<1>. QED
  BY <1>1, <1>2 DEF StackOK

LEMMA StackTop ==
    ASSUME NEW s, StackOK(s), s # <<>>
    PROVE  FrameOK(s[Len(s)])
<1>1. PICK S : s \in Seq(S) /\ \A f \in S : FrameOK(f)
  BY DEF StackOK
<1>2. s[Len(s)] \in S
  BY <1>1
<1>. QED
  BY <1>1, <1>2

LEMMA StackFirst ==
    ASSUME NEW g, FrameOK(g)
    PROVE  StackOK(<<g>>)
<1>1. PICK s, S : s = <<g>> /\ S = {g}
  OBVIOUS
<1>2. s \in Seq(S) /\ \A f \in S : FrameOK(f)
  BY <1>1
<1>3. StackOK(s)
  BY <1>2 DEF StackOK
<1>. QED
  BY <1>1, <1>3

LEMMA FrameMoved ==
    ASSUME NEW f, FrameOK(f)
    PROVE  \A at : FrameOK([f EXCEPT !.at = at])
BY DEF FrameOK

(* One goroutine's stack changes, and the tokens or its result.            *)
LEMMA ClientMoves ==
    ASSUME IInv, Still, NEW q \in Requesters, NEW s, StackOK(s), stack' = [stack EXCEPT ![q] = s],
           NEW t, tok' = t, DOMAIN t = {"access", "refresh", "csrf"}, Known(t.access), Known(t.refresh),
           NEW r, ResponseOK(r.resp), ret' = ret \/ ret' = [ret EXCEPT ![q] = r]
    PROVE  ClientInv'
<1>1. Grows
  BY StillGrows DEF IInv, Still
<1>2. Known(t.access)' /\ Known(t.refresh)' /\ StackOK(s)' /\ ResponseOK(r.resp)'
  BY <1>1, KnownKept, StackKept, ResponseKept
<1>3. ASSUME NEW o \in Requesters
      PROVE  StackOK(stack[o])' /\ ResponseOK(ret[o].resp)'
  <2>1. PICK s1, r1 : s1 = stack[o] /\ r1 = ret[o].resp
    OBVIOUS
  <2>2. StackOK(s1)' /\ ResponseOK(r1)'
    BY <1>1, <2>1, StackKept, ResponseKept DEF IInv, ClientInv
  <2>3. stack'[o] \in {s, s1} /\ ret'[o].resp \in {r.resp, r1}
    BY <2>1 DEF IInv, ClientInv
  <2>. QED
    BY <1>2, <2>2, <2>3
<1>. QED
  BY <1>2, <1>3 DEF IInv, ClientInv

-----------------------------------------------------------------------------
(* The steps of checkResponse are made of these.                           *)

LEMMA ReturnInv ==
    ASSUME IInv, Still, NEW q \in Requesters, Active(q), NEW resp, ResponseOK(resp), NEW err, Return(q, resp, err)
    PROVE  IInv'
<1>1. PICK s, t : s = SubSeq(stack[q], 1, Len(stack[q]) - 1) /\ t = tok'
  OBVIOUS
<1>2. StackOK(s) /\ stack' = [stack EXCEPT ![q] = s]
  BY <1>1, StackPopped DEF IInv, ClientInv, Active, Return
<1>3. DOMAIN t = {"access", "refresh", "csrf"} /\ Known(t.access) /\ Known(t.refresh)
  <2>1. CASE t = tok
    BY <2>1 DEF IInv, ClientInv
  <2>2. CASE t = UpdateTokens(resp)
    BY <2>2 DEF IInv, ClientInv, UpdateTokens, ResponseOK
  <2>. QED
    BY <1>1, <2>1, <2>2 DEF Return
<1>4. PICK r : ResponseOK(r.resp) /\ ret' = [ret EXCEPT ![q] = r]
  <2>1. CASE ret' = [ret EXCEPT ![q] = Result(resp, err)]
    BY <2>1 DEF Result
  <2>2. CASE ret' = [ret EXCEPT ![q] = Nothing]
    BY <2>2, NothingKnown
  <2>. QED
    BY <2>1, <2>2 DEF Return
<1>5. ClientInv'
  BY <1>1, <1>2, <1>3, <1>4, ClientMoves
<1>6. RequestInv'
  BY ConsumeInv DEF Return
<1>7. TableInv'
  BY StillTable DEF IInv, Still
<1>. QED
  BY <1>5, <1>6, <1>7 DEF IInv

LEMMA PushInv ==
    ASSUME IInv, Still, NEW q \in Requesters, Active(q), NEW at, NEW tokens, NEW frame, FrameOK(frame),
           Push(q, at, tokens, frame), tok' = tokens,
           DOMAIN tokens = {"access", "refresh", "csrf"}, Known(tokens.access), Known(tokens.refresh),
           ret' = ret \/ ret' = [ret EXCEPT ![q] = Nothing]
    PROVE  IInv'
<1>1. PICK g : g = [stack[q][Len(stack[q])] EXCEPT !.at = at]
  OBVIOUS
<1>2. PICK u : u = [stack[q] EXCEPT ![Len(stack[q])] = g]
  OBVIOUS
<1>3. PICK s : s = Append(u, frame)
  OBVIOUS
<1>4. stack' = [stack EXCEPT ![q] = s]
  BY <1>1, <1>2, <1>3 DEF Push
<1>5. StackOK(s)
  <2>1. PICK z : z = stack[q] /\ StackOK(z) /\ z # <<>>
    BY DEF IInv, ClientInv, Active
  <2>2. FrameOK(g)
    BY <1>1, <2>1, StackTop, FrameMoved
  <2>3. StackOK(u)
    BY <1>2, <2>1, <2>2, StackReplaced
  <2>. QED
    BY <1>3, <2>3, StackPushed
<1>6. PICK r : ResponseOK(r.resp) /\ (ret' = ret \/ ret' = [ret EXCEPT ![q] = r])
  BY NothingKnown
<1>7. ClientInv'
  BY <1>4, <1>5, <1>6, ClientMoves
<1>8. RequestInv'
  BY SendInv DEF Push
<1>9. TableInv'
  BY StillTable DEF IInv, Still
<1>. QED
  BY <1>7, <1>8, <1>9 DEF IInv

LEMMA ResendInv ==
    ASSUME IInv, Still, NEW q \in Requesters, Active(q), NEW limit, Resend(q, limit)
    PROVE  IInv'
<1>1. PICK z : z = stack[q] /\ StackOK(z) /\ z # <<>>
  BY DEF IInv, ClientInv, Active
<1>2. PICK f : f = z[Len(z)]
  OBVIOUS
<1>3. PICK g : g = Resent(f, limit)
  OBVIOUS
<1>4. PICK s : s = [z EXCEPT ![Len(z)] = g]
  OBVIOUS
<1>5. stack' = [stack EXCEPT ![q] = s]
  BY <1>1, <1>2, <1>3, <1>4 DEF Resend
<1>6. FrameOK(f)
  BY <1>1, <1>2, StackTop
<1>7. StackOK(s)
  <2>1. FrameOK(g)
    BY <1>3, <1>6 DEF Resent, FrameOK
  <2>. QED
    BY <1>1, <1>4, <2>1, StackReplaced
<1>8. PICK t, r : t = tok /\ r = Nothing
  OBVIOUS
<1>9. /\ tok' = t /\ ret' = [ret EXCEPT ![q] = r] /\ ResponseOK(r.resp)
      /\ DOMAIN t = {"access", "refresh", "csrf"} /\ Known(t.access) /\ Known(t.refresh)
  BY <1>8, NothingKnown DEF Resend, IInv, ClientInv
<1>10. ClientInv'
  BY <1>5, <1>7, <1>9, ClientMoves
<1>11. Send(q, t, f)
  BY <1>1, <1>2, <1>8 DEF Resend, Top
<1>12. RequestInv'
  BY <1>6, <1>9, <1>11, SendInv
<1>13. TableInv'
  BY StillTable DEF IInv, Still
<1>. QED
  BY <1>10, <1>12, <1>13 DEF IInv

LEMMA DecideInv ==
    ASSUME IInv, NEW q \in Requesters, Active(q), NEW what, Decide(q, what)
    PROVE  IInv'
<1>1. PICK z : z = stack[q] /\ StackOK(z) /\ z # <<>>
  BY DEF IInv, ClientInv, Active
<1>2. PICK g : g = [z[Len(z)] EXCEPT !.at = what]
  OBVIOUS
<1>3. PICK s : s = [z EXCEPT ![Len(z)] = g]
  OBVIOUS
<1>4. stack' = [stack EXCEPT ![q] = s]
  BY <1>1, <1>2, <1>3 DEF Decide
<1>5. StackOK(s)
  BY <1>1, <1>2, <1>3, StackTop, FrameMoved, StackReplaced
<1>6. PICK t, r : t = tok /\ r = Nothing
  OBVIOUS
<1>7. /\ tok' = t /\ ret' = ret /\ ResponseOK(r.resp)
      /\ DOMAIN t = {"access", "refresh", "csrf"} /\ Known(t.access) /\ Known(t.refresh)
  BY <1>6, NothingKnown DEF Decide, IInv, ClientInv
<1>8. Still
  BY DEF Decide, untouched, Still
<1>9. ClientInv'
  BY <1>4, <1>5, <1>7, <1>8, ClientMoves
<1>10. RequestInv' /\ TableInv'
  BY <1>8, ConsumeInv, StillTable DEF Decide, IInv, Still
<1>. QED
  BY <1>9, <1>10 DEF IInv

LEMMA FailInv ==
    ASSUME IInv, Still, NEW q \in Requesters, Active(q), Fail(q)
    PROVE  IInv'
<1>1. PICK resp : resp = ret[q].resp
  OBVIOUS
<1>. QED
  BY <1>1, ReturnInv DEF Fail, IInv, ClientInv

-----------------------------------------------------------------------------
(* The steps of the client.                                                *)

LEMMA CallInv ==
    ASSUME IInv, NEW q \in Requesters, Call(q)
    PROVE  IInv'
<1>1. PICK op : op \in Ops(q, calls)
         /\ LET frame == Frame(tok, PathOf(op), IF op = "foreign" THEN "foreign" ELSE HomeTenancy, op = "read", NoHeaders)
            IN stack' = [stack EXCEPT ![q] = <<frame>>] /\ Send(q, tok, frame)
  BY DEF Call
<1>2. PICK t, h, r : t = tok /\ h = NoHeaders /\ r = Nothing
  OBVIOUS
<1>3. PICK path, tenancy, query :
        path = PathOf(op) /\ tenancy = (IF op = "foreign" THEN "foreign" ELSE HomeTenancy) /\ query = (op = "read")
  OBVIOUS
<1>4. PICK f : f = Frame(t, path, tenancy, query, h)
  OBVIOUS
<1>5. stack' = [stack EXCEPT ![q] = <<f>>] /\ Send(q, t, f)
  BY <1>1, <1>2, <1>3, <1>4
<1>6. /\ tok' = t /\ ret' = ret /\ ResponseOK(r.resp) /\ HeadersOK(h) /\ Still
      /\ DOMAIN t = {"access", "refresh", "csrf"} /\ Known(t.access) /\ Known(t.refresh)
  BY <1>2, NothingKnown DEF Call, IInv, ClientInv, Still
<1>7. FrameOK(f)
  BY <1>4, <1>6, NewFrame
<1>8. PICK s : s = <<f>>
  OBVIOUS
<1>9. StackOK(s)
  BY <1>7, <1>8, StackFirst
<1>10. ClientInv'
  BY <1>5, <1>6, <1>8, <1>9, ClientMoves
<1>11. RequestInv'
  BY <1>5, <1>6, <1>7, SendInv
<1>12. TableInv'
  BY <1>6, StillTable DEF IInv, Still
<1>. QED
  BY <1>10, <1>11, <1>12 DEF IInv

(* A response is received, and the request returns.                        *)
LEMMA ReturningInv ==
    ASSUME IInv, NEW q \in Requesters, Accept(q) \/ GiveUp(q) \/ StopAtLogin(q) \/ Done(q)
    PROVE  IInv'
<1>1. PICK resp, err : resp = Response(q) /\ Return(q, resp, err)
  BY DEF Accept, GiveUp, StopAtLogin, Done
<1>2. Active(q) /\ Still
  BY DEF Accept, GiveUp, StopAtLogin, Done, Unauthorized, Refused, Received, untouched, Still
<1>3. ResponseOK(resp)
  BY <1>1 DEF Response, IInv, RequestInv, RequestOK
<1>. QED
  BY <1>1, <1>2, <1>3, ReturnInv

LEMMA AskCsrfInv ==
    ASSUME IInv, NEW q \in Requesters, AskCsrf(q)
    PROVE  IInv'
<1>1. PICK t, h : t = tok /\ h = NoHeaders
  OBVIOUS
<1>2. PICK f : f = Frame(t, StatusPath, "", TRUE, h)
  OBVIOUS
<1>3. Push(q, "csrf", t, f) /\ Active(q) /\ Still /\ ret' = ret /\ tok' = t
  BY <1>1, <1>2 DEF AskCsrf, Refused, Received, untouched, Still
<1>4. DOMAIN t = {"access", "refresh", "csrf"} /\ Known(t.access) /\ Known(t.refresh) /\ HeadersOK(h)
  BY <1>1, NothingKnown DEF IInv, ClientInv
<1>5. FrameOK(f)
  BY <1>2, <1>4, NewFrame
<1>. QED
  BY <1>3, <1>4, <1>5, PushInv

LEMMA DecidingInv ==
    ASSUME IInv, NEW q \in Requesters, DecideLogin(q) \/ DecideRefresh(q)
    PROVE  IInv'
<1>1. PICK what : Decide(q, what)
  BY DEF DecideLogin, DecideRefresh
<1>2. Active(q)
  BY DEF DecideLogin, DecideRefresh, Unauthorized, Refused, Received
<1>. QED
  BY <1>1, <1>2, DecideInv

LEMMA LoginFrameOK ==
    ASSUME IInv, NEW phash
    PROVE  FrameOK(LoginFrame(phash))
<1>1. PICK t, h : t = tok /\ h = [NoHeaders EXCEPT !.login = credentials.login, !.phash = phash]
  OBVIOUS
<1>2. Known(t.access) /\ HeadersOK(h)
  BY <1>1, NothingKnown DEF IInv, ClientInv
<1>3. FrameOK(Frame(t, LoginPath, HomeTenancy, FALSE, h))
  BY <1>2, NewFrame
<1>. QED
  BY <1>1, <1>3 DEF LoginFrame

LEMMA StartLoginInv ==
    ASSUME IInv, NEW q \in Requesters, StartLogin(q)
    PROVE  IInv'
<1>1. PICK t, f : t = tok /\ f = LoginFrame("none")
  OBVIOUS
<1>2. Push(q, "login1", t, f) /\ Active(q) /\ Still /\ ret' = ret /\ tok' = t
  BY <1>1 DEF StartLogin, Waits, untouched, Still
<1>3. DOMAIN t = {"access", "refresh", "csrf"} /\ Known(t.access) /\ Known(t.refresh)
  BY <1>1 DEF IInv, ClientInv
<1>4. FrameOK(f)
  BY <1>1, LoginFrameOK
<1>. QED
  BY <1>2, <1>3, <1>4, PushInv

LEMMA StartRefreshInv ==
    ASSUME IInv, NEW q \in Requesters, StartRefresh(q)
    PROVE  IInv'
<1>1. PICK t, h : t = [tok EXCEPT !.access = NoToken] /\ h = [NoHeaders EXCEPT !.refresh = tok.refresh]
  OBVIOUS
<1>2. PICK f : f = Frame(t, RefreshPath, HomeTenancy, FALSE, h)
  OBVIOUS
<1>3. tok' = t /\ ret' = ret /\ Active(q) /\ Still
  BY <1>1 DEF StartRefresh, Waits, untouched, Still
<1>4. Push(q, "refreshing", t, f)
  BY <1>1, <1>2, <1>3 DEF StartRefresh
<1>5. DOMAIN t = {"access", "refresh", "csrf"} /\ Known(t.access) /\ Known(t.refresh)
  BY <1>1, NothingKnown DEF IInv, ClientInv
<1>6. HeadersOK(h)
  BY <1>1, NothingKnown DEF IInv, ClientInv, HeadersOK, HeaderFields
<1>7. FrameOK(f)
  BY <1>2, <1>5, <1>6, NewFrame
<1>. QED
  BY <1>3, <1>4, <1>5, <1>7, PushInv

(* A request of checkResponse's own has returned.                          *)
LEMMA ResendingInv ==
    ASSUME IInv, NEW q \in Requesters, AfterCsrf(q) \/ AfterLogin(q) \/ AfterRefresh(q)
    PROVE  IInv'
<1>1. Active(q) /\ Still
  BY DEF AfterCsrf, AfterLogin, AfterRefresh, Returned, Waits, untouched, Still
<1>2. Resend(q, 2) \/ Resend(q, 1) \/ Fail(q)
  BY DEF AfterCsrf, AfterLogin, AfterRefresh
<1>. QED
  BY <1>1, <1>2, ResendInv, FailInv

LEMMA SecondStepInv ==
    ASSUME IInv, NEW q \in Requesters, SecondStep(q)
    PROVE  IInv'
<1>1. Active(q) /\ Still
  BY DEF SecondStep, Returned, Waits, untouched, Still
<1>2. CASE Fail(q)
  BY <1>1, <1>2, FailInv
<1>3. CASE /\ Push(q, "login2", tok, LoginFrame(MakePhash(ret[q].resp)))
           /\ ret' = [ret EXCEPT ![q] = Nothing] /\ tok' = tok
  <2>1. PICK phash, t : phash = MakePhash(ret[q].resp) /\ t = tok
    OBVIOUS
  <2>2. PICK f : f = LoginFrame(phash)
    OBVIOUS
  <2>3. Push(q, "login2", t, f) /\ tok' = t
    BY <1>3, <2>1, <2>2
  <2>4. DOMAIN t = {"access", "refresh", "csrf"} /\ Known(t.access) /\ Known(t.refresh)
    BY <2>1 DEF IInv, ClientInv
  <2>5. FrameOK(f)
    BY <2>2, LoginFrameOK
  <2>. QED
    BY <1>1, <1>3, <2>3, <2>4, <2>5, PushInv
<1>. QED
  BY <1>2, <1>3 DEF SecondStep

LEMMA LoseInv ==
    ASSUME IInv, NEW q \in Requesters, Lose(q)
    PROVE  IInv'
<1>1. PICK resp : resp = NoResponse /\ Return(q, resp, TRUE)
  BY DEF Lose
<1>2. Active(q) /\ Still
  BY DEF Lose, IsLost, Still
<1>. QED
  BY <1>1, <1>2, NothingKnown, ReturnInv

LEMMA ClientStepInv ==
    ASSUME IInv, NEW q \in Requesters, ClientStep(q)
    PROVE  IInv'
BY CallInv, ReturningInv, AskCsrfInv, DecidingInv, StartLoginInv, StartRefreshInv, ResendingInv, SecondStepInv, LoseInv
   DEF ClientStep

-----------------------------------------------------------------------------
(* The administrator and the clock.                                        *)

(* What the requests keep when only the tables have changed.               *)
LEMMA RequestsKept ==
    ASSUME IInv, Grows, UNCHANGED <<srv, clients, tok, stack, ret>>, TableInv'
    PROVE  IInv'
<1>1. ASSUME NEW q \in Requesters
      PROVE  RequestOK(srv[q])'
  <2>1. PICK y : y = srv[q] /\ RequestOK(y)
    BY DEF IInv, RequestInv
  <2>2. RequestOK(y)'
    BY <2>1, RequestKept DEF RequestOK, ClientOK, Grows
  <2>. QED
    BY <2>1, <2>2
<1>2. Overlap'
  BY DEF IInv, RequestInv, Overlap, Inside, Grows
<1>3. RequestInv'
  BY <1>1, <1>2 DEF IInv, RequestInv
<1>. QED
  BY <1>3, ClientKept DEF IInv

LEMMA InvalidateUserSessionsInv ==
    ASSUME IInv, InvalidateUserSessions, UNCHANGED <<tok, stack, ret>>
    PROVE  IInv'
<1>1. /\ sessions' = [s \in DOMAIN sessions |-> [sessions[s] EXCEPT !.valid = FALSE]]
      /\ ended' = ended \union DOMAIN sessions /\ UNCHANGED <<clock, clients, srv, overlapped>>
  BY DEF InvalidateUserSessions
<1>2. sessions \in Seq(Row) /\ Len(sessions) \in Nat /\ DOMAIN sessions = 1 .. Len(sessions)
  BY LenProperties DEF IInv, TableInv
<1>3. ASSUME NEW s \in DOMAIN sessions
      PROVE  [sessions[s] EXCEPT !.valid = FALSE] \in Row /\ ~[sessions[s] EXCEPT !.valid = FALSE].valid
  <2>1. PICK row : row = sessions[s] /\ row \in Row
    BY <1>2
  <2>2. [row EXCEPT !.valid = FALSE] \in Row /\ ~[row EXCEPT !.valid = FALSE].valid
    BY <2>1 DEF Row
  <2>. QED
    BY <2>1, <2>2
<1>4. sessions' \in [1 .. Len(sessions) -> Row]
  BY <1>1, <1>2, <1>3
<1>5. /\ sessions' \in Seq(Row) /\ Len(sessions') = Len(sessions) /\ DOMAIN sessions' = DOMAIN sessions
  BY <1>2, <1>4, SeqDef, LenProperties
<1>6. \A s \in DOMAIN sessions : ~sessions'[s].valid
  BY <1>1, <1>3
<1>7. TableInv'
  BY <1>1, <1>5, <1>6 DEF IInv, TableInv
<1>8. Grows
  BY <1>1, <1>2, <1>5 DEF Grows
<1>. QED
  BY <1>1, <1>7, <1>8, RequestsKept

LEMMA DisturbInv ==
    ASSUME IInv, Disturb
    PROVE  IInv'
<1>1. Disturbance /\ UNCHANGED <<tok, stack, ret>>
  BY DEF Disturb
<1>2. CASE InvalidateUserSessions
  BY <1>1, <1>2, InvalidateUserSessionsInv
<1>3. CASE SetBlocked \/ Tick
  <2>1. UNCHANGED <<sessions, clients, srv, overlapped, ended>> /\ clock' \in Nat
    BY <1>3 DEF SetBlocked, Tick, IInv, TableInv
  <2>2. Grows /\ TableInv'
    BY <2>1, StillGrows DEF IInv, TableInv
  <2>. QED
    BY <1>1, <2>1, <2>2, RequestsKept
<1>4. CASE \E q \in Requesters : RejectEarly(q) \/ DatabaseFails(q)
  BY <1>1, <1>4, ReplyingInv
<1>5. CASE \E q \in Requesters : CreateClientFails(q)
  BY <1>1, <1>5, CreateClientFailsInv
<1>. QED
  BY <1>1, <1>2, <1>3, <1>4, <1>5 DEF Disturbance

-----------------------------------------------------------------------------
(* The theorem.                                                            *)

LEMMA InvInit ==
    ASSUME Init
    PROVE  IInv
<1>1. TableInv
  BY DEF Init, InitServer, TableInv
<1>2. ASSUME NEW q \in Requesters
      PROVE  RequestOK(srv[q]) /\ ~Inside(srv[q])
  <2>1. srv[q] = Idle
    BY DEF Init, InitServer
  <2>2. DOMAIN Idle = Fields /\ Idle.stage = "none" /\ Idle.session = 0 /\ Idle.response = NoResponse
    BY DEF Idle, Fields
  <2>3. Idle.copy \in Row
    BY DEF Idle, Row
  <2>4. Known(Idle.request.access) /\ Known(Idle.request.refresh)
    BY NothingKnown DEF Idle, NoRequest
  <2>5. 0 \in 0 .. Len(sessions)
    BY <1>1, LenProperties DEF TableInv
  <2>. QED
    BY <2>1, <2>2, <2>3, <2>4, <2>5, NothingKnown DEF RequestOK, SchemaOK, ClientOK, Inside, Identified
<1>3. RequestInv
  BY <1>2 DEF Init, InitServer, RequestInv, Overlap
<1>4. StackOK(<<>>)
  <2>1. PICK S : S = {}
    OBVIOUS
  <2>2. <<>> \in Seq(S) /\ \A f \in S : FrameOK(f)
    BY <2>1
  <2>. QED
    BY <2>2 DEF StackOK
<1>5. ClientInv
  BY <1>4, NothingKnown DEF Init, ClientInv
<1>. QED
  BY <1>1, <1>3, <1>5 DEF IInv

LEMMA InvNext ==
    ASSUME IInv, [Next]_vars
    PROVE  IInv'
<1>1. ASSUME NEW q \in Requesters, ClientStep(q)
      PROVE  IInv'
  BY <1>1, ClientStepInv
<1>2. ASSUME NEW q \in Requesters, Serve(q)
      PROVE  IInv'
  BY <1>2, ServerStepInv DEF Serve
<1>3. CASE Disturb
  BY <1>3, DisturbInv
<1>4. CASE UNCHANGED vars
  <2>1. UNCHANGED <<clock, sessions, clients, srv, overlapped, ended, tok, stack, ret>>
    BY <1>4 DEF vars, server, client
  <2>2. Grows /\ TableInv'
    BY <2>1, StillGrows, StillTable DEF IInv
  <2>. QED
    BY <2>1, <2>2, RequestsKept
<1>. QED
  BY <1>1, <1>2, <1>3, <1>4 DEF Next, Finished

(* A request that reaches its handler belongs to a session that had not    *)
(* ended when it was sent: a logout is final, although requests that read  *)
(* the row before still write to it (AuthTokenHandler.Handle,              *)
(* UpdateSessionExpiration, InvalidateSession).  And the client that it    *)
(* sees is stored, unless requests of the session overlapped or the        *)
(* statement that creates the client failed (UpdateSessionClient).         *)
THEOREM LogoutIsFinal == Spec => []HandlerSession
<1>1. IInv => HandlerSession
  <2>. SUFFICES ASSUME IInv, NEW q \in Requesters, Running(q)
                PROVE  /\ ~srv[q].dead
                       /\ \/ srv[q].client = "stored" /\ srv[q].session \in clients
                          \/ srv[q].client = "lost" /\ srv[q].session \in overlapped
                          \/ srv[q].client = "unstored"
    BY DEF HandlerSession
  <2>1. RequestOK(srv[q]) /\ srv[q].stage = "handler" /\ Schema(Endpoints, srv[q].request.path) = DefaultSchema
    BY DEF IInv, RequestInv, Running, At, SchemaOf, Path
  <2>. QED
    BY <2>1 DEF RequestOK, SchemaOK, ClientOK, Inside, Identified
<1>. QED
  BY <1>1, InvInit, InvNext, PTL DEF Spec

-----------------------------------------------------------------------------
(* The handler of a call.                                                  *)

(* While a request is on its way the last frame waits for it, and when the *)
(* call's handler has run, the reply says so and is the call's own.        *)
OnceOK(q) ==
    /\ srv[q].stage # "none" => stack[q] # <<>> /\ Top(q).at = "wait"
    /\ ran[q] \in {0, 1}
    /\ ran[q] = 1 => Len(stack[q]) = 1 /\ srv[q].stage = "reply" /\ srv[q].response.error = "ok"
OnceInv == DOMAIN ran = Requesters /\ \A q \in Requesters : OnceOK(q)

LEMMA LastFrame ==
    ASSUME NEW s, StackOK(s)
    PROVE  /\ Len(s) \in Nat /\ (s # <<>> <=> Len(s) > 0)
           /\ \A g : s # <<>> => LET t == [s EXCEPT ![Len(s)] = g] IN Len(t) = Len(s) /\ t[Len(t)] = g
           /\ \A g : LET t == Append(s, g) IN Len(t) = Len(s) + 1 /\ t[Len(t)] = g
<1>1. PICK S : s \in Seq(S)
  BY DEF StackOK
<1>2. Len(s) \in Nat /\ (s # <<>> <=> Len(s) > 0)
  BY <1>1, EmptySeq, LenProperties
<1>3. ASSUME NEW g, s # <<>>
      PROVE  LET t == [s EXCEPT ![Len(s)] = g] IN Len(t) = Len(s) /\ t[Len(t)] = g
  BY <1>1, <1>2, <1>3
<1>4. ASSUME NEW g
      PROVE  LET t == Append(s, g) IN Len(t) = Len(s) + 1 /\ t[Len(t)] = g
  <2>1. s \in Seq(S \union {g})
    BY <1>1
  <2>. QED
    BY <1>2, <2>1, AppendProperties
<1>. QED
  BY <1>2, <1>3, <1>4

(* A step of one goroutine, or of its request.                             *)
LEMMA OthersOnce ==
    ASSUME IInv, OnceInv, NEW q \in Requesters, OnceOK(q)',
           \A o \in Requesters \ {q} : srv'[o] = srv[o] /\ stack'[o] = stack[o] /\ ran'[o] = ran[o],
           DOMAIN ran' = Requesters
    PROVE  OnceInv'
<1>1. ASSUME NEW o \in Requesters \ {q}
      PROVE  OnceOK(o)'
  BY <1>1 DEF OnceInv, OnceOK, Top
<1>. QED
  BY <1>1 DEF OnceInv

LEMMA ReturnOnce ==
    ASSUME IInv, OnceInv, NEW q \in Requesters, Active(q), NEW resp, NEW err, Return(q, resp, err)
    PROVE  OnceInv'
<1>1. srv'[q].stage = "none"
  BY DEF Return, Consume, Idle, IInv, RequestInv
<1>2. CASE Len(stack[q]) > 1
  <2>1. Len(stack[q]) \in Nat
    BY LastFrame DEF IInv, ClientInv
  <2>2. ran[q] = 0
    BY <1>2, <2>1 DEF OnceInv, OnceOK
  <2>3. ran' = ran
    BY <1>2 DEF Return
  <2>. QED
    BY <1>1, <2>2, <2>3, OthersOnce DEF Return, Consume, OnceInv, OnceOK, IInv, RequestInv, ClientInv
<1>3. CASE ~(Len(stack[q]) > 1)
  <2>1. ran' = [ran EXCEPT ![q] = 0]
    BY <1>3 DEF Return
  <2>. QED
    BY <1>1, <2>1, OthersOnce DEF Return, Consume, OnceInv, OnceOK, IInv, RequestInv, ClientInv
<1>. QED
  BY <1>2, <1>3

(* A goroutine whose last frame does not wait has no reply of its call.    *)
LEMMA NotRun ==
    ASSUME OnceInv, NEW q \in Requesters,
           srv[q].stage = "none" \/ stack[q] = <<>> \/ Top(q).at # "wait" \/ srv[q].response.error # "ok"
    PROVE  ran[q] = 0
BY DEF OnceInv, OnceOK

LEMMA SendOnce ==
    ASSUME IInv, OnceInv, NEW q \in Requesters, ran[q] = 0, ran' = ran, NEW tokens, NEW frame, Send(q, tokens, frame),
           NEW s, stack' = [stack EXCEPT ![q] = s], s # <<>>, s[Len(s)].at = "wait"
    PROVE  OnceInv'
<1>1. stack'[q] = s /\ \A o \in Requesters \ {q} : stack'[o] = stack[o] /\ srv'[o] = srv[o]
  BY DEF IInv, ClientInv, RequestInv, Send
<1>2. OnceOK(q)'
  BY <1>1 DEF OnceOK, Top
<1>. QED
  BY <1>1, <1>2, OthersOnce DEF OnceInv

LEMMA PushOnce ==
    ASSUME IInv, OnceInv, NEW q \in Requesters, Active(q), ran[q] = 0, ran' = ran, NEW at, NEW tokens, NEW frame,
           frame.at = "wait", Push(q, at, tokens, frame)
    PROVE  OnceInv'
<1>1. PICK z : z = stack[q] /\ StackOK(z) /\ z # <<>>
  BY DEF IInv, ClientInv, Active
<1>2. PICK g : g = [z[Len(z)] EXCEPT !.at = at]
  OBVIOUS
<1>3. PICK u : u = [z EXCEPT ![Len(z)] = g]
  OBVIOUS
<1>4. PICK s : s = Append(u, frame)
  OBVIOUS
<1>5. stack' = [stack EXCEPT ![q] = s]
  BY <1>1, <1>2, <1>3, <1>4 DEF Push
<1>6. StackOK(u)
  BY <1>1, <1>2, <1>3, StackTop, FrameMoved, StackReplaced
<1>7. Len(s) = Len(u) + 1 /\ s[Len(s)] = frame /\ Len(u) \in Nat
  BY <1>4, <1>6, LastFrame
<1>8. s # <<>>
  BY <1>7
<1>. QED
  BY <1>5, <1>7, <1>8, SendOnce DEF Push

LEMMA ResendOnce ==
    ASSUME IInv, OnceInv, NEW q \in Requesters, Active(q), ran[q] = 0, NEW limit, Resend(q, limit)
    PROVE  OnceInv'
<1>1. PICK z : z = stack[q] /\ StackOK(z) /\ z # <<>>
  BY DEF IInv, ClientInv, Active
<1>2. PICK f, g : f = z[Len(z)] /\ g = Resent(f, limit)
  OBVIOUS
<1>3. PICK s : s = [z EXCEPT ![Len(z)] = g]
  OBVIOUS
<1>4. stack' = [stack EXCEPT ![q] = s] /\ ran' = ran
  BY <1>1, <1>2, <1>3 DEF Resend, ofReturn
<1>5. Len(s) = Len(z) /\ s[Len(s)] = g /\ Len(z) > 0
  BY <1>1, <1>3, LastFrame
<1>6. s # <<>>
  BY <1>5
<1>7. "at" \in DOMAIN f
  BY <1>1, <1>2, StackTop DEF FrameOK
<1>8. g.at = "wait"
  BY <1>2, <1>7 DEF Resent
<1>9. PICK t : t = tok /\ Send(q, t, f)
  BY <1>1, <1>2 DEF Resend, Top
<1>. QED
  BY <1>4, <1>5, <1>6, <1>8, <1>9, SendOnce

LEMMA DecideOnce ==
    ASSUME IInv, OnceInv, NEW q \in Requesters, ran[q] = 0, NEW what, Decide(q, what)
    PROVE  OnceInv'
<1>1. srv'[q].stage = "none" /\ ran' = ran
  BY DEF Decide, Consume, Idle, IInv, RequestInv, ofReturn
<1>2. \A o \in Requesters \ {q} : stack'[o] = stack[o] /\ srv'[o] = srv[o]
  BY DEF Decide, Consume, IInv, RequestInv, ClientInv
<1>. QED
  BY <1>1, <1>2, OthersOnce DEF OnceInv, OnceOK

LEMMA FrameWaits == \A tokens, path, tenancy, query, h : Frame(tokens, path, tenancy, query, h).at = "wait"
BY DEF Frame

LEMMA ClientStepOnce ==
    ASSUME IInv, OnceInv, NEW q \in Requesters, ClientStep(q)
    PROVE  OnceInv'
<1>1. CASE Call(q)
  <2>1. PICK f, t : stack' = [stack EXCEPT ![q] = <<f>>] /\ Send(q, t, f) /\ f.at = "wait"
    <3>1. PICK op : op \in Ops(q, calls)
             /\ LET frame == Frame(tok, PathOf(op), IF op = "foreign" THEN "foreign" ELSE HomeTenancy, op = "read",
                                   NoHeaders)
                IN stack' = [stack EXCEPT ![q] = <<frame>>] /\ Send(q, tok, frame)
      BY <1>1 DEF Call
    <3>2. PICK path, tenancy, query :
            /\ path = PathOf(op) /\ query = (op = "read")
            /\ tenancy = (IF op = "foreign" THEN "foreign" ELSE HomeTenancy)
      OBVIOUS
    <3>3. PICK f, t : f = Frame(tok, path, tenancy, query, NoHeaders) /\ t = tok
      OBVIOUS
    <3>4. stack' = [stack EXCEPT ![q] = <<f>>] /\ Send(q, t, f)
      BY <3>1, <3>2, <3>3
    <3>. QED
      BY <3>3, <3>4, FrameWaits
  <2>2. ran' = ran /\ ran[q] = 0
    BY <1>1, NotRun DEF Call, Active
  <2>3. PICK s : s = <<f>>
    OBVIOUS
  <2>4. s # <<>> /\ s[Len(s)] = f
    BY <2>3
  <2>. QED
    BY <2>1, <2>2, <2>3, <2>4, SendOnce
<1>2. CASE Accept(q) \/ GiveUp(q) \/ StopAtLogin(q) \/ Done(q) \/ Lose(q)
  <2>1. PICK resp, err : Return(q, resp, err)
    BY <1>2 DEF Accept, GiveUp, StopAtLogin, Done, Lose
  <2>2. Active(q)
    BY <1>2 DEF Accept, GiveUp, StopAtLogin, Done, Lose, Unauthorized, Refused, Received, IsLost
  <2>. QED
    BY <2>1, <2>2, ReturnOnce
<1>3. CASE AskCsrf(q)
  <2>1. PICK t, f : Push(q, "csrf", t, f) /\ f.at = "wait"
    BY <1>3, FrameWaits DEF AskCsrf
  <2>2. Active(q) /\ ran' = ran /\ ran[q] = 0
    BY <1>3, NotRun DEF AskCsrf, Refused, Received, Response, ofReturn
  <2>. QED
    BY <2>1, <2>2, PushOnce
<1>4. CASE DecideLogin(q) \/ DecideRefresh(q)
  <2>1. PICK what : Decide(q, what)
    BY <1>4 DEF DecideLogin, DecideRefresh
  <2>2. ran[q] = 0
    BY <1>4, NotRun DEF DecideLogin, DecideRefresh, Unauthorized, Refused, Response
  <2>. QED
    BY <2>1, <2>2, DecideOnce
<1>5. CASE StartLogin(q) \/ StartRefresh(q)
  <2>1. PICK at, t, f : Push(q, at, t, f) /\ f.at = "wait"
    <3>1. CASE StartLogin(q)
      <4>1. PICK t, f : t = tok /\ f = LoginFrame("none")
        OBVIOUS
      <4>2. Push(q, "login1", t, f) /\ f.at = "wait"
        BY <3>1, <4>1, FrameWaits DEF StartLogin, LoginFrame
      <4>. QED
        BY <4>2
    <3>2. CASE StartRefresh(q)
      <4>1. PICK t, h : t = [tok EXCEPT !.access = NoToken] /\ h = [NoHeaders EXCEPT !.refresh = tok.refresh]
        OBVIOUS
      <4>2. PICK f : f = Frame(t, RefreshPath, HomeTenancy, FALSE, h)
        OBVIOUS
      <4>3. tok' = t
        BY <3>2, <4>1 DEF StartRefresh
      <4>4. Push(q, "refreshing", t, f)
        BY <3>2, <4>1, <4>2, <4>3 DEF StartRefresh
      <4>5. f.at = "wait"
        BY <4>2, FrameWaits
      <4>. QED
        BY <4>4, <4>5
    <3>. QED
      BY <1>5, <3>1, <3>2
  <2>2. Active(q) /\ ran' = ran /\ ran[q] = 0
    BY <1>5, NotRun DEF StartLogin, StartRefresh, Waits, ofReturn
  <2>. QED
    BY <2>1, <2>2, PushOnce
<1>6. CASE AfterCsrf(q) \/ AfterLogin(q) \/ AfterRefresh(q) \/ SecondStep(q)
  <2>1. Active(q) /\ ran[q] = 0
    BY <1>6, NotRun DEF AfterCsrf, AfterLogin, AfterRefresh, SecondStep, Returned, Waits
  <2>2. CASE Fail(q)
    <3>1. PICK resp, err : Return(q, resp, err)
      BY <2>2 DEF Fail
    <3>. QED
      BY <2>1, <3>1, ReturnOnce
  <2>3. CASE \E limit : Resend(q, limit)
    BY <2>1, <2>3, ResendOnce
  <2>4. CASE SecondStep(q) /\ ~Fail(q)
    <3>1. PICK t, f : t = tok /\ f = LoginFrame(MakePhash(ret[q].resp))
      OBVIOUS
    <3>2. Push(q, "login2", t, f) /\ ran' = ran
      BY <2>4, <3>1 DEF SecondStep, ofReturn
    <3>3. f.at = "wait"
      BY <3>1, FrameWaits DEF LoginFrame
    <3>. QED
      BY <2>1, <3>2, <3>3, PushOnce
  <2>. QED
    BY <1>6, <2>2, <2>3, <2>4 DEF AfterCsrf, AfterLogin, AfterRefresh
<1>. QED
  BY <1>1, <1>2, <1>3, <1>4, <1>5, <1>6 DEF ClientStep

(* On the server a request moves on, and only its handler says "ok".       *)
LEMMA RequestMovesOnce ==
    ASSUME IInv, OnceInv, NEW q \in Requesters, \A o \in Requesters \ {q} : srv'[o] = srv[o],
           srv[q].stage \notin {"none", "reply"}, stack' = stack,
           DOMAIN ran' = Requesters, \A o \in Requesters : ran'[o] = ran[o]
    PROVE  OnceInv'
<1>1. ran[q] = 0 /\ stack[q] # <<>> /\ Top(q).at = "wait"
  BY DEF OnceInv, OnceOK
<1>2. OnceOK(q)'
  BY <1>1 DEF OnceOK, Top
<1>. QED
  BY <1>2, OthersOnce DEF OnceInv

LEMMA OthersKept ==
    ASSUME IInv, NEW q \in Requesters, NEW new, Step(q, new)
    PROVE  \A o \in Requesters \ {q} : srv'[o] = srv[o]
BY DEF Step, IInv, RequestInv

LEMMA HandleOnce ==
    ASSUME IInv, OnceInv, NEW q \in Requesters, HandleRequest(q), stack' = stack,
           ran' = [ran EXCEPT ![q] = IF At(q, "handler") /\ Len(stack[q]) = 1 THEN @ + 1 ELSE @]
    PROVE  OnceInv'
<1>1. PICK y, r : y = srv[q] /\ r = Over([error |-> "ok"], Over(<<>>, y.response))
  OBVIOUS
<1>2. PICK new : new = [stage |-> "reply", response |-> r]
  OBVIOUS
<1>3. Step(q, new) /\ y.stage = "handler"
  BY <1>1, <1>2 DEF HandleRequest, Respond, At
<1>4. PICK x : x = Over(new, y)
  OBVIOUS
<1>5. srv' = [srv EXCEPT ![q] = x]
  BY <1>1, <1>3, <1>4 DEF Step
<1>6. DOMAIN new = {"stage", "response"} /\ new.stage = "reply" /\ new.response = r
  BY <1>2
<1>7. x.stage = "reply" /\ x.response = r
  BY <1>4, <1>6, OverNew
<1>8. r.error = "ok"
  <2>1. PICK e : e = [error |-> "ok"]
    OBVIOUS
  <2>2. DOMAIN e = {"error"} /\ e.error = "ok" /\ r = Over(e, Over(<<>>, y.response))
    BY <1>1, <2>1
  <2>. QED
    BY <2>2, OverNew
<1>9. ran[q] = 0 /\ stack[q] # <<>> /\ Top(q).at = "wait"
  BY <1>1, <1>3 DEF OnceInv, OnceOK
<1>10. ran'[q] \in {0, 1} /\ (ran'[q] = 1 => Len(stack[q]) = 1) /\ DOMAIN ran' = Requesters
  BY <1>9 DEF OnceInv
<1>11. srv'[q] = x /\ \A o \in Requesters \ {q} : srv'[o] = srv[o] /\ ran'[o] = ran[o]
  BY <1>5 DEF IInv, RequestInv, OnceInv
<1>12. OnceOK(q)'
  BY <1>7, <1>8, <1>9, <1>10, <1>11 DEF OnceOK, Top
<1>. QED
  BY <1>10, <1>11, <1>12, OthersOnce

LEMMA ServeOnce ==
    ASSUME IInv, OnceInv, NEW q \in Requesters, Serve(q)
    PROVE  OnceInv'
<1>1. stack' = stack /\ ran' = [ran EXCEPT ![q] = IF At(q, "handler") /\ Len(stack[q]) = 1 THEN @ + 1 ELSE @]
  BY DEF Serve
<1>2. CASE HandleRequest(q)
  BY <1>1, <1>2, HandleOnce
<1>3. CASE ~HandleRequest(q)
  <2>1. srv[q].stage \notin {"none", "reply", "handler"}
    BY <1>3 DEF Serve, ServerStep, RefuseCsrf, ServeNoAuth, RefuseLogin, CreateSession, RefuseToken, FindSession,
       FindClient, CreateClient, GenTokens, UpdateSessionExpiration, InvalidateSession, PassesCsrf, At
  <2>2. DOMAIN ran' = Requesters /\ \A o \in Requesters : ran'[o] = ran[o]
    BY <1>1, <2>1 DEF At, OnceInv
  <2>3. \A o \in Requesters \ {q} : srv'[o] = srv[o]
    <3>1. \E new : Step(q, new)
      BY <1>3 DEF Serve, ServerStep, RefuseCsrf, ServeNoAuth, RefuseLogin, CreateSession, RefuseToken, FindSession,
         FindClient, CreateClient, GenTokens, UpdateSessionExpiration, InvalidateSession, Respond
    <3>. QED
      BY <3>1, OthersKept
  <2>. QED
    BY <1>1, <2>1, <2>2, <2>3, RequestMovesOnce
<1>. QED
  BY <1>2, <1>3

LEMMA DisturbOnce ==
    ASSUME IInv, OnceInv, Disturb
    PROVE  OnceInv'
<1>1. stack' = stack /\ ran' = ran
  BY DEF Disturb
<1>2. CASE \E q \in Requesters : RejectEarly(q) \/ CreateClientFails(q) \/ DatabaseFails(q)
  <2>1. PICK q \in Requesters : RejectEarly(q) \/ CreateClientFails(q) \/ DatabaseFails(q)
    BY <1>2
  <2>2. srv[q].stage \notin {"none", "reply"}
    BY <2>1 DEF RejectEarly, CreateClientFails, DatabaseFails, ReadsTables, PassesCsrf, At
  <2>3. \E new : Step(q, new)
    BY <2>1 DEF RejectEarly, CreateClientFails, DatabaseFails, Respond
  <2>. QED
    BY <1>1, <2>2, <2>3, OthersKept, RequestMovesOnce DEF OnceInv
<1>3. CASE srv' = srv
  BY <1>1, <1>3 DEF OnceInv, OnceOK, Top
<1>. QED
  BY <1>2, <1>3 DEF Disturb, Disturbance, Tick, InvalidateUserSessions, SetBlocked

(* The handler of a call runs at most once, however often the requests of  *)
(* the call are refused, sent again or lost: only a request that was       *)
(* refused is resent, and a lost reply ends the call (checkResponse and    *)
(* resend, auto_reconnect.go).                                             *)
THEOREM CallRunsOnce == Spec => []RunsOnce
<1>1. Init => IInv /\ OnceInv
  <2>. SUFFICES ASSUME Init PROVE IInv /\ OnceInv
    OBVIOUS
  <2>1. \A q \in Requesters : srv[q].stage = "none" /\ ran[q] = 0
    BY DEF Init, InitServer, Idle
  <2>2. OnceInv
    BY <2>1 DEF Init, OnceInv, OnceOK
  <2>. QED
    BY <2>2, InvInit
<1>2. IInv /\ OnceInv /\ [Next]_vars => IInv' /\ OnceInv'
  <2>. SUFFICES ASSUME IInv, OnceInv, [Next]_vars PROVE OnceInv'
    BY InvNext
  <2>1. CASE \E q \in Requesters : ClientStep(q)
    BY <2>1, ClientStepOnce
  <2>2. CASE \E q \in Requesters : Serve(q)
    BY <2>2, ServeOnce
  <2>3. CASE Disturb
    BY <2>3, DisturbOnce
  <2>4. CASE UNCHANGED vars
    BY <2>4 DEF vars, server, client, OnceInv, OnceOK, Top
  <2>. QED
    BY <2>1, <2>2, <2>3, <2>4 DEF Next, Finished
<1>3. OnceInv => RunsOnce
  BY DEF OnceInv, OnceOK, RunsOnce
<1>. QED
  BY <1>1, <1>2, <1>3, PTL DEF Spec

-----------------------------------------------------------------------------
(* The tokens and the expiration of their session.                         *)

(* The session of the token expires after the token, unless something got  *)
(* in the way of the requests that prolonged it.                           *)
Smooth(session) == session \notin overlapped \union stale
Outlives(token) ==
    /\ token.type \in {"access", "refresh"}
    /\ Smooth(token.session) /\ token.exp > sessions[token.session].exp
Issued(token) == token.type \in {"none", "access", "refresh"} /\ token.exp \in Int
Covered(token) == Issued(token) /\ ~Outlives(token)

(* A request that is about to prolong its session may have the access      *)
(* token already that the longer session will cover.                       *)
TokensOK(x) ==
    /\ Covered(x.response.refresh)
    /\ Issued(x.response.access)
    /\ Outlives(x.response.access) =>
         x.stage = "prolong" /\ x.response.access.session = x.session /\ x.response.access.exp <= x.copy.exp
(* What the request knows of its session is not stale.                     *)
FreshOK(x) ==
    Inside(x) /\ x.session # 0 /\ Smooth(x.session) =>
      /\ x.now = clock
      /\ x.stage \in {"client", "create", "tokens"} => x.copy.exp = sessions[x.session].exp
      /\ x.stage = "prolong" => x.copy.exp = clock + RefreshTtl
CoverOK(x) == TokensOK(x) /\ FreshOK(x)
CoverInv ==
    /\ \A s \in DOMAIN sessions : Smooth(s) => sessions[s].exp <= clock + RefreshTtl
    /\ \A q \in Requesters : CoverOK(srv[q])
    /\ Covered(tok.access) /\ Covered(tok.refresh)

(* What the configuration must say for it: refresh tokens are issued, a    *)
(* session is prolonged, and lasts longer than an access token.            *)
Prolongs == AutoProlongateRefresh /\ ~DisableRefresh /\ AccessTtl <= RefreshTtl

(* No session gets shorter that was not interfered with.                   *)
Later ==
    /\ stale \subseteq stale'
    /\ \A s \in DOMAIN sessions : Smooth(s)' => sessions[s].exp <= sessions'[s].exp

LEMMA RowTimes ==
    ASSUME TableInv, NEW s \in DOMAIN sessions
    PROVE  sessions[s].exp \in Int
<1>1. sessions[s] \in Row
  BY DEF TableInv
<1>. QED
  BY <1>1 DEF Row

LEMMA StillLater ==
    ASSUME TableInv, UNCHANGED <<sessions, stale>>
    PROVE  Later
BY RowTimes DEF Later

LEMMA OutlivesKept ==
    ASSUME NEW token, Known(token), Issued(token), Grows, Later, Outlives(token)'
    PROVE  Outlives(token)
<1>1. PICK s : s = token.session
  OBVIOUS
<1>2. token.type \in {"access", "refresh"} /\ Smooth(s)' /\ token.exp > sessions'[s].exp
  BY <1>1 DEF Outlives
<1>3. s \in DOMAIN sessions /\ s \in DOMAIN sessions'
  BY <1>1, <1>2, SessionsGrow DEF Known
<1>4. sessions[s].exp \in Int /\ sessions'[s].exp \in Int
  <2>1. sessions[s] \in Row /\ sessions'[s] \in Row
    BY <1>3 DEF Grows
  <2>. QED
    BY <2>1 DEF Row
<1>5. Smooth(s) /\ sessions[s].exp <= sessions'[s].exp
  BY <1>2, <1>3 DEF Later, Smooth, Grows
<1>. QED
  BY <1>1, <1>2, <1>4, <1>5 DEF Outlives, Issued

LEMMA TokensKept ==
    ASSUME NEW x, RequestOK(x), TokensOK(x), Grows, Later
    PROVE  TokensOK(x)'
<1>1. PICK a, b : a = x.response.access /\ b = x.response.refresh
  OBVIOUS
<1>2. Known(a) /\ Known(b) /\ Issued(a) /\ Issued(b) /\ ~Outlives(b)
  BY <1>1 DEF RequestOK, ResponseOK, TokensOK, Covered
<1>3. (Outlives(a)' => Outlives(a)) /\ ~Outlives(b)'
  BY <1>2, OutlivesKept
<1>. QED
  BY <1>1, <1>2, <1>3 DEF TokensOK, Covered

(* One request moves, and writes to no session but its own.                *)
LEMMA CoverMoves ==
    ASSUME IInv, CoverInv, Grows, Later, clock' = clock,
           NEW q \in Requesters, NEW x, srv' = [srv EXCEPT ![q] = x], CoverOK(x)',
           \A s \in DOMAIN sessions :
             sessions'[s].exp = sessions[s].exp \/ (Inside(srv[q]) /\ s = srv[q].session),
           \A s \in DOMAIN sessions' : Smooth(s)' => sessions'[s].exp <= clock + RefreshTtl,
           NEW t, tok' = t, Known(t.access), Known(t.refresh), Covered(t.access), Covered(t.refresh)
    PROVE  CoverInv'
<1>1. srv'[q] = x /\ \A o \in Requesters \ {q} : srv'[o] = srv[o]
  BY DEF IInv, RequestInv
<1>2. ASSUME NEW o \in Requesters \ {q}
      PROVE  CoverOK(srv[o])'
  <2>1. PICK y : y = srv[o]
    OBVIOUS
  <2>2. RequestOK(y) /\ CoverOK(y)
    BY <2>1 DEF IInv, RequestInv, CoverInv
  <2>3. TokensOK(y)'
    BY <2>2, TokensKept DEF CoverOK
  <2>4. FreshOK(y)'
    <3>. SUFFICES ASSUME Inside(y), y.session # 0, Smooth(y.session)'
                  PROVE  /\ y.now = clock'
                         /\ y.stage \in {"client", "create", "tokens"} => y.copy.exp = sessions'[y.session].exp
                         /\ y.stage = "prolong" => y.copy.exp = clock' + RefreshTtl
      BY DEF FreshOK, Inside
    <3>1. Smooth(y.session)
      BY DEF Smooth, Grows, Later
    <3>2. y.session \in DOMAIN sessions
      BY <2>2, LenProperties DEF RequestOK, IInv, TableInv
    <3>3. ~(Inside(srv[q]) /\ y.session = srv[q].session)
      BY <2>1, <3>1 DEF IInv, RequestInv, Overlap, Smooth
    <3>4. sessions'[y.session].exp = sessions[y.session].exp
      BY <3>2, <3>3
    <3>. QED
      BY <2>2, <3>1, <3>4 DEF CoverOK, FreshOK
  <2>5. CoverOK(y)'
    BY <2>3, <2>4 DEF CoverOK
  <2>. QED
    BY <1>1, <2>1, <2>5
<1>3. CoverOK(srv[q])'
  BY <1>1
<1>4. \A o \in Requesters : CoverOK(srv[o])'
  BY <1>2, <1>3
<1>5. Covered(t.access)' /\ Covered(t.refresh)'
  BY OutlivesKept DEF Covered
<1>. QED
  BY <1>4, <1>5 DEF CoverInv

(* Nothing but the request, and the tokens of the client, changes.         *)
LEMMA StillCover ==
    ASSUME IInv, CoverInv, Still, stale' = stale, NEW q \in Requesters, NEW x, srv' = [srv EXCEPT ![q] = x], CoverOK(x),
           NEW t, tok' = t, Known(t.access), Known(t.refresh), Covered(t.access), Covered(t.refresh)
    PROVE  CoverInv'
<1>1. Grows /\ Later
  BY StillGrows, StillLater DEF IInv, Still
<1>2. CoverOK(x)'
  BY DEF Still, CoverOK, TokensOK, FreshOK, Covered, Issued, Outlives, Smooth, Inside
<1>3. /\ \A s \in DOMAIN sessions : sessions'[s].exp = sessions[s].exp
      /\ \A s \in DOMAIN sessions' : Smooth(s)' => sessions'[s].exp <= clock + RefreshTtl
      /\ clock' = clock
  BY DEF Still, CoverInv, Smooth
<1>. QED
  BY <1>1, <1>2, <1>3, CoverMoves

LEMMA StillServed ==
    ASSUME IInv, CoverInv, Still, UNCHANGED <<stale, tok>>,
           NEW q \in Requesters, NEW x, srv' = [srv EXCEPT ![q] = x], CoverOK(x)
    PROVE  CoverInv'
<1>1. PICK t : t = tok
  OBVIOUS
<1>2. tok' = t /\ Known(t.access) /\ Known(t.refresh) /\ Covered(t.access) /\ Covered(t.refresh)
  BY <1>1 DEF IInv, ClientInv, CoverInv
<1>. QED
  BY <1>2, StillCover

LEMMA SetHeaders ==
    ASSUME NEW r, ResponseOK(r), NEW h, DOMAIN h \subseteq ResponseFields
    PROVE  /\ Over(h, r).access = IF "access" \in DOMAIN h THEN h.access ELSE r.access
           /\ Over(h, r).refresh = IF "refresh" \in DOMAIN h THEN h.refresh ELSE r.refresh
BY OverNew, OverOld DEF ResponseOK, ResponseFields

-----------------------------------------------------------------------------
(* The replies.                                                            *)

LEMMA ReplyShape ==
    ASSUME NEW y, RequestOK(y), NEW error, NEW h, DOMAIN h \subseteq {"csrf", "salt"}, NEW x,
           x = Over([stage |-> "reply", response |-> Over([error |-> error], Over(h, y.response))], y)
    PROVE  /\ x.stage = "reply" /\ x.response.access = y.response.access /\ x.response.refresh = y.response.refresh
<1>1. PICK r : r = Over(h, y.response)
  OBVIOUS
<1>2. ResponseOK(r) /\ r.access = y.response.access /\ r.refresh = y.response.refresh
  BY <1>1, HeadersSet, SetHeaders DEF RequestOK, ResponseFields
<1>3. PICK e, z : e = [error |-> error] /\ z = Over(e, r)
  OBVIOUS
<1>4. z.access = r.access /\ z.refresh = r.refresh
  <2>1. DOMAIN e = {"error"}
    BY <1>3
  <2>. QED
    BY <1>2, <1>3, <2>1, SetHeaders DEF ResponseFields
<1>5. PICK new : new = [stage |-> "reply", response |-> z]
  OBVIOUS
<1>6. x = Over(new, y) /\ DOMAIN new = {"stage", "response"} /\ new.stage = "reply" /\ new.response = z
  BY <1>1, <1>3, <1>5
<1>7. \A f \in Fields : x[f] = IF f \in {"stage", "response"} THEN new[f] ELSE y[f]
  BY <1>6, Stepped DEF RequestOK, Fields
<1>8. x.stage = "reply" /\ x.response = z
  BY <1>6, <1>7 DEF Fields
<1>. QED
  BY <1>2, <1>4, <1>8

LEMMA RespondCover ==
    ASSUME IInv, CoverInv, NEW q \in Requesters, NEW error, NEW h, DOMAIN h \subseteq {"csrf", "salt"},
           Respond(q, error, h), Still, tok' = tok,
           \/ srv[q].stage # "prolong" /\ stale' = stale
           \/ srv[q].stage = "prolong" /\ stale' = stale \union {srv[q].session}
    PROVE  CoverInv'
<1>1. PICK y : y = srv[q]
  OBVIOUS
<1>2. PICK x : x = Over([stage |-> "reply", response |-> Over([error |-> error], Over(h, y.response))], y)
  OBVIOUS
<1>3. RequestOK(y) /\ CoverOK(y) /\ srv' = [srv EXCEPT ![q] = x]
  BY <1>1, <1>2 DEF IInv, RequestInv, Respond, Step, CoverInv
<1>4. x.stage = "reply" /\ x.response.access = y.response.access /\ x.response.refresh = y.response.refresh
  BY <1>2, <1>3, ReplyShape
<1>5. Grows /\ Later
  <2>1. stale \subseteq stale' /\ UNCHANGED <<sessions, ended, overlapped>>
    BY DEF Still
  <2>. QED
    BY <2>1, StillGrows, RowTimes DEF IInv, Later
<1>6. PICK a, b : a = y.response.access /\ b = y.response.refresh
  OBVIOUS
<1>7. /\ Known(a) /\ Known(b) /\ Issued(a) /\ Issued(b) /\ ~Outlives(b)
      /\ Outlives(a) => y.stage = "prolong" /\ a.session = y.session
  BY <1>3, <1>6 DEF RequestOK, ResponseOK, CoverOK, TokensOK, Covered
<1>8. ~Outlives(b)' /\ (Outlives(a)' => Outlives(a))
  BY <1>5, <1>7, OutlivesKept
<1>9. ~Outlives(a)'
  BY <1>1, <1>7, <1>8 DEF Outlives, Smooth
<1>10. CoverOK(x)'
  BY <1>4, <1>6, <1>7, <1>8, <1>9 DEF CoverOK, TokensOK, FreshOK, Covered, Inside
<1>11. PICK t : t = tok
  OBVIOUS
<1>12. tok' = t /\ Known(t.access) /\ Known(t.refresh) /\ Covered(t.access) /\ Covered(t.refresh)
  BY <1>11 DEF IInv, ClientInv, CoverInv
<1>13. /\ \A s \in DOMAIN sessions : sessions'[s].exp = sessions[s].exp
       /\ \A s \in DOMAIN sessions' : Smooth(s)' => sessions'[s].exp <= clock + RefreshTtl
       /\ clock' = clock
  BY DEF Still, CoverInv, Smooth
<1>. QED
  BY <1>3, <1>5, <1>10, <1>12, <1>13, CoverMoves

LEMMA ReplyingCover ==
    ASSUME IInv, CoverInv, NEW q \in Requesters, tok' = tok,
           RejectEarly(q) \/ RefuseCsrf(q) \/ RefuseToken(q) \/ RefuseLogin(q) \/ HandleRequest(q) \/ DatabaseFails(q)
    PROVE  CoverInv'
<1>1. CASE RejectEarly(q) \/ RefuseCsrf(q) \/ HandleRequest(q)
  <2>1. PICK error : Respond(q, error, <<>>)
    BY <1>1 DEF RejectEarly, RefuseCsrf, HandleRequest
  <2>2. Still /\ stale' = stale /\ srv[q].stage # "prolong"
    BY <1>1 DEF RejectEarly, RefuseCsrf, HandleRequest, Still, At
  <2>. QED
    BY <2>1, <2>2, ReplyHeaders, RespondCover
<1>2. CASE DatabaseFails(q)
  <2>1. PICK error, h : h \in {<<>>, NewCsrf} /\ Respond(q, error, h)
    BY <1>2 DEF DatabaseFails
  <2>2. Still /\ stale' = IF srv[q].stage = "prolong" THEN stale \union {srv[q].session} ELSE stale
    BY <1>2 DEF DatabaseFails, Still, At
  <2>. QED
    BY <2>1, <2>2, ReplyHeaders, RespondCover
<1>3. CASE RefuseToken(q)
  <2>1. PICK error, h : h = NewCsrf /\ Respond(q, error, h)
    BY <1>3 DEF RefuseToken
  <2>2. Still /\ stale' = stale /\ srv[q].stage # "prolong"
    BY <1>3 DEF RefuseToken, Still, PassesCsrf, At
  <2>. QED
    BY <2>1, <2>2, ReplyHeaders, RespondCover
<1>4. CASE RefuseLogin(q)
  <2>1. PICK error, salt, h :
          /\ DOMAIN salt \subseteq {"csrf", "salt"} /\ h = Over(NewCsrf, salt) /\ Respond(q, error, h)
    BY <1>4, ReplyHeaders DEF RefuseLogin
  <2>2. DOMAIN h \subseteq {"csrf", "salt"}
    BY <2>1, ReplyHeaders, OverDomain
  <2>3. Still /\ stale' = stale /\ srv[q].stage # "prolong"
    BY <1>4 DEF RefuseLogin, Still, PassesCsrf, At
  <2>. QED
    BY <2>1, <2>2, <2>3, RespondCover
<1>. QED
  BY <1>1, <1>2, <1>3, <1>4

-----------------------------------------------------------------------------
(* The steps of a request.                                                 *)

LEMMA CsrfOnly ==
    ASSUME NEW y, RequestOK(y), NEW h, h = NewCsrf
    PROVE  /\ Over(h, y.response).access = y.response.access
           /\ Over(h, y.response).refresh = y.response.refresh
<1>1. DOMAIN h = {"csrf"}
  BY ReplyHeaders
<1>. QED
  BY <1>1, SetHeaders DEF RequestOK, ResponseFields

LEMMA ServeNoAuthCover ==
    ASSUME IInv, CoverInv, NEW q \in Requesters, ServeNoAuth(q), tok' = tok
    PROVE  CoverInv'
<1>1. PICK y, h, r : y = srv[q] /\ h = NewCsrf /\ r = Over(h, y.response)
  OBVIOUS
<1>2. PICK new, x : new = Over([stage |-> "handler"], [response |-> r]) /\ x = Over(new, y)
  OBVIOUS
<1>3. DOMAIN new = {"stage", "response"} /\ new.stage = "handler" /\ new.response = r
  BY <1>2, OverStage
<1>4. RequestOK(y) /\ CoverOK(y) /\ srv' = [srv EXCEPT ![q] = x] /\ Still /\ stale' = stale /\ y.stage = "arrive"
  BY <1>1, <1>2 DEF IInv, RequestInv, CoverInv, ServeNoAuth, PassesCsrf, At, Step, Headers, Still
<1>5. \A f \in Fields : x[f] = IF f \in {"stage", "response"} THEN new[f] ELSE y[f]
  BY <1>2, <1>3, <1>4, Stepped DEF RequestOK, Fields
<1>6. x.stage = "handler" /\ x.response = r /\ x.session = 0
  BY <1>3, <1>4, <1>5 DEF Fields, RequestOK
<1>7. r.access = y.response.access /\ r.refresh = y.response.refresh
  BY <1>1, <1>4, CsrfOnly
<1>8. CoverOK(x)
  BY <1>4, <1>6, <1>7 DEF CoverOK, TokensOK, FreshOK
<1>. QED
  BY <1>4, <1>8, StillServed

LEMMA FindClientCover ==
    ASSUME IInv, CoverInv, NEW q \in Requesters, FindClient(q), tok' = tok
    PROVE  CoverInv'
<1>1. PICK y : y = srv[q]
  OBVIOUS
<1>2. PICK new :
        new = IF y.session \in clients THEN [stage |-> "tokens", client |-> "stored"] ELSE [stage |-> "create"]
  OBVIOUS
<1>3. PICK x : x = Over(new, y)
  OBVIOUS
<1>4. RequestOK(y) /\ CoverOK(y) /\ srv' = [srv EXCEPT ![q] = x] /\ Still /\ stale' = stale /\ y.stage = "client"
  BY <1>1, <1>2, <1>3 DEF IInv, RequestInv, CoverInv, FindClient, Step, At, Still
<1>5. DOMAIN new \subseteq {"stage", "client"} /\ "stage" \in DOMAIN new /\ new.stage \in {"tokens", "create"}
  BY <1>2
<1>6. \A f \in Fields : x[f] = IF f \in DOMAIN new THEN new[f] ELSE y[f]
  BY <1>3, <1>4, <1>5, Stepped DEF RequestOK, Fields
<1>7. /\ x.stage \in {"tokens", "create"} /\ x.response = y.response /\ x.copy = y.copy /\ x.now = y.now
      /\ x.session = y.session
  BY <1>5, <1>6 DEF Fields
<1>8. CoverOK(x)
  BY <1>4, <1>7 DEF CoverOK, TokensOK, FreshOK, Inside
<1>. QED
  BY <1>4, <1>8, StillServed

LEMMA CreateClientFailsCover ==
    ASSUME IInv, CoverInv, NEW q \in Requesters, CreateClientFails(q), tok' = tok
    PROVE  CoverInv'
<1>1. PICK y, new : y = srv[q] /\ new = [stage |-> "tokens", client |-> "unstored"]
  OBVIOUS
<1>2. PICK x : x = Over(new, y)
  OBVIOUS
<1>3. RequestOK(y) /\ CoverOK(y) /\ srv' = [srv EXCEPT ![q] = x] /\ Still /\ stale' = stale /\ y.stage = "create"
  BY <1>1, <1>2 DEF IInv, RequestInv, CoverInv, CreateClientFails, Step, At, Still
<1>4. DOMAIN new = {"stage", "client"} /\ new.stage = "tokens"
  BY <1>1
<1>5. \A f \in Fields : x[f] = IF f \in {"stage", "client"} THEN new[f] ELSE y[f]
  BY <1>2, <1>3, <1>4, Stepped DEF RequestOK, Fields
<1>6. x.stage = "tokens" /\ x.response = y.response /\ x.copy = y.copy /\ x.now = y.now /\ x.session = y.session
  BY <1>4, <1>5 DEF Fields
<1>7. CoverOK(x)
  BY <1>3, <1>6 DEF CoverOK, TokensOK, FreshOK, Inside
<1>. QED
  BY <1>3, <1>7, StillServed

LEMMA CreateClientCover ==
    ASSUME IInv, CoverInv, NEW q \in Requesters, CreateClient(q), tok' = tok
    PROVE  CoverInv'
<1>1. PICK y : y = srv[q]
  OBVIOUS
<1>2. PICK new, x :
        /\ new = [stage |-> "tokens", client |-> IF y.session \in clients THEN "lost" ELSE "stored"]
        /\ x = Over(new, y)
  OBVIOUS
<1>3. /\ RequestOK(y) /\ CoverOK(y) /\ srv' = [srv EXCEPT ![q] = x] /\ y.stage = "create"
      /\ UNCHANGED <<clock, sessions, ended, overlapped, stale>>
  BY <1>1, <1>2 DEF IInv, RequestInv, CoverInv, CreateClient, Step, At
<1>4. DOMAIN new = {"stage", "client"} /\ new.stage = "tokens"
  BY <1>2
<1>5. \A f \in Fields : x[f] = IF f \in {"stage", "client"} THEN new[f] ELSE y[f]
  BY <1>2, <1>3, <1>4, Stepped DEF RequestOK, Fields
<1>6. x.stage = "tokens" /\ x.response = y.response /\ x.copy = y.copy /\ x.now = y.now /\ x.session = y.session
  BY <1>4, <1>5 DEF Fields
<1>7. CoverOK(x)
  BY <1>3, <1>6 DEF CoverOK, TokensOK, FreshOK, Inside
<1>8. CoverOK(x)'
  BY <1>3, <1>7 DEF CoverOK, TokensOK, FreshOK, Covered, Issued, Outlives, Smooth, Inside
<1>9. Grows /\ Later
  BY <1>3, StillGrows, StillLater DEF IInv
<1>10. PICK t : t = tok
  OBVIOUS
<1>11. tok' = t /\ Known(t.access) /\ Known(t.refresh) /\ Covered(t.access) /\ Covered(t.refresh)
  BY <1>10 DEF IInv, ClientInv, CoverInv
<1>12. \A s \in DOMAIN sessions' : Smooth(s)' => sessions'[s].exp <= clock + RefreshTtl
  BY <1>3 DEF CoverInv, Smooth
<1>. QED
  BY <1>3, <1>8, <1>9, <1>11, <1>12, CoverMoves

(* A session begins with the expiration that its copy has.                 *)
LEMMA CreateSessionCover ==
    ASSUME IInv, CoverInv, NEW q \in Requesters, CreateSession(q), tok' = tok
    PROVE  CoverInv'
<1>1. PICK y, h, r, n, row :
        /\ y = srv[q] /\ h = NewCsrf /\ r = Over(h, y.response) /\ n = Len(sessions) + 1
        /\ row = [valid |-> TRUE, exp |-> SetTTL(RefreshTtl, clock)]
  OBVIOUS
<1>2. PICK now : now = clock
  OBVIOUS
<1>3. PICK new, x :
        /\ new = Over([stage |-> "client", now |-> now, session |-> n, copy |-> row], [response |-> r])
        /\ x = Over(new, y)
  OBVIOUS
<1>4. /\ RequestOK(y) /\ CoverOK(y) /\ srv' = [srv EXCEPT ![q] = x] /\ sessions' = Append(sessions, row)
      /\ y.stage = "arrive" /\ UNCHANGED <<clock, ended, overlapped, stale>>
  BY <1>1, <1>2, <1>3 DEF IInv, RequestInv, CoverInv, CreateSession, PassesCsrf, At, Step, Headers
<1>5. /\ row \in Row /\ row.exp = clock + RefreshTtl
      /\ sessions \in Seq(Row) /\ Len(sessions) \in Nat /\ DOMAIN sessions = 1 .. Len(sessions)
  BY <1>1, TtlAssumption, LenProperties DEF Row, SetTTL, IInv, TableInv
<1>6. /\ sessions' \in Seq(Row) /\ Len(sessions') = n /\ DOMAIN sessions' = 1 .. n /\ sessions'[n] = row
      /\ \A i \in DOMAIN sessions : sessions'[i] = sessions[i]
  BY <1>1, <1>4, <1>5, AppendRow, AppendProperties
<1>7. Grows
  BY <1>1, <1>4, <1>5, <1>6 DEF Grows
<1>8. Later
  BY <1>4, <1>6, RowTimes DEF IInv, Later
<1>9. /\ DOMAIN new = {"stage", "now", "session", "copy", "response"}
      /\ new.stage = "client" /\ new.now = now /\ new.session = n /\ new.copy = row /\ new.response = r
  BY <1>3, OverSession
<1>10. \A f \in Fields : x[f] = IF f \in DOMAIN new THEN new[f] ELSE y[f]
  BY <1>3, <1>4, <1>9, Stepped DEF RequestOK, Fields
<1>11. x.stage = "client" /\ x.session = n /\ x.now = clock /\ x.copy = row /\ x.response = r
  BY <1>2, <1>9, <1>10 DEF Fields
<1>12. FreshOK(x)'
  BY <1>4, <1>6, <1>11 DEF FreshOK
<1>13. TokensOK(x)'
  <2>1. TokensOK(y)'
    BY <1>4, <1>7, <1>8, TokensKept DEF CoverOK
  <2>2. r.access = y.response.access /\ r.refresh = y.response.refresh
    BY <1>1, <1>4, CsrfOnly
  <2>. QED
    BY <1>4, <1>11, <2>1, <2>2 DEF TokensOK
<1>14. CoverOK(x)'
  BY <1>12, <1>13 DEF CoverOK
<1>15. \A s \in DOMAIN sessions' : Smooth(s)' => sessions'[s].exp <= clock + RefreshTtl
  <2>. SUFFICES ASSUME NEW s \in DOMAIN sessions'
                PROVE  Smooth(s)' => sessions'[s].exp <= clock + RefreshTtl
    OBVIOUS
  <2>1. CASE s = n
    BY <1>5, <1>6, <2>1 DEF Row
  <2>2. CASE s \in DOMAIN sessions
    BY <1>4, <1>6, <2>2 DEF CoverInv, Smooth
  <2>. QED
    BY <1>1, <1>5, <1>6, <2>1, <2>2
<1>16. PICK t : t = tok
  OBVIOUS
<1>17. tok' = t /\ Known(t.access) /\ Known(t.refresh) /\ Covered(t.access) /\ Covered(t.refresh)
  BY <1>16 DEF IInv, ClientInv, CoverInv
<1>. QED
  BY <1>4, <1>6, <1>7, <1>8, <1>14, <1>15, <1>17, CoverMoves

LEMMA FindSessionCover ==
    ASSUME IInv, CoverInv, NEW q \in Requesters, FindSession(q), tok' = tok
    PROVE  CoverInv'
<1>1. PICK y, h, r, n, row :
        /\ y = srv[q] /\ h = NewCsrf /\ r = Over(h, y.response) /\ n = TokenOf(y.request).session
        /\ row = sessions[n]
  OBVIOUS
<1>2. PICK now : now = clock
  OBVIOUS
<1>3. PICK new, x :
        /\ new = Over([stage |-> "client", now |-> now, session |-> n, copy |-> row], [response |-> r])
        /\ x = Over(new, y)
  OBVIOUS
<1>4. /\ RequestOK(y) /\ CoverOK(y) /\ srv' = [srv EXCEPT ![q] = x] /\ y.stage = "arrive"
      /\ UNCHANGED <<clock, ended, sessions, stale>> /\ overlapped \subseteq overlapped'
  BY <1>1, <1>2, <1>3 DEF IInv, RequestInv, CoverInv, FindSession, Step, Headers, PassesCsrf, At
<1>5. Grows /\ Later
  BY <1>4, StillLater, LenProperties DEF Grows, IInv, TableInv
<1>6. /\ DOMAIN new = {"stage", "now", "session", "copy", "response"}
      /\ new.stage = "client" /\ new.now = now /\ new.session = n /\ new.copy = row /\ new.response = r
  BY <1>3, OverSession
<1>7. \A f \in Fields : x[f] = IF f \in DOMAIN new THEN new[f] ELSE y[f]
  BY <1>3, <1>4, <1>6, Stepped DEF RequestOK, Fields
<1>8. x.stage = "client" /\ x.session = n /\ x.now = clock /\ x.copy = row /\ x.response = r
  BY <1>2, <1>6, <1>7 DEF Fields
<1>9. FreshOK(x)'
  BY <1>1, <1>4, <1>8 DEF FreshOK
<1>10. TokensOK(x)'
  <2>1. TokensOK(y)'
    BY <1>4, <1>5, TokensKept DEF CoverOK
  <2>2. r.access = y.response.access /\ r.refresh = y.response.refresh
    BY <1>1, <1>4, CsrfOnly
  <2>. QED
    BY <1>4, <1>8, <2>1, <2>2 DEF TokensOK
<1>11. CoverOK(x)'
  BY <1>9, <1>10 DEF CoverOK
<1>12. PICK t : t = tok
  OBVIOUS
<1>13. tok' = t /\ Known(t.access) /\ Known(t.refresh) /\ Covered(t.access) /\ Covered(t.refresh)
  BY <1>12 DEF IInv, ClientInv, CoverInv
<1>14. \A s \in DOMAIN sessions' : Smooth(s)' => sessions'[s].exp <= clock + RefreshTtl
  BY <1>4 DEF CoverInv, Smooth
<1>. QED
  BY <1>4, <1>5, <1>11, <1>13, <1>14, CoverMoves

(* The rows keep their expiration when they become invalid.                *)
SameTimes ==
    /\ sessions \in Seq(Row) /\ sessions' \in Seq(Row) /\ DOMAIN sessions' = DOMAIN sessions
    /\ \A s \in DOMAIN sessions : sessions'[s].exp = sessions[s].exp

LEMMA SameLater ==
    ASSUME TableInv, SameTimes, ended \subseteq ended', UNCHANGED <<overlapped, stale>>
    PROVE  Grows /\ Later
<1>1. Len(sessions') = Len(sessions) /\ Len(sessions) \in Nat
  BY LenProperties DEF SameTimes
<1>2. Later
  BY RowTimes DEF Later, SameTimes
<1>. QED
  BY <1>1, <1>2 DEF Grows, SameTimes

LEMMA InvalidateSessionCover ==
    ASSUME IInv, CoverInv, NEW q \in Requesters, InvalidateSession(q), tok' = tok
    PROVE  CoverInv'
<1>1. PICK y, new, x : y = srv[q] /\ new = [stage |-> "handler"] /\ x = Over(new, y)
  OBVIOUS
<1>2. /\ RequestOK(y) /\ CoverOK(y) /\ y.stage = "logout" /\ srv' = [srv EXCEPT ![q] = x]
      /\ UNCHANGED <<clock, overlapped, stale>> /\ ended \subseteq ended'
      /\ sessions' = [sessions EXCEPT ![y.session].valid = FALSE]
  BY <1>1 DEF IInv, RequestInv, CoverInv, InvalidateSession, At, Step
<1>3. /\ y.session # 0 /\ y.session \in DOMAIN sessions /\ sessions \in Seq(Row)
  <2>1. Inside(y) /\ y.session # 0
    BY <1>2 DEF RequestOK, SchemaOK, Inside
  <2>. QED
    BY <1>2, <2>1, LenProperties DEF RequestOK, IInv, TableInv
<1>4. SameTimes
  <2>1. PICK row : row = [sessions[y.session] EXCEPT !.valid = FALSE]
    OBVIOUS
  <2>2. sessions[y.session] \in Row
    BY <1>3
  <2>3. row \in Row /\ row.exp = sessions[y.session].exp
    BY <2>1, <2>2 DEF Row
  <2>4. sessions' = [sessions EXCEPT ![y.session] = row]
    BY <1>2, <2>1
  <2>5. sessions' \in Seq(Row) /\ DOMAIN sessions' = DOMAIN sessions
    BY <1>3, <2>3, <2>4, ExceptSeq
  <2>. QED
    BY <1>3, <2>3, <2>4, <2>5 DEF SameTimes
<1>5. Grows /\ Later
  BY <1>2, <1>4, SameLater DEF IInv
<1>6. \A f \in Fields : x[f] = IF f \in {"stage"} THEN new[f] ELSE y[f]
  <2>1. DOMAIN new = {"stage"} /\ x = Over(new, y)
    BY <1>1
  <2>. QED
    BY <1>2, <2>1, Stepped DEF RequestOK, Fields
<1>7. x.stage = "handler" /\ x.response = y.response /\ x.session = y.session /\ x.now = y.now
  BY <1>1, <1>6 DEF Fields
<1>8. CoverOK(x)'
  <2>1. TokensOK(y)'
    BY <1>2, <1>5, TokensKept DEF CoverOK
  <2>2. TokensOK(x)'
    BY <1>2, <1>7, <2>1 DEF TokensOK
  <2>3. FreshOK(x)'
    BY <1>2, <1>7 DEF CoverOK, FreshOK, Smooth, Inside
  <2>. QED
    BY <2>2, <2>3 DEF CoverOK
<1>9. PICK t : t = tok
  OBVIOUS
<1>10. tok' = t /\ Known(t.access) /\ Known(t.refresh) /\ Covered(t.access) /\ Covered(t.refresh)
  BY <1>9 DEF IInv, ClientInv, CoverInv
<1>11. \A s \in DOMAIN sessions' : Smooth(s)' => sessions'[s].exp <= clock + RefreshTtl
  BY <1>2, <1>4 DEF CoverInv, SameTimes, Smooth
<1>. QED
  BY <1>2, <1>4, <1>5, <1>8, <1>10, <1>11, CoverMoves DEF SameTimes

(* A new access token is covered by the session as it is, or the session   *)
(* is about to be prolonged.                                               *)
LEMMA GenTokensCover ==
    ASSUME Prolongs, IInv, CoverInv, NEW q \in Requesters, GenTokens(q), tok' = tok
    PROVE  CoverInv'
<1>1. PICK y, c, h :
        /\ y = srv[q] /\ c = [y.copy EXCEPT !.exp = SetTTL(RefreshTtl, clock)]
        /\ h = [access |-> GenToken("access", AccessTtl, y.session, y.request.tenancy, clock)]
  OBVIOUS
<1>2. RequestOK(y) /\ CoverOK(y) /\ y.stage = "tokens" /\ Still /\ stale' = stale
  BY <1>1 DEF IInv, RequestInv, CoverInv, GenTokens, At, Still
<1>3. y.copy \in Row /\ y.copy.exp \in Int /\ c.exp = clock + RefreshTtl
  BY <1>1, <1>2 DEF RequestOK, Row, SetTTL
<1>4. Inside(y) /\ y.session # 0 /\ y.session \in DOMAIN sessions /\ sessions[y.session].exp \in Int
  <2>1. Inside(y) /\ y.session # 0
    BY <1>2 DEF RequestOK, SchemaOK, Inside
  <2>. QED
    BY <1>2, <2>1, LenProperties, RowTimes DEF RequestOK, IInv, TableInv
<1>5. clock \in Nat /\ AccessTtl \in Nat /\ RefreshTtl \in Nat /\ AccessTtl <= RefreshTtl
  BY TtlAssumption DEF IInv, TableInv, Prolongs
<1>6. DOMAIN h = {"access"} /\ h.access.session = y.session /\ h.access.exp = clock + AccessTtl /\ Issued(h.access)
  BY <1>1, <1>5 DEF GenToken, SetTTL, Issued
<1>7. PICK new, g :
        /\ srv' = [srv EXCEPT ![q] = Over(new, y)]
        /\ \/ new = [stage |-> "logout"]
           \/ /\ g \in {h, <<>>}
              /\ new = Over([stage |-> "prolong", copy |-> c], [response |-> Over(g, y.response)])
           \/ /\ g = <<>> \/ (g = h /\ ~(SetTTL(AccessTtl, y.now) > y.copy.exp))
              /\ new = Over([stage |-> "handler"], [response |-> Over(g, y.response)])
  <2>1. CASE Path(q) = LogoutPath
    BY <1>1, <2>1 DEF GenTokens, Step
  <2>2. CASE Path(q) # LogoutPath
    <3>1. PICK refresh, access :
            /\ refresh = IF IsLogin(q) THEN ~DisableRefresh ELSE RegeneratesRefresh(y.request, y.copy, y.now)
            /\ access = IF IsLogin(q) THEN DisableRefresh ELSE RegeneratesAccess(y.request, y.now)
      OBVIOUS
    <3>2. PICK g : g = IF access THEN h ELSE <<>>
      OBVIOUS
    <3>3. srv' = [srv EXCEPT ![q] = Over(Over(IF refresh THEN [stage |-> "prolong", copy |-> c] ELSE [stage |-> "handler"],
                                              [response |-> Over(g, y.response)]), y)]
      BY <1>1, <2>2, <3>1, <3>2 DEF GenTokens, Step, Headers, NewAccess
    <3>4. CASE refresh
      BY <3>2, <3>3, <3>4
    <3>5. CASE ~refresh
      <4>1. ~(SetTTL(AccessTtl, y.now) > y.copy.exp)
        BY <3>1, <3>5 DEF Prolongs, RegeneratesRefresh
      <4>. QED
        BY <3>2, <3>3, <3>5, <4>1
    <3>. QED
      BY <3>4, <3>5
  <2>. QED
    BY <2>1, <2>2
<1>8. PICK r, x : r = Over(g, y.response) /\ x = Over(new, y)
  OBVIOUS
<1>9. /\ Issued(y.response.access) /\ Covered(y.response.refresh) /\ ~Outlives(y.response.access)
  BY <1>2 DEF CoverOK, TokensOK
<1>10. CASE new = [stage |-> "logout"]
  <2>1. DOMAIN new = {"stage"} /\ new.stage = "logout"
    BY <1>10
  <2>2. \A f \in Fields : x[f] = IF f \in {"stage"} THEN new[f] ELSE y[f]
    BY <1>2, <1>8, <2>1, Stepped DEF RequestOK, Fields
  <2>3. x.stage = "logout" /\ x.response = y.response /\ x.session = y.session /\ x.now = y.now
    BY <2>1, <2>2 DEF Fields
  <2>4. CoverOK(x)
    BY <1>2, <1>4, <1>9, <2>3 DEF CoverOK, TokensOK, FreshOK
  <2>. QED
    BY <1>2, <1>7, <1>8, <2>4, StillServed
<1>11. ASSUME g \in {h, <<>>}
       PROVE  r.refresh = y.response.refresh /\ r.access = IF g = h THEN h.access ELSE y.response.access
  <2>1. (g = h /\ DOMAIN g = {"access"}) \/ (g # h /\ DOMAIN g = {})
    BY <1>6, <1>11
  <2>. QED
    BY <1>2, <1>8, <2>1, SetHeaders DEF RequestOK, ResponseFields
<1>12. CASE g \in {h, <<>>} /\ new = Over([stage |-> "prolong", copy |-> c], [response |-> Over(g, y.response)])
  <2>1. DOMAIN new = {"stage", "copy", "response"} /\ new.stage = "prolong" /\ new.copy = c /\ new.response = r
    BY <1>8, <1>12, OverCopy
  <2>2. \A f \in Fields : x[f] = IF f \in {"stage", "copy", "response"} THEN new[f] ELSE y[f]
    BY <1>2, <1>8, <2>1, Stepped DEF RequestOK, Fields
  <2>3. x.stage = "prolong" /\ x.response = r /\ x.copy = c /\ x.session = y.session /\ x.now = y.now
    BY <2>1, <2>2 DEF Fields
  <2>4. TokensOK(x)
    BY <1>3, <1>5, <1>6, <1>9, <1>11, <1>12, <2>3 DEF TokensOK
  <2>5. FreshOK(x)
    BY <1>2, <1>3, <1>4, <2>3 DEF CoverOK, FreshOK
  <2>. QED
    BY <1>2, <1>7, <1>8, <2>4, <2>5, StillServed DEF CoverOK
<1>13. CASE /\ g = <<>> \/ (g = h /\ ~(SetTTL(AccessTtl, y.now) > y.copy.exp))
            /\ new = Over([stage |-> "handler"], [response |-> Over(g, y.response)])
  <2>1. DOMAIN new = {"stage", "response"} /\ new.stage = "handler" /\ new.response = r
    BY <1>8, <1>13, OverStage
  <2>2. \A f \in Fields : x[f] = IF f \in {"stage", "response"} THEN new[f] ELSE y[f]
    BY <1>2, <1>8, <2>1, Stepped DEF RequestOK, Fields
  <2>3. x.stage = "handler" /\ x.response = r /\ x.session = y.session /\ x.now = y.now
    BY <2>1, <2>2 DEF Fields
  <2>4. g = h => ~Outlives(h.access)
    <3>. SUFFICES ASSUME g = h, Smooth(y.session)
                  PROVE  ~(h.access.exp > sessions[y.session].exp)
      BY <1>6 DEF Outlives
    <3>1. y.now = clock /\ y.copy.exp = sessions[y.session].exp
      BY <1>2, <1>4 DEF CoverOK, FreshOK
    <3>2. ~(SetTTL(AccessTtl, y.now) > y.copy.exp)
      BY <1>6, <1>13
    <3>. QED
      BY <1>6, <3>1, <3>2 DEF SetTTL
  <2>5. TokensOK(x)
    BY <1>5, <1>6, <1>9, <1>11, <1>13, <2>3, <2>4 DEF TokensOK
  <2>6. FreshOK(x)
    BY <1>2, <1>4, <2>3 DEF CoverOK, FreshOK
  <2>. QED
    BY <1>2, <1>7, <1>8, <2>5, <2>6, StillServed DEF CoverOK
<1>. QED
  BY <1>7, <1>10, <1>12, <1>13

(* The session lives as long as the tokens that are issued with it.        *)
LEMMA UpdateSessionExpirationCover ==
    ASSUME Prolongs, IInv, CoverInv, NEW q \in Requesters, UpdateSessionExpiration(q), tok' = tok
    PROVE  CoverInv'
<1>1. PICK y, a, b :
        /\ y = srv[q]
        /\ a = [access |-> GenToken("access", AccessTtl, y.session, y.request.tenancy, clock)]
        /\ b = [refresh |-> GenToken("refresh", RefreshTtl, y.session, y.request.tenancy, clock)]
  OBVIOUS
<1>2. PICK g, h, r, new, x :
        /\ g \in {a, <<>>} /\ h = Over(b, g) /\ r = Over(h, y.response)
        /\ new = Over([stage |-> "handler"], [response |-> r]) /\ x = Over(new, y)
        /\ srv' = [srv EXCEPT ![q] = x]
  BY <1>1 DEF UpdateSessionExpiration, Step, Headers, NewAccess, NewRefresh
<1>3. /\ RequestOK(y) /\ CoverOK(y) /\ y.stage = "prolong" /\ UNCHANGED <<clock, ended, overlapped, stale>>
      /\ sessions' = [sessions EXCEPT ![y.session].exp = y.copy.exp]
  BY <1>1 DEF IInv, RequestInv, CoverInv, UpdateSessionExpiration, At
<1>4. /\ Inside(y) /\ y.session # 0 /\ y.session \in DOMAIN sessions
      /\ sessions \in Seq(Row) /\ Len(sessions) \in Nat /\ DOMAIN sessions = 1 .. Len(sessions)
  <2>1. Inside(y) /\ y.session # 0
    BY <1>3 DEF RequestOK, SchemaOK, Inside
  <2>. QED
    BY <1>3, <2>1, LenProperties DEF RequestOK, IInv, TableInv
<1>5. /\ sessions' \in Seq(Row) /\ Len(sessions') = Len(sessions) /\ DOMAIN sessions' = DOMAIN sessions
      /\ sessions'[y.session].exp = y.copy.exp /\ y.copy.exp \in Int
      /\ \A s \in DOMAIN sessions \ {y.session} : sessions'[s] = sessions[s]
  <2>1. PICK row : row = [sessions[y.session] EXCEPT !.exp = y.copy.exp]
    OBVIOUS
  <2>2. sessions[y.session] \in Row /\ y.copy \in Row
    BY <1>3, <1>4 DEF RequestOK
  <2>3. row \in Row /\ row.exp = y.copy.exp /\ y.copy.exp \in Int
    BY <2>1, <2>2 DEF Row
  <2>4. sessions' = [sessions EXCEPT ![y.session] = row]
    BY <1>3, <2>1
  <2>5. sessions' \in Seq(Row) /\ Len(sessions') = Len(sessions) /\ DOMAIN sessions' = DOMAIN sessions
    BY <1>4, <2>3, <2>4, ExceptSeq
  <2>. QED
    BY <1>4, <2>3, <2>4, <2>5
<1>6. Grows
  BY <1>3, <1>4, <1>5 DEF Grows
<1>7. clock \in Nat /\ AccessTtl \in Nat /\ RefreshTtl \in Nat /\ AccessTtl <= RefreshTtl
  BY TtlAssumption DEF IInv, TableInv, Prolongs
<1>8. Smooth(y.session) => y.copy.exp = clock + RefreshTtl
  BY <1>3, <1>4 DEF CoverOK, FreshOK
<1>9. Later
  <2>. SUFFICES ASSUME NEW s \in DOMAIN sessions, Smooth(s)'
                PROVE  sessions[s].exp <= sessions'[s].exp
    BY <1>3 DEF Later
  <2>1. sessions[s].exp \in Int
    BY RowTimes DEF IInv
  <2>2. CASE s = y.session
    <3>1. Smooth(s)
      BY <1>3 DEF Smooth
    <3>2. sessions[s].exp <= clock + RefreshTtl
      BY <3>1 DEF CoverInv
    <3>. QED
      BY <1>5, <1>8, <2>2, <3>1, <3>2
  <2>3. CASE s # y.session
    BY <1>5, <2>1, <2>3
  <2>. QED
    BY <2>2, <2>3
<1>10. /\ DOMAIN a = {"access"} /\ DOMAIN b = {"refresh"}
       /\ a.access.session = y.session /\ a.access.exp = clock + AccessTtl
       /\ b.refresh.session = y.session /\ b.refresh.exp = clock + RefreshTtl
       /\ Issued(a.access) /\ Issued(b.refresh)
  BY <1>1, <1>7 DEF GenToken, SetTTL, Issued
<1>11. r.refresh = b.refresh /\ r.access \in {a.access, y.response.access}
  <2>1. DOMAIN g \subseteq {"access"} /\ ("access" \in DOMAIN g => g = a)
    BY <1>2, <1>10
  <2>2. DOMAIN h = DOMAIN b \union DOMAIN g
    BY <1>2, OverDomain
  <2>3. "refresh" \in DOMAIN h /\ h.refresh = b.refresh
    BY <1>2, <1>10, <2>2, OverNew
  <2>4. "access" \in DOMAIN h => h.access = a.access
    <3>1. "access" \in DOMAIN h => "access" \in DOMAIN g \ DOMAIN b
      BY <1>10, <2>2
    <3>. QED
      BY <1>2, <2>1, <3>1, OverOld
  <2>. QED
    BY <1>2, <1>3, <1>10, <2>1, <2>2, <2>3, <2>4, SetHeaders DEF RequestOK, ResponseFields
<1>12. DOMAIN new = {"stage", "response"} /\ new.stage = "handler" /\ new.response = r
  BY <1>2, OverStage
<1>13. \A f \in Fields : x[f] = IF f \in {"stage", "response"} THEN new[f] ELSE y[f]
  BY <1>2, <1>3, <1>12, Stepped DEF RequestOK, Fields
<1>14. x.stage = "handler" /\ x.response = r /\ x.session = y.session /\ x.now = y.now
  BY <1>12, <1>13 DEF Fields
<1>15. ASSUME NEW token, token.session = y.session, Issued(token),
              Smooth(y.session) => token.exp <= clock + RefreshTtl
       PROVE  Covered(token)'
  BY <1>3, <1>5, <1>7, <1>8, <1>15 DEF Covered, Issued, Outlives, Smooth
<1>16. Covered(r.refresh)'
  BY <1>7, <1>10, <1>11, <1>15
<1>17. Covered(r.access)'
  <2>1. PICK token : token = r.access
    OBVIOUS
  <2>2. CASE token = a.access
    BY <1>7, <1>10, <1>15, <2>1, <2>2
  <2>3. CASE token = y.response.access
    <3>1. /\ Known(token) /\ Issued(token)
          /\ Outlives(token) => token.session = y.session /\ token.exp <= y.copy.exp
      BY <1>3, <2>3 DEF RequestOK, ResponseOK, CoverOK, TokensOK
    <3>2. CASE Outlives(token)
      BY <1>8, <1>15, <2>1, <3>1, <3>2
    <3>3. CASE ~Outlives(token)
      BY <1>6, <1>9, <2>1, <3>1, <3>3, OutlivesKept DEF Covered
    <3>. QED
      BY <3>2, <3>3
  <2>. QED
    BY <1>11, <2>1, <2>2, <2>3
<1>18. TokensOK(x)'
  BY <1>14, <1>16, <1>17 DEF TokensOK, Covered
<1>19. FreshOK(x)'
  BY <1>3, <1>4, <1>14 DEF CoverOK, FreshOK, Smooth
<1>20. CoverOK(x)'
  BY <1>18, <1>19 DEF CoverOK
<1>21. \A s \in DOMAIN sessions' : Smooth(s)' => sessions'[s].exp <= clock + RefreshTtl
  <2>. SUFFICES ASSUME NEW s \in DOMAIN sessions', Smooth(s)'
                PROVE  sessions'[s].exp <= clock + RefreshTtl
    OBVIOUS
  <2>1. Smooth(s) /\ s \in DOMAIN sessions
    BY <1>3, <1>5 DEF Smooth
  <2>2. CASE s = y.session
    BY <1>5, <1>7, <1>8, <2>1, <2>2
  <2>3. CASE s # y.session
    BY <1>5, <2>1, <2>3 DEF CoverInv
  <2>. QED
    BY <2>2, <2>3
<1>22. PICK t : t = tok
  OBVIOUS
<1>23. tok' = t /\ Known(t.access) /\ Known(t.refresh) /\ Covered(t.access) /\ Covered(t.refresh)
  BY <1>22 DEF IInv, ClientInv, CoverInv
<1>24. \A s \in DOMAIN sessions : sessions'[s].exp = sessions[s].exp \/ (Inside(srv[q]) /\ s = srv[q].session)
  BY <1>1, <1>4, <1>5
<1>. QED
  BY <1>2, <1>3, <1>6, <1>9, <1>20, <1>21, <1>23, <1>24, CoverMoves

LEMMA ServerStepCover ==
    ASSUME Prolongs, IInv, CoverInv, NEW q \in Requesters, ServerStep(q), tok' = tok
    PROVE  CoverInv'
BY ReplyingCover, ServeNoAuthCover, CreateSessionCover, FindSessionCover, FindClientCover, CreateClientCover,
   GenTokensCover, UpdateSessionExpirationCover, InvalidateSessionCover DEF ServerStep

-----------------------------------------------------------------------------
(* The steps of the client, of the administrator and of the clock.         *)

LEMMA NothingCovered ==
    /\ Covered(NoToken)
    /\ \A x : ~Inside(x) /\ x.response = NoResponse => CoverOK(x)
<1>1. Covered(NoToken)
  BY DEF Covered, Issued, Outlives, NoToken
<1>2. NoResponse.access = NoToken /\ NoResponse.refresh = NoToken
  BY DEF NoResponse
<1>. QED
  BY <1>1, <1>2 DEF CoverOK, TokensOK, FreshOK, Covered

(* The request of the goroutine is gone, or there is a new one.            *)
Renewed(q) == \E x : srv' = [srv EXCEPT ![q] = x] /\ ~Inside(x) /\ x.response = NoResponse

LEMMA ConsumeRenews ==
    ASSUME NEW q, Consume(q)
    PROVE  Renewed(q)
<1>1. PICK x : x = Idle
  OBVIOUS
<1>2. srv' = [srv EXCEPT ![q] = x] /\ ~Inside(x) /\ x.response = NoResponse
  BY <1>1 DEF Consume, Idle, Inside
<1>. QED
  BY <1>2 DEF Renewed

LEMMA SendRenews ==
    ASSUME NEW q, NEW tokens, NEW frame, Send(q, tokens, frame)
    PROVE  Renewed(q)
<1>1. PICK request, dead : request = RequestOf(tokens, frame) /\ dead = TokenIsDead(request)
  OBVIOUS
<1>2. PICK x : x = [Idle EXCEPT !.stage = "arrive", !.request = request, !.dead = dead]
  OBVIOUS
<1>3. srv' = [srv EXCEPT ![q] = x]
  BY <1>1, <1>2 DEF Send
<1>4. x.stage = "arrive" /\ x.response = NoResponse
  BY <1>2 DEF Idle
<1>. QED
  BY <1>3, <1>4 DEF Renewed, Inside

LEMMA RenewedCover ==
    ASSUME IInv, CoverInv, Still, stale' = stale, NEW q \in Requesters, Renewed(q),
           NEW t, tok' = t, Known(t.access), Known(t.refresh), Covered(t.access), Covered(t.refresh)
    PROVE  CoverInv'
<1>1. PICK x : srv' = [srv EXCEPT ![q] = x] /\ ~Inside(x) /\ x.response = NoResponse
  BY DEF Renewed
<1>2. CoverOK(x)
  BY <1>1, NothingCovered
<1>. QED
  BY <1>1, <1>2, StillCover

LEMMA KeepsTokens ==
    ASSUME IInv, CoverInv, Still, stale' = stale, NEW q \in Requesters, Renewed(q), tok' = tok
    PROVE  CoverInv'
<1>1. PICK t : t = tok
  OBVIOUS
<1>2. tok' = t /\ Known(t.access) /\ Known(t.refresh) /\ Covered(t.access) /\ Covered(t.refresh)
  BY <1>1 DEF IInv, ClientInv, CoverInv
<1>. QED
  BY <1>2, RenewedCover

(* The tokens of a good response: the request that brought them is over.   *)
LEMMA AcceptingCover ==
    ASSUME IInv, CoverInv, NEW q \in Requesters, Accept(q) \/ Done(q)
    PROVE  CoverInv'
<1>1. PICK r : r = Response(q) /\ Return(q, r, FALSE)
  BY DEF Accept, Done
<1>2. Still /\ stale' = stale /\ srv[q].stage = "reply"
  BY DEF Accept, Done, Unauthorized, Refused, Received, untouched, Still, At
<1>3. Renewed(q)
  BY <1>1, ConsumeRenews DEF Return
<1>4. Known(r.access) /\ Known(r.refresh) /\ Covered(r.access) /\ Covered(r.refresh)
  <2>1. r = srv[q].response /\ RequestOK(srv[q]) /\ CoverOK(srv[q])
    BY <1>1 DEF Response, IInv, RequestInv, CoverInv
  <2>. QED
    BY <1>2, <2>1 DEF RequestOK, ResponseOK, CoverOK, TokensOK, Covered
<1>5. PICK t : t = UpdateTokens(r)
  OBVIOUS
<1>6. t.access \in {tok.access, r.access} /\ t.refresh \in {tok.refresh, r.refresh} /\ tok' = t
  BY <1>1, <1>5 DEF UpdateTokens, Return
<1>7. Known(t.access) /\ Known(t.refresh) /\ Covered(t.access) /\ Covered(t.refresh)
  BY <1>4, <1>6 DEF IInv, ClientInv, CoverInv
<1>. QED
  BY <1>2, <1>3, <1>6, <1>7, RenewedCover

LEMMA StartRefreshCover ==
    ASSUME IInv, CoverInv, NEW q \in Requesters, StartRefresh(q)
    PROVE  CoverInv'
<1>1. PICK t : t = [tok EXCEPT !.access = NoToken]
  OBVIOUS
<1>2. Still /\ stale' = stale /\ tok' = t
  BY <1>1 DEF StartRefresh, untouched, Still
<1>3. Renewed(q)
  BY SendRenews DEF StartRefresh, Push
<1>4. Known(t.access) /\ Known(t.refresh) /\ Covered(t.access) /\ Covered(t.refresh)
  BY <1>1, NothingKnown, NothingCovered DEF IInv, ClientInv, CoverInv
<1>. QED
  BY <1>2, <1>3, <1>4, RenewedCover

LEMMA ClientStepCover ==
    ASSUME IInv, CoverInv, NEW q \in Requesters, ClientStep(q)
    PROVE  CoverInv'
<1>1. CASE Accept(q) \/ Done(q)
  BY <1>1, AcceptingCover
<1>2. CASE StartRefresh(q)
  BY <1>2, StartRefreshCover
<1>3. CASE Call(q) \/ AskCsrf(q) \/ StartLogin(q)
  <2>1. Still /\ stale' = stale /\ tok' = tok
    BY <1>3 DEF Call, AskCsrf, StartLogin, untouched, Still
  <2>2. \E tokens, frame : Send(q, tokens, frame)
    BY <1>3 DEF Call, AskCsrf, StartLogin, Push
  <2>. QED
    BY <2>1, <2>2, SendRenews, KeepsTokens
<1>4. CASE DecideLogin(q) \/ DecideRefresh(q)
  <2>1. Still /\ stale' = stale /\ tok' = tok /\ Consume(q)
    BY <1>4 DEF DecideLogin, DecideRefresh, Decide, untouched, Still
  <2>. QED
    BY <2>1, ConsumeRenews, KeepsTokens
<1>5. ASSUME NEW resp, Return(q, resp, TRUE)
      PROVE  tok' = tok /\ Renewed(q)
  BY <1>5, ConsumeRenews DEF Return
<1>6. CASE GiveUp(q) \/ StopAtLogin(q) \/ Lose(q)
  <2>1. Still /\ stale' = stale
    BY <1>6 DEF GiveUp, StopAtLogin, Lose, untouched, Still
  <2>2. \E resp : Return(q, resp, TRUE)
    BY <1>6 DEF GiveUp, StopAtLogin, Lose
  <2>. QED
    BY <1>5, <2>1, <2>2, KeepsTokens
<1>7. CASE AfterCsrf(q) \/ SecondStep(q) \/ AfterLogin(q) \/ AfterRefresh(q)
  <2>1. Still /\ stale' = stale
    BY <1>7 DEF AfterCsrf, SecondStep, AfterLogin, AfterRefresh, untouched, Still
  <2>2. \/ Fail(q)
        \/ tok' = tok /\ \E tokens, frame : Send(q, tokens, frame)
    BY <1>7 DEF AfterCsrf, SecondStep, AfterLogin, AfterRefresh, Resend, Push
  <2>3. tok' = tok /\ Renewed(q)
    BY <1>5, <2>2, SendRenews DEF Fail
  <2>. QED
    BY <2>1, <2>3, KeepsTokens
<1>. QED
  BY <1>1, <1>2, <1>3, <1>4, <1>6, <1>7 DEF ClientStep

(* The requests and the tokens stay as they are.                           *)
LEMMA UndisturbedCover ==
    ASSUME IInv, CoverInv, SameTimes, ended \subseteq ended', UNCHANGED <<clock, overlapped, stale, srv, tok>>
    PROVE  CoverInv'
<1>1. Grows /\ Later
  BY SameLater DEF IInv
<1>2. ASSUME NEW q \in Requesters
      PROVE  CoverOK(srv[q])'
  <2>1. PICK y : y = srv[q] /\ RequestOK(y) /\ CoverOK(y)
    BY DEF IInv, RequestInv, CoverInv
  <2>2. TokensOK(y)'
    BY <1>1, <2>1, TokensKept DEF CoverOK
  <2>3. FreshOK(y)'
    <3>1. y.session # 0 => y.session \in DOMAIN sessions
      BY <2>1, LenProperties DEF RequestOK, IInv, TableInv
    <3>2. y.session # 0 => sessions'[y.session].exp = sessions[y.session].exp
      BY <3>1 DEF SameTimes
    <3>. QED
      BY <2>1, <3>2 DEF CoverOK, FreshOK, Smooth, Inside
  <2>. QED
    BY <2>1, <2>2, <2>3 DEF CoverOK
<1>3. PICK t : t = tok
  OBVIOUS
<1>4. Covered(t.access)' /\ Covered(t.refresh)'
  BY <1>1, <1>3, OutlivesKept DEF IInv, ClientInv, CoverInv, Covered
<1>5. \A s \in DOMAIN sessions' : Smooth(s)' => sessions'[s].exp <= clock' + RefreshTtl
  BY DEF CoverInv, SameTimes, Smooth
<1>. QED
  BY <1>2, <1>3, <1>4, <1>5 DEF CoverInv

(* The clock makes every session stale that a request knows of.            *)
LEMMA TickCover ==
    ASSUME IInv, CoverInv, Tick, tok' = tok
    PROVE  CoverInv'
<1>1. /\ clock' = clock + 1 /\ UNCHANGED <<sessions, srv, overlapped, ended>>
      /\ stale' = stale \union {s \in DOMAIN sessions : Holders(s) # {}}
  BY DEF Tick
<1>2. Grows /\ Later
  BY <1>1, StillGrows, RowTimes DEF IInv, Later
<1>3. ASSUME NEW q \in Requesters
      PROVE  CoverOK(srv[q])'
  <2>1. PICK y : y = srv[q] /\ RequestOK(y) /\ CoverOK(y)
    BY DEF IInv, RequestInv, CoverInv
  <2>2. TokensOK(y)'
    BY <1>2, <2>1, TokensKept DEF CoverOK
  <2>3. Inside(y) /\ y.session # 0 => y.session \in stale'
    <3>1. y.session # 0 => y.session \in DOMAIN sessions
      BY <2>1, LenProperties DEF RequestOK, IInv, TableInv
    <3>2. Inside(y) => q \in Holders(y.session)
      BY <2>1 DEF Holders, Inside
    <3>. QED
      BY <1>1, <3>1, <3>2
  <2>4. FreshOK(y)'
    BY <2>3 DEF FreshOK, Smooth, Inside
  <2>. QED
    BY <1>1, <2>1, <2>2, <2>4 DEF CoverOK
<1>4. PICK t : t = tok
  OBVIOUS
<1>5. Covered(t.access)' /\ Covered(t.refresh)'
  BY <1>2, <1>4, OutlivesKept DEF IInv, ClientInv, CoverInv, Covered
<1>6. \A s \in DOMAIN sessions' : Smooth(s)' => sessions'[s].exp <= clock' + RefreshTtl
  <2>. SUFFICES ASSUME NEW s \in DOMAIN sessions, Smooth(s)'
                PROVE  sessions[s].exp <= clock + 1 + RefreshTtl
    BY <1>1
  <2>1. sessions[s].exp <= clock + RefreshTtl
    BY <1>1 DEF CoverInv, Smooth
  <2>. QED
    BY <2>1, RowTimes, TtlAssumption DEF IInv, TableInv
<1>. QED
  BY <1>3, <1>4, <1>5, <1>6 DEF CoverInv

LEMMA DisturbCover ==
    ASSUME IInv, CoverInv, Disturb
    PROVE  CoverInv'
<1>1. Disturbance /\ tok' = tok
  BY DEF Disturb
<1>2. CASE InvalidateUserSessions
  <2>1. /\ sessions' = [s \in DOMAIN sessions |-> [sessions[s] EXCEPT !.valid = FALSE]]
        /\ ended \subseteq ended' /\ UNCHANGED <<clock, srv, overlapped, stale>>
    BY <1>2 DEF InvalidateUserSessions
  <2>2. sessions \in Seq(Row) /\ Len(sessions) \in Nat /\ DOMAIN sessions = 1 .. Len(sessions)
    BY LenProperties DEF IInv, TableInv
  <2>3. ASSUME NEW s \in DOMAIN sessions
        PROVE  /\ [sessions[s] EXCEPT !.valid = FALSE] \in Row
               /\ [sessions[s] EXCEPT !.valid = FALSE].exp = sessions[s].exp
    <3>1. PICK row : row = sessions[s] /\ row \in Row
      BY <2>2
    <3>2. [row EXCEPT !.valid = FALSE] \in Row /\ [row EXCEPT !.valid = FALSE].exp = row.exp
      BY <3>1 DEF Row
    <3>. QED
      BY <3>1, <3>2
  <2>4. sessions' \in [1 .. Len(sessions) -> Row]
    BY <2>1, <2>2, <2>3
  <2>5. sessions' \in Seq(Row) /\ DOMAIN sessions' = DOMAIN sessions
    BY <2>2, <2>4, SeqDef
  <2>6. SameTimes
    BY <2>1, <2>2, <2>3, <2>5 DEF SameTimes
  <2>. QED
    BY <1>1, <2>1, <2>6, UndisturbedCover
<1>3. CASE SetBlocked
  <2>1. UNCHANGED <<clock, sessions, ended, overlapped, stale, srv>>
    BY <1>3 DEF SetBlocked
  <2>2. SameTimes
    BY <2>1 DEF SameTimes, IInv, TableInv
  <2>. QED
    BY <1>1, <2>1, <2>2, UndisturbedCover
<1>4. CASE Tick
  BY <1>1, <1>4, TickCover
<1>5. CASE \E q \in Requesters : RejectEarly(q) \/ DatabaseFails(q)
  BY <1>1, <1>5, ReplyingCover
<1>6. CASE \E q \in Requesters : CreateClientFails(q)
  BY <1>1, <1>6, CreateClientFailsCover
<1>. QED
  BY <1>1, <1>2, <1>3, <1>4, <1>5, <1>6 DEF Disturbance

LEMMA CoverInit ==
    ASSUME Init
    PROVE  CoverInv
<1>1. \A s \in DOMAIN sessions : FALSE
  BY DEF Init, InitServer
<1>2. ASSUME NEW q \in Requesters
      PROVE  CoverOK(srv[q])
  <2>1. srv[q].stage = "none" /\ srv[q].response = NoResponse
    BY DEF Init, InitServer, Idle
  <2>. QED
    BY <2>1, NothingCovered DEF Inside
<1>3. tok.access = NoToken /\ tok.refresh = NoToken
  BY DEF Init
<1>. QED
  BY <1>1, <1>2, <1>3, NothingCovered DEF CoverInv

LEMMA CoverNext ==
    ASSUME Prolongs, IInv, CoverInv, [Next]_vars
    PROVE  CoverInv'
<1>1. ASSUME NEW q \in Requesters, ClientStep(q)
      PROVE  CoverInv'
  BY <1>1, ClientStepCover
<1>2. ASSUME NEW q \in Requesters, Serve(q)
      PROVE  CoverInv'
  BY <1>2, ServerStepCover DEF Serve
<1>3. CASE Disturb
  BY <1>3, DisturbCover
<1>4. CASE UNCHANGED vars
  <2>1. UNCHANGED <<clock, sessions, srv, overlapped, ended, stale, tok>>
    BY <1>4 DEF vars, server, client
  <2>2. SameTimes
    BY <2>1 DEF SameTimes, IInv, TableInv
  <2>. QED
    BY <2>1, <2>2, UndisturbedCover
<1>. QED
  BY <1>1, <1>2, <1>3, <1>4 DEF Next, Finished

(* A session lives as long as the tokens that the client has of it, for    *)
(* any times to live with which an access token expires no later than its  *)
(* session would, any number of goroutines and of calls, unless requests   *)
(* of the session overlapped, took long, or could not write the new        *)
(* expiration (AuthTokenHandler.Handle, GenAccessToken, GenRefreshToken,   *)
(* UpdateSessionExpiration, updateTokens).                                 *)
THEOREM TokensAreCovered ==
    ASSUME AutoProlongateRefresh, ~DisableRefresh, AccessTtl <= RefreshTtl
    PROVE  Spec => []SessionCoversTokens
<1>1. Prolongs
  BY DEF Prolongs
<1>2. IInv /\ CoverInv => SessionCoversTokens
  <2>. SUFFICES ASSUME IInv, CoverInv, NEW token \in {tok.access, tok.refresh},
                       Live(token), token.session \notin overlapped \union stale
                PROVE  token.exp <= sessions[token.session].exp
    BY DEF SessionCoversTokens
  <2>1. Covered(token) /\ Known(token) /\ token.type # "none"
    BY DEF CoverInv, IInv, ClientInv, Live
  <2>2. token.session \in DOMAIN sessions
    BY <2>1 DEF Covered, Issued, Known
  <2>. QED
    BY <2>1, <2>2, RowTimes DEF IInv, Covered, Issued, Outlives, Smooth
<1>. QED
  BY <1>1, <1>2, InvInit, InvNext, CoverInit, CoverNext, PTL DEF Spec
=============================================================================
