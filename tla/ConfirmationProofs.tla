------------------------- MODULE ConfirmationProofs -------------------------
(***************************************************************************)
(* Proofs about Confirmation and SmsAuth: a code is guessed at less than   *)
(* MAX_TRIES times and an operation is confirmed once, for any number of   *)
(* browsers, operations, bodies, messages and failures, but for those of   *)
(* the cache that the two properties name.                                 *)
(***************************************************************************)
EXTENDS Confirmation, SequenceTheorems, TLAPS

-----------------------------------------------------------------------------
(* The inductive invariant.                                                *)

Stages == {"arrive", "sms", "send", "code", "handle", "delete"}
Kinds == {"check", "prepare_check", "failed", "cancelled"}
CachedToken == [live : BOOLEAN, exp : Nat, try : Nat, code : Nat, checksum : Users \X Contents]
Phones == {<<>>} \union {Recipient(o) : o \in Users}
TextMessage ==
    [user : Users, checksum : Users \X Contents, phone : Phones,
     provider : {ProviderOf(p) : p \in Phones}, status : {"success", "sending", "fail"}]
Requested ==
    [stage : Stages, kind : Kinds, user : Users, content : Contents, phone : Phones, code : Int,
     token : Nat, item : CachedToken \union {NoCacheToken}]

TypeOK ==
    /\ clock \in Nat
    /\ tokens \in Seq(CachedToken)
    /\ rows \in Seq(TextMessage)
    /\ guesses \in Seq(Nat) /\ Len(guesses) = Len(rows)
    /\ req \in [Requesters -> Requested \union {NoRequest}]
    /\ explicit \in BOOLEAN
    /\ operations \in [Users -> Nat]
    /\ results \in [Users -> SUBSET {"code", "success", "failed", "cancelled"}]
    /\ confirmed \in [Users -> Nat] /\ undeleted \in [Users -> Nat]

(* Only a check goes past its arrival, and one that is confirmed by SMS    *)
(* with the phone of the operation's recipient.                            *)
PathOK ==
    \A q \in Requesters :
       /\ req[q].stage \notin {"none", "arrive"} => req[q].kind = "check"
       /\ req[q].stage \in {"sms", "send", "code"} => req[q].phone = Recipient(req[q].user)

(* A message is about the request it was sent for, a token about a message *)
(* the provider took.                                                      *)
RowsOK ==
    \A s \in DOMAIN rows :
       /\ rows[s].phone = Recipient(rows[s].user)
       /\ rows[s].checksum[1] = rows[s].user

TokensOK ==
    \A t \in DOMAIN tokens :
       /\ tokens[t].code \in DOMAIN rows
       /\ tokens[t].try <= MaxTries
       /\ rows[tokens[t].code].status # "fail"
       /\ rows[tokens[t].code].checksum = tokens[t].checksum

(* A request holds the token as it was cached.                             *)
Holds(q) == req[q].stage = "code"

HoldersOK ==
    \A q \in Requesters : Holds(q) =>
       LET t == req[q].token  item == req[q].item
       IN  /\ t \in DOMAIN tokens
           /\ item.code = tokens[t].code
           /\ item.try = tokens[t].try /\ item.try < MaxTries
           /\ item.checksum = tokens[t].checksum

(* The wrong codes are counted by the one token that a message has at a    *)
(* time, whether it is in the cache or with a request, while no token of   *)
(* the message has served twice.                                           *)
LiveCode(t) == tokens[t].live /\ tokens[t].code \notin shared
HeldCode(q) == Holds(q) /\ req[q].item.code \notin shared

TriesCounted ==
    /\ \A t \in DOMAIN tokens : LiveCode(t) => guesses[tokens[t].code] < tokens[t].try
    /\ \A q \in Requesters : HeldCode(q) => guesses[req[q].item.code] < req[q].item.try

OneToken ==
    /\ \A t, u \in DOMAIN tokens :
          LiveCode(t) /\ LiveCode(u) /\ tokens[t].code = tokens[u].code => t = u
    /\ \A t \in DOMAIN tokens, q \in Requesters :
          LiveCode(t) /\ Holds(q) /\ req[q].item.code = tokens[t].code => req[q].token = t
    /\ \A q, r \in Requesters :
          HeldCode(q) /\ Holds(r) /\ req[q].item.code = req[r].item.code => q = r

(* What has been confirmed more often than its token stayed behind has no  *)
(* token any more and gets none.                                           *)
ChecksAlone ==
    \A q, r \in Requesters :
       /\ req[q].stage # "none" /\ req[q].kind = "check" /\ req[q].user \notin crowded
       /\ req[r].stage # "none" /\ req[r].kind = "check" /\ req[r].user = req[q].user
       => q = r

CalledBack == \A q \in Requesters : req[q].stage = "delete" => results[req[q].user] # {}

Spent ==
    \A o \in Users :
       /\ confirmed[o] > 0 => results[o] # {}
       /\ confirmed[o] > undeleted[o] /\ o \notin crowded =>
            /\ operations[o] = 0
            /\ \A q \in Requesters :
                  req[q].user = o /\ req[q].kind = "check" => req[q].stage = "arrive"

SmsInv ==
    /\ TypeOK /\ PathOK /\ RowsOK /\ TokensOK /\ HoldersOK /\ TriesCounted /\ OneToken
    /\ TriesBounded
OnceInv == ChecksAlone /\ CalledBack /\ Spent
IInv == SmsInv /\ OnceInv /\ ConfirmedOnce

LEMMA InvInit == Init => IInv
<1> SUFFICES ASSUME Init PROVE IInv
  OBVIOUS
<1> USE DEF Init, InitSms, NoRequest
<1>1. TypeOK
  BY DEF TypeOK
<1>2. PathOK /\ RowsOK /\ TokensOK /\ HoldersOK /\ TriesBounded
  BY DEF PathOK, RowsOK, TokensOK, HoldersOK, Holds, TriesBounded
<1>3. TriesCounted /\ OneToken
  BY DEF TriesCounted, OneToken, HeldCode, Holds
<1>4. OnceInv
  BY DEF OnceInv, ChecksAlone, CalledBack, Spent
<1>5. ConfirmedOnce
  BY DEF ConfirmedOnce, At
<1> QED
  BY <1>1, <1>2, <1>3, <1>4, <1>5 DEF IInv, SmsInv

-----------------------------------------------------------------------------
(* Types.                                                                  *)

LEMMA SentType ==
    ASSUME TypeOK, NEW q \in Requesters, req[q] \in Requested, NEW status \in {"success", "sending", "fail"},
           Sent(q, status)
    PROVE  /\ rows' \in Seq(TextMessage)
           /\ guesses' \in Seq(Nat) /\ Len(guesses') = Len(rows')
           /\ Len(rows') = Len(rows) + 1 /\ Len(rows) \in Nat
           /\ \A s \in DOMAIN rows : s \in DOMAIN rows' /\ rows'[s] = rows[s] /\ guesses'[s] = guesses[s]
           /\ rows'[Len(rows) + 1] = Row(q, status) /\ guesses'[Len(rows) + 1] = 0
           /\ DOMAIN rows' = 1 .. Len(rows) + 1 /\ DOMAIN rows = 1 .. Len(rows)
<1>1. Row(q, status) \in TextMessage
  BY DEF TextMessage, Row, hmacOfRequest, Requested
<1>2. rows \in Seq(TextMessage) /\ guesses \in Seq(Nat) /\ Len(guesses) = Len(rows)
  BY DEF TypeOK
<1>3. rows' = Append(rows, Row(q, status)) /\ guesses' = Append(guesses, 0)
  BY DEF Sent
<1> QED
  BY <1>1, <1>2, <1>3, AppendProperties

LEMMA UnsetType ==
    ASSUME TypeOK, NEW t \in DOMAIN tokens
    PROVE  /\ Unset(t) \in Seq(CachedToken) /\ Len(Unset(t)) = Len(tokens)
           /\ DOMAIN Unset(t) = DOMAIN tokens
           /\ Unset(t)[t] = [tokens[t] EXCEPT !.live = FALSE]
           /\ \A u \in DOMAIN tokens \ {t} : Unset(t)[u] = tokens[u]
<1>1. tokens \in Seq(CachedToken)
  BY DEF TypeOK
<1>2. [tokens[t] EXCEPT !.live = FALSE] \in CachedToken
  <2>1. tokens[t] \in CachedToken
    BY <1>1
  <2> QED
    BY <2>1 DEF CachedToken
<1> DEFINE e == [tokens[t] EXCEPT !.live = FALSE]
<1>3. Unset(t) = [tokens EXCEPT ![t] = e] /\ t \in 1 .. Len(tokens) /\ e \in CachedToken
  BY <1>1, <1>2 DEF Unset
<1> HIDE DEF e
<1>4. /\ Unset(t) \in Seq(CachedToken) /\ Len(Unset(t)) = Len(tokens)
      /\ \A u \in 1 .. Len(tokens) : Unset(t)[u] = IF u = t THEN e ELSE tokens[u]
  BY <1>1, <1>3, ExceptSeq
<1>5. DOMAIN Unset(t) = DOMAIN tokens /\ DOMAIN tokens = 1 .. Len(tokens)
  BY <1>1, <1>4
<1> QED
  BY <1>3, <1>4, <1>5 DEF e

LEMMA RequestType ==
    ASSUME TypeOK, NEW q \in Requesters, req[q].stage # "none"
    PROVE  req[q] \in Requested
BY DEF TypeOK, NoRequest

(* The token of a retry.                                                   *)
LEMMA RetryTokenIs ==
    ASSUME TypeOK, NEW q \in Requesters, Holds(q), HoldersOK
    PROVE  LET t == req[q].token
               n == Len(tokens) + 1
               retry == RetryToken(q, req[q].item.try + 1)
           IN  /\ t \in DOMAIN tokens /\ n \in Nat /\ DOMAIN tokens = 1 .. n - 1
               /\ retry \in Seq(CachedToken) /\ Len(retry) = n /\ DOMAIN retry = 1 .. n
               /\ retry[t] = [tokens[t] EXCEPT !.live = FALSE]
               /\ \A u \in DOMAIN tokens \ {t} : retry[u] = tokens[u]
               /\ retry[n] = CacheToken(req[q].item.try + 1, req[q].item.code, req[q].item.checksum)
<1> DEFINE t == req[q].token
<1> DEFINE n == Len(tokens) + 1
<1> DEFINE new == CacheToken(req[q].item.try + 1, req[q].item.code, req[q].item.checksum)
<1>1. t \in DOMAIN tokens /\ tokens \in Seq(CachedToken) /\ n \in Nat /\ DOMAIN tokens = 1 .. n - 1
  BY DEF TypeOK, HoldersOK
<1>2. new \in CachedToken
  <2>1. tokens[t] \in CachedToken
    BY <1>1
  <2>2. /\ req[q].item.try = tokens[t].try /\ req[q].item.code = tokens[t].code
        /\ req[q].item.checksum = tokens[t].checksum
    BY DEF HoldersOK
  <2>3. clock + TokenTtl \in Nat
    BY SmsAssumption DEF TypeOK
  <2> QED
    BY <2>1, <2>2, <2>3 DEF CacheToken, CachedToken
<1> DEFINE u0 == Unset(t)
<1>3. /\ u0 \in Seq(CachedToken) /\ Len(u0) = Len(tokens) /\ DOMAIN u0 = DOMAIN tokens
      /\ u0[t] = [tokens[t] EXCEPT !.live = FALSE]
      /\ \A u \in DOMAIN tokens \ {t} : u0[u] = tokens[u]
  BY <1>1, UnsetType
<1>4. RetryToken(q, req[q].item.try + 1) = Append(u0, new)
  BY DEF RetryToken, NextToken
<1> HIDE DEF u0, new
<1>5. /\ Append(u0, new) \in Seq(CachedToken) /\ Len(Append(u0, new)) = n
      /\ DOMAIN Append(u0, new) = 1 .. n
      /\ \A u \in 1 .. Len(tokens) : Append(u0, new)[u] = u0[u]
      /\ Append(u0, new)[n] = new
  BY <1>1, <1>2, <1>3, AppendProperties
<1> QED
  BY <1>1, <1>3, <1>4, <1>5 DEF new

(* The token that is left behind, and perhaps the one of the retry.        *)
LEMMA RetryLeaves ==
    ASSUME TypeOK, HoldersOK, NEW q \in Requesters, RetryLeavesToken(q)
    PROVE  LET n == Len(tokens) + 1
               next == CacheToken(req[q].item.try + 1, req[q].item.code, req[q].item.checksum)
           IN  /\ n \in Nat /\ DOMAIN tokens = 1 .. n - 1
               /\ tokens' \in Seq(CachedToken)
               /\ DOMAIN tokens' = 1 .. n - 1 \/ (DOMAIN tokens' = 1 .. n /\ tokens'[n] = next)
               /\ \A u \in DOMAIN tokens : tokens'[u] = tokens[u]
<1> DEFINE t == req[q].token
<1> DEFINE n == Len(tokens) + 1
<1> DEFINE new == CacheToken(req[q].item.try + 1, req[q].item.code, req[q].item.checksum)
<1>1. Holds(q) /\ tokens' \in {tokens, Append(tokens, new)}
  BY DEF RetryLeavesToken, WrongCode, At, Holds, NextToken
<1>2. t \in DOMAIN tokens /\ tokens \in Seq(CachedToken) /\ n \in Nat /\ DOMAIN tokens = 1 .. n - 1
  BY <1>1 DEF TypeOK, HoldersOK
<1>3. new \in CachedToken
  <2>1. tokens[t] \in CachedToken
    BY <1>2
  <2>2. /\ req[q].item.try = tokens[t].try /\ req[q].item.code = tokens[t].code
        /\ req[q].item.checksum = tokens[t].checksum
    BY <1>1 DEF HoldersOK
  <2>3. clock + TokenTtl \in Nat
    BY SmsAssumption DEF TypeOK
  <2> QED
    BY <2>1, <2>2, <2>3 DEF CacheToken, CachedToken
<1> HIDE DEF new
<1>4. /\ Append(tokens, new) \in Seq(CachedToken) /\ DOMAIN Append(tokens, new) = 1 .. n
      /\ \A u \in 1 .. Len(tokens) : Append(tokens, new)[u] = tokens[u]
      /\ Append(tokens, new)[n] = new
  BY <1>2, <1>3, AppendProperties
<1>5. CASE tokens' = tokens
  BY <1>2, <1>5
<1>6. CASE tokens' = Append(tokens, new)
  <2>1. /\ n \in Nat /\ DOMAIN tokens = 1 .. n - 1
        /\ tokens' \in Seq(CachedToken)
        /\ DOMAIN tokens' = 1 .. n /\ tokens'[n] = new
    BY <1>2, <1>4, <1>6
  <2>2. \A u \in DOMAIN tokens : tokens'[u] = tokens[u]
    BY <1>2, <1>4, <1>6
  <2> QED
    BY <2>1, <2>2, Zenon DEF new
<1> QED
  BY <1>1, <1>5, <1>6

LEMMA SendCodeTokens ==
    ASSUME TypeOK, NEW q \in Requesters, SendCode(q)
    PROVE  LET n == Len(tokens) + 1
           IN  /\ n \in Nat /\ DOMAIN tokens = 1 .. n - 1
               /\ tokens' \in Seq(CachedToken) /\ DOMAIN tokens' = 1 .. n
               /\ \A u \in DOMAIN tokens : tokens'[u] = tokens[u]
               /\ tokens'[n] = CacheToken(1, Len(rows) + 1, hmacOfRequest(req[q]))
               /\ tokens'[n].live /\ tokens'[n].try = 1 /\ tokens'[n].code = Len(rows) + 1
               /\ tokens'[n].checksum = <<req[q].user, req[q].content>>
<1> DEFINE new == CacheToken(1, Len(rows) + 1, hmacOfRequest(req[q]))
<1>1. req[q] \in Requested
  BY RequestType DEF SendCode, At
<1>2. new \in CachedToken
  <2>1. clock + TokenTtl \in Nat /\ Len(rows) + 1 \in Nat
    BY SmsAssumption DEF TypeOK
  <2> QED
    BY <1>1, <2>1 DEF CacheToken, CachedToken, hmacOfRequest, Requested
<1>3. tokens \in Seq(CachedToken) /\ tokens' = Append(tokens, new)
  BY DEF TypeOK, SendCode
<1>4. /\ new.live /\ new.try = 1 /\ new.code = Len(rows) + 1
      /\ new.checksum = <<req[q].user, req[q].content>>
  BY DEF CacheToken, hmacOfRequest
<1> HIDE DEF new
<1>5. /\ Len(tokens) \in Nat /\ tokens' \in Seq(CachedToken) /\ Len(tokens') = Len(tokens) + 1
      /\ \A u \in 1 .. Len(tokens) : tokens'[u] = tokens[u]
      /\ tokens'[Len(tokens) + 1] = new
  BY <1>2, <1>3, AppendProperties
<1>6. DOMAIN tokens = 1 .. Len(tokens) /\ DOMAIN tokens' = 1 .. Len(tokens')
  BY <1>3, <1>5
<1> QED
  BY <1>4, <1>5, <1>6 DEF new

(* Which steps touch the cache and the messages, and which requests hold a *)
(* token after a step.                                                     *)
Cache == <<tokens, rows, guesses, shared>>

LEMMA CacheChange ==
    ASSUME [Next]_vars
    PROVE  \/ UNCHANGED Cache
           \/ \E q \in Requesters :
                 \/ RefuseTries(q) \/ ReadToken(q) \/ RefuseCode(q) \/ RetryFails(q)
                 \/ RetryLeavesToken(q) \/ AcceptCode(q) \/ SendCode(q) \/ SendFails(q)
<1>1. ASSUME NEW o \in Users, PrepareOperation(o) PROVE UNCHANGED Cache
  BY <1>1 DEF PrepareOperation, smsVars, Cache
<1>2. ASSUME NEW q \in Requesters, Request(q) PROVE UNCHANGED Cache
  BY <1>2 DEF Request, Cache
<1>3. ASSUME NEW q \in Requesters, ServerStep(q), ~SmsStep(q) PROVE UNCHANGED Cache
  BY <1>3 DEF ServerStep, RefuseOperation, CachedPhone, CacheFails, ConfirmationCallback,
     CallbackFails, DeleteTokenFromCache, DeleteFails, Cache
<1>4. ASSUME NEW q \in Requesters, RefuseToken(q) \/ RefuseContent(q) \/ ReadDelay(q)
      PROVE  UNCHANGED Cache
  BY <1>4 DEF RefuseToken, RefuseContent, ReadDelay, Cache
<1>5. Tick \/ UNCHANGED vars => UNCHANGED Cache
  BY DEF Tick, vars, smsVars, Cache
<1> QED
  BY <1>1, <1>2, <1>3, <1>4, <1>5 DEF Next, SmsStep

(* What a step makes of the requests.                                      *)
Moved(q, r) == req' = [req EXCEPT ![q] = r]

MovedOn(q) ==
    \/ Moved(q, NoRequest)
    \/ ReadToken(q) /\ Moved(q, [req[q] EXCEPT !.stage = "code", !.item = tokens[req[q].token]])
    \/ /\ AcceptCode(q) \/ (CachedPhone(q) /\ explicit /\ req[q].kind = "check")
       /\ Moved(q, [req[q] EXCEPT !.stage = "handle"])
    \/ /\ CachedPhone(q) /\ req[q].kind = "check" /\ ~explicit
       /\ Moved(q, [req[q] EXCEPT !.stage = "sms", !.phone = Recipient(req[q].user)])
    \/ ReadDelay(q) /\ Moved(q, [req[q] EXCEPT !.stage = "send"])
    \/ /\ ConfirmationCallback(q) /\ At(q, "handle")
       /\ Moved(q, [req[q] EXCEPT !.stage = "delete"])

Arrives(q) ==
    \E o \in Users, kind \in Kinds, content \in Contents, code \in Int, token \in Nat :
       /\ Moved(q, [NoRequest EXCEPT !.stage = "arrive", !.kind = kind, !.user = o,
                                     !.content = content, !.code = code, !.token = token])
       /\ crowded' = IF kind = "check" /\ Checks(o) # {} THEN crowded \union {o} ELSE crowded

LEMMA RequestChange ==
    ASSUME TypeOK, PathOK, [Next]_vars
    PROVE  \/ UNCHANGED req /\ ~(\E q \in Requesters : Request(q) \/ ServerStep(q))
           \/ \E q \in Requesters : Request(q) /\ At(q, "none") /\ Arrives(q)
           \/ \E q \in Requesters : ServerStep(q) /\ ~At(q, "none") /\ MovedOn(q)
<1>0. req \in [Requesters -> Requested \union {NoRequest}]
  BY DEF TypeOK
<1>1. ASSUME NEW q \in Requesters, Request(q) PROVE At(q, "none") /\ Arrives(q)
  <2> DEFINE New(o, kind, content, code, token) ==
              [NoRequest EXCEPT !.stage = "arrive", !.kind = kind, !.user = o,
                                !.content = content, !.code = code, !.token = token]
  <2> DEFINE Crowd(o, kind) == IF kind = "check" /\ Checks(o) # {} THEN crowded \union {o} ELSE crowded
  <2> DEFINE Only(o, kind, content, code) ==
              kind # "check" => made + 1 \in Reports /\ code = NoCode /\ content = CHOOSE c \in Contents : TRUE
  <2> DEFINE Tokens(code) == {0} \union (IF code = NoCode THEN {} ELSE DOMAIN tokens)
  <2>0. \E o \in Users, kind \in {"check", "prepare_check", "failed", "cancelled"},
            content \in Contents, code \in Codes :
           \E token \in Tokens(code) :
              /\ Only(o, kind, content, code)
              /\ req' = [req EXCEPT ![q] = New(o, kind, content, code, token)]
              /\ crowded' = Crowd(o, kind)
    BY <1>1, Zenon DEF Request
  <2> HIDE DEF New, Crowd, Only
  <2>1. PICK o \in Users, kind \in {"check", "prepare_check", "failed", "cancelled"},
             content \in Contents, code \in Codes :
           \E token \in Tokens(code) :
              /\ req' = [req EXCEPT ![q] = New(o, kind, content, code, token)]
              /\ crowded' = Crowd(o, kind)
    BY <2>0
  <2>2. code \in Int
    BY DEF Codes, NoCode, Guess, TypeOK
  <2>3. DOMAIN tokens \subseteq Nat /\ kind \in Kinds
    BY DEF TypeOK, Kinds
  <2>4. At(q, "none")
    BY <1>1 DEF Request
  <2> QED
    BY <2>1, <2>2, <2>3, <2>4 DEF Arrives, Moved, New, Crowd
<1>2. ASSUME NEW q \in Requesters, ServerStep(q) PROVE ~At(q, "none") /\ MovedOn(q)
  <2>1. CASE RefuseOperation(q) \/ CacheFails(q) \/ CallbackFails(q) \/ DeleteTokenFromCache(q) \/ DeleteFails(q)
    BY <2>1 DEF RefuseOperation, CacheFails, CallbackFails, DeleteTokenFromCache, DeleteFails, Confirms, Calls, Reads,
       At, Answer, MovedOn, Moved
  <2>2. CASE CachedPhone(q)
    <3>1. ~At(q, "none") /\ req[q].kind \in {"check", "prepare_check"}
      BY <2>2 DEF CachedPhone, Reads, At
    <3>2. CASE req[q].kind = "prepare_check"
      BY <2>2, <3>1, <3>2 DEF CachedPhone, Answer, MovedOn, Moved
    <3>3. CASE req[q].kind = "check" /\ explicit
      <4>1. Goto(q, "handle")
        BY <2>2, <3>3 DEF CachedPhone
      <4> QED
        BY <1>0, <2>2, <3>1, <3>3, <4>1 DEF Goto, MovedOn, Moved
    <3>4. CASE req[q].kind = "check" /\ ~explicit
      <4>1. req' = [req EXCEPT ![q].stage = "sms", ![q].phone = Recipient(req[q].user)]
        BY <2>2, <3>4 DEF CachedPhone
      <4> QED
        BY <1>0, <2>2, <3>1, <3>4, <4>1 DEF MovedOn, Moved
    <3> QED
      BY <3>1, <3>2, <3>3, <3>4
  <2>3. CASE ConfirmationCallback(q)
    <3>1. CASE req[q].kind = "check"
      <4>1. At(q, "handle") /\ Goto(q, "delete")
        BY <2>3, <3>1 DEF ConfirmationCallback, Calls
      <4> QED
        BY <1>0, <2>3, <4>1 DEF Goto, MovedOn, Moved, At
    <3>2. CASE req[q].kind # "check"
      BY <2>3, <3>2 DEF ConfirmationCallback, Calls, At, Answer, MovedOn, Moved
    <3> QED
      BY <3>1, <3>2
  <2>4. CASE RefuseToken(q) \/ RefuseTries(q) \/ RefuseContent(q) \/ RefuseCode(q) \/ RetryFails(q)
             \/ RetryLeavesToken(q) \/ SendCode(q) \/ SendFails(q)
    BY <2>4 DEF RefuseToken, RefuseTries, RefuseContent, RefuseCode, RetryFails, RetryLeavesToken, SendCode,
       SendFails, HasCode, WrongCode, At, Answer, MovedOn, Moved
  <2>5. CASE ReadToken(q)
    <3>1. ~At(q, "none") /\ req' = [req EXCEPT ![q].stage = "code", ![q].item = tokens[req[q].token]]
      BY <2>5 DEF ReadToken, HasCode, At
    <3> QED
      BY <1>0, <2>5, <3>1 DEF MovedOn, Moved
  <2>6. CASE AcceptCode(q)
    BY <1>0, <2>6 DEF AcceptCode, At, Goto, MovedOn, Moved
  <2>7. CASE ReadDelay(q)
    <3>1. At(q, "sms") /\ (Answer(q) \/ Goto(q, "send"))
      BY <2>7 DEF ReadDelay
    <3> QED
      BY <1>0, <2>7, <3>1 DEF At, Answer, Goto, MovedOn, Moved
  <2> QED
    BY <1>2, <2>1, <2>2, <2>3, <2>4, <2>5, <2>6, <2>7 DEF ServerStep, SmsStep
<1>3. ASSUME NEW o \in Users, PrepareOperation(o) PROVE UNCHANGED req
  BY <1>3 DEF PrepareOperation, smsVars
<1>4. Tick \/ UNCHANGED vars => UNCHANGED req
  BY DEF Tick, vars, smsVars
<1> QED
  BY <1>1, <1>2, <1>3, <1>4 DEF Next

LEMMA ControlChange ==
    ASSUME [Next]_vars
    PROVE  \/ UNCHANGED <<operations, results, confirmed, undeleted>>
           \/ \E o \in Users : PrepareOperation(o)
           \/ \E q \in Requesters :
                 ConfirmationCallback(q) \/ CallbackFails(q) \/ DeleteTokenFromCache(q) \/ DeleteFails(q)
<1>1. ASSUME NEW q \in Requesters, Request(q) PROVE UNCHANGED <<operations, results, confirmed, undeleted>>
  BY <1>1 DEF Request
<1>2. ASSUME NEW q \in Requesters,
             RefuseOperation(q) \/ CachedPhone(q) \/ CacheFails(q) \/ UNCHANGED confirmationVars
      PROVE  UNCHANGED <<operations, results, confirmed, undeleted>>
  BY <1>2 DEF RefuseOperation, CachedPhone, CacheFails, confirmationVars
<1>3. Tick \/ UNCHANGED vars => UNCHANGED <<operations, results, confirmed, undeleted>>
  BY DEF Tick, vars, confirmationVars
<1> QED
  BY <1>1, <1>2, <1>3 DEF Next, ServerStep

LEMMA ExplicitStays ==
    ASSUME TypeOK, [Next]_vars
    PROVE  clock' \in Nat /\ explicit' = explicit
<1>1. ASSUME NEW o \in Users, PrepareOperation(o) PROVE UNCHANGED <<clock, explicit>>
  BY <1>1 DEF PrepareOperation, smsVars
<1>2. ASSUME NEW q \in Requesters, Request(q) PROVE UNCHANGED <<clock, explicit>>
  BY <1>2 DEF Request
<1>3. ASSUME NEW q \in Requesters, ServerStep(q) PROVE UNCHANGED <<clock, explicit>>
  BY <1>3 DEF ServerStep, confirmationVars, SmsStep, RefuseOperation, CachedPhone, CacheFails,
     ConfirmationCallback, CallbackFails, DeleteTokenFromCache, DeleteFails, RefuseToken, RefuseTries,
     ReadToken, RefuseContent, RefuseCode, RetryFails, RetryLeavesToken, AcceptCode, ReadDelay, SendCode, SendFails
<1>4. Tick => clock' \in Nat /\ UNCHANGED explicit
  BY DEF Tick, confirmationVars, TypeOK
<1>5. UNCHANGED vars => UNCHANGED <<clock, explicit>>
  BY DEF vars, smsVars, confirmationVars
<1>6. clock \in Nat
  BY DEF TypeOK
<1> QED
  BY <1>1, <1>2, <1>3, <1>4, <1>5, <1>6 DEF Next

LEMMA TypeStep ==
    ASSUME TypeOK, PathOK, HoldersOK, [Next]_vars
    PROVE  TypeOK'
<1>1. clock' \in Nat /\ explicit' = explicit
  BY ExplicitStays
<1>2. req' \in [Requesters -> Requested \union {NoRequest}]
  <2>0. req \in [Requesters -> Requested \union {NoRequest}]
    BY DEF TypeOK
  <2>1. ASSUME NEW q \in Requesters, Arrives(q)
        PROVE  req' \in [Requesters -> Requested \union {NoRequest}]
    <3>1. PICK r \in Requested : Moved(q, r)
      <4>1. PICK o \in Users, kind \in Kinds, content \in Contents, code \in Int, token \in Nat :
               Moved(q, [NoRequest EXCEPT !.stage = "arrive", !.kind = kind, !.user = o,
                                          !.content = content, !.code = code, !.token = token])
        BY <2>1 DEF Arrives
      <4>2. [NoRequest EXCEPT !.stage = "arrive", !.kind = kind, !.user = o,
               !.content = content, !.code = code, !.token = token] \in Requested
        BY DEF NoRequest, Requested, Stages, Phones
      <4> QED
        BY <4>1, <4>2
    <3> QED
      BY <2>0, <3>1 DEF Moved
  <2>2. ASSUME NEW q \in Requesters, ~At(q, "none"), MovedOn(q)
        PROVE  req' \in [Requesters -> Requested \union {NoRequest}]
    <3>1. req[q] \in Requested
      BY <2>2, RequestType DEF At
    <3>2. ASSUME NEW stage \in Stages, Moved(q, [req[q] EXCEPT !.stage = stage])
          PROVE  req' \in [Requesters -> Requested \union {NoRequest}]
      <4>1. [req[q] EXCEPT !.stage = stage] \in Requested
        BY <3>1 DEF Requested
      <4> QED
        BY <2>0, <3>2, <4>1 DEF Moved
    <3>3. CASE Moved(q, NoRequest)
      BY <2>0, <3>3 DEF Moved
    <3>4. CASE ReadToken(q) /\ Moved(q, [req[q] EXCEPT !.stage = "code", !.item = tokens[req[q].token]])
      <4>1. tokens[req[q].token] \in CachedToken
        BY <3>4 DEF ReadToken, Cached, TypeOK
      <4>2. [req[q] EXCEPT !.stage = "code", !.item = tokens[req[q].token]] \in Requested
        BY <3>1, <4>1 DEF Requested, Stages
      <4> QED
        BY <2>0, <3>4, <4>2 DEF Moved
    <3>5. CASE Moved(q, [req[q] EXCEPT !.stage = "sms", !.phone = Recipient(req[q].user)])
      <4>1. [req[q] EXCEPT !.stage = "sms", !.phone = Recipient(req[q].user)] \in Requested
        BY <3>1 DEF Requested, Stages, Phones
      <4> QED
        BY <2>0, <3>5, <4>1 DEF Moved
    <3>6. {"handle", "send", "delete"} \subseteq Stages
      BY DEF Stages
    <3> QED
      BY <2>2, <3>2, <3>3, <3>4, <3>5, <3>6 DEF MovedOn
  <2> QED
    BY <2>0, <2>1, <2>2, RequestChange
<1>3. /\ tokens' \in Seq(CachedToken)
      /\ rows' \in Seq(TextMessage)
      /\ guesses' \in Seq(Nat) /\ Len(guesses') = Len(rows')
  <2>0. /\ tokens \in Seq(CachedToken) /\ rows \in Seq(TextMessage)
        /\ guesses \in Seq(Nat) /\ Len(guesses) = Len(rows)
    BY DEF TypeOK
  <2>2. ASSUME NEW q \in Requesters, RefuseTries(q) \/ AcceptCode(q)
        PROVE  tokens' \in Seq(CachedToken) /\ UNCHANGED <<rows, guesses>>
    <3>1. req[q].token \in DOMAIN tokens /\ tokens' \in {tokens, Unset(req[q].token)}
      BY <2>2 DEF RefuseTries, AcceptCode, Cached, HoldersOK, Holds, At
    <3> QED
      BY <2>0, <2>2, <3>1, UnsetType DEF RefuseTries, AcceptCode
  <2>3. ASSUME NEW q \in Requesters, ReadToken(q) PROVE UNCHANGED <<tokens, rows, guesses>>
    BY <2>3 DEF ReadToken
  <2>4. ASSUME NEW q \in Requesters, RefuseCode(q) \/ RetryFails(q) \/ RetryLeavesToken(q)
        PROVE  /\ tokens' \in Seq(CachedToken) /\ rows' = rows
               /\ guesses' \in Seq(Nat) /\ Len(guesses') = Len(guesses)
    <3>1. Holds(q) /\ Counted(q) /\ rows' = rows
      BY <2>4 DEF RefuseCode, RetryFails, RetryLeavesToken, WrongCode, At, Holds
    <3>2. tokens' \in Seq(CachedToken)
      <4>1. req[q].token \in DOMAIN tokens
        BY <3>1 DEF HoldersOK
      <4>2. CASE RefuseCode(q)
        BY <3>1, <4>2, RetryTokenIs DEF RefuseCode
      <4>3. CASE RetryFails(q)
        BY <4>1, <4>3, UnsetType DEF RetryFails
      <4>4. CASE RetryLeavesToken(q)
        BY <4>4, RetryLeaves
      <4> QED
        BY <2>4, <4>2, <4>3, <4>4
    <3>3. guesses' \in Seq(Nat) /\ Len(guesses') = Len(guesses)
      <4> DEFINE c == req[q].item.code
      <4>1. guesses' = [guesses EXCEPT ![c] = guesses[c] + 1]
        BY <3>1 DEF Counted
      <4>2. CASE c \in DOMAIN guesses
        <5>1. c \in 1 .. Len(guesses) /\ guesses[c] + 1 \in Nat
          BY <2>0, <4>2
        <5> QED
          BY <2>0, <4>1, <5>1, ExceptSeq
      <4>3. CASE c \notin DOMAIN guesses
        <5>1. guesses' = guesses
          BY <2>0, <4>1, <4>3
        <5> QED
          BY <2>0, <5>1
      <4> QED
        BY <4>2, <4>3
    <3> QED
      BY <3>1, <3>2, <3>3
  <2>5. ASSUME NEW q \in Requesters, SendCode(q) \/ SendFails(q)
        PROVE  /\ tokens' \in Seq(CachedToken) /\ rows' \in Seq(TextMessage)
               /\ guesses' \in Seq(Nat) /\ Len(guesses') = Len(rows')
    <3>1. req[q] \in Requested
      BY <2>5, RequestType DEF SendCode, SendFails, At
    <3>2. \/ \E status \in {"success", "sending", "fail"} : Sent(q, status)
          \/ UNCHANGED <<rows, guesses>>
      BY <2>5 DEF SendCode, SendFails
    <3>3. rows' \in Seq(TextMessage) /\ guesses' \in Seq(Nat) /\ Len(guesses') = Len(rows')
      BY <2>0, <3>1, <3>2, SentType
    <3>4. tokens' \in Seq(CachedToken)
      BY <2>0, <2>5, SendCodeTokens DEF SendFails
    <3> QED
      BY <3>3, <3>4
  <2> DEFINE Good == /\ tokens' \in Seq(CachedToken) /\ rows' \in Seq(TextMessage)
                     /\ guesses' \in Seq(Nat) /\ Len(guesses') = Len(rows')
  <2>6. ASSUME NEW q \in Requesters, RefuseTries(q) \/ AcceptCode(q) \/ ReadToken(q) PROVE Good
    BY <2>0, <2>2, <2>3, <2>6
  <2>7. ASSUME NEW q \in Requesters, RefuseCode(q) \/ RetryFails(q) \/ RetryLeavesToken(q) PROVE Good
    BY <2>0, <2>4, <2>7
  <2>8. ASSUME NEW q \in Requesters, SendCode(q) \/ SendFails(q) PROVE Good
    BY <2>5, <2>8
  <2>9. UNCHANGED Cache => Good
    BY <2>0 DEF Cache
  <2> HIDE DEF Good
  <2>10. Good
    BY <2>6, <2>7, <2>8, <2>9, CacheChange
  <2> QED
    BY <2>10 DEF Good
<1>4. /\ operations' \in [Users -> Nat] /\ confirmed' \in [Users -> Nat] /\ undeleted' \in [Users -> Nat]
      /\ results' \in [Users -> SUBSET {"code", "success", "failed", "cancelled"}]
  <2> DEFINE Good == /\ operations' \in [Users -> Nat] /\ confirmed' \in [Users -> Nat]
                     /\ undeleted' \in [Users -> Nat]
                     /\ results' \in [Users -> SUBSET {"code", "success", "failed", "cancelled"}]
  <2>0. /\ operations \in [Users -> Nat] /\ confirmed \in [Users -> Nat] /\ undeleted \in [Users -> Nat]
        /\ results \in [Users -> SUBSET {"code", "success", "failed", "cancelled"}]
    BY DEF TypeOK
  <2>1. ASSUME NEW o \in Users, PrepareOperation(o) PROVE Good
    <3>1. PICK asked \in {0, LongTtl} : operations' = [operations EXCEPT ![o] = clock + Ttl(asked)]
      BY <2>1 DEF PrepareOperation
    <3>2. clock + Ttl(asked) \in Nat
      BY ConfirmationAssumption DEF Ttl, TypeOK
    <3> QED
      BY <2>0, <2>1, <3>1, <3>2 DEF PrepareOperation
  <2>2. ASSUME NEW q \in Requesters, ConfirmationCallback(q) \/ CallbackFails(q) PROVE Good
    <3>1. req[q] \in Requested
      BY <2>2, RequestType DEF ConfirmationCallback, CallbackFails, Calls, At
    <3>2. Status(q) \in {"code", "success", "failed", "cancelled"}
      BY <2>2, <3>1 DEF ConfirmationCallback, CallbackFails, Calls, At, Status, PathOK
    <3>3. Handled(q) => results' \in [Users -> SUBSET {"code", "success", "failed", "cancelled"}]
      <4>1. req[q].user \in Users /\ results[req[q].user] \in SUBSET {"code", "success", "failed", "cancelled"}
        BY <2>0, <3>1 DEF Requested
      <4> QED
        BY <2>0, <3>2, <4>1 DEF Handled
    <3>4. UNCHANGED <<operations, confirmed, undeleted>> /\ (Handled(q) \/ UNCHANGED results)
      BY <2>2 DEF ConfirmationCallback, CallbackFails
    <3> QED
      BY <2>0, <3>3, <3>4
  <2>3. ASSUME NEW q \in Requesters, DeleteTokenFromCache(q) \/ DeleteFails(q) PROVE Good
    <3>1. /\ operations' \in {operations, [operations EXCEPT ![req[q].user] = 0]} /\ results' = results
          /\ confirmed' = [confirmed EXCEPT ![req[q].user] = @ + 1]
          /\ undeleted' \in {undeleted, [undeleted EXCEPT ![req[q].user] = @ + 1]}
      BY <2>3 DEF DeleteTokenFromCache, DeleteFails, Confirms
    <3>2. req[q].user \in Users
      BY <2>3, RequestType DEF DeleteTokenFromCache, DeleteFails, Confirms, At, Requested
    <3> QED
      BY <2>0, <3>1, <3>2
  <2> HIDE DEF Good
  <2>4. UNCHANGED <<operations, results, confirmed, undeleted>> => Good
    BY <2>0 DEF Good
  <2>5. Good
    BY <2>1, <2>2, <2>3, <2>4, ControlChange
  <2> QED
    BY <2>5 DEF Good
<1>5. explicit \in BOOLEAN
  BY DEF TypeOK
<1> QED
  BY <1>1, <1>2, <1>3, <1>4, <1>5 DEF TypeOK

(* What a step makes of one request.                                       *)
SameRequest(q) ==
    /\ req'[q].user = req[q].user /\ req'[q].kind = req[q].kind
    /\ req'[q].content = req[q].content /\ req'[q].code = req[q].code
    /\ req'[q].token = req[q].token

GoesOn(q) ==
    \/ /\ ReadToken(q) /\ req[q].stage = "sms" /\ req'[q].stage = "code"
       /\ req'[q].phone = req[q].phone /\ req'[q].item = tokens[req[q].token]
    \/ AcceptCode(q) /\ req[q].stage = "code" /\ req'[q].stage = "handle"
    \/ /\ CachedPhone(q) /\ explicit /\ req[q].stage = "arrive" /\ req'[q].stage = "handle"
    \/ /\ CachedPhone(q) /\ ~explicit /\ req[q].stage = "arrive" /\ req'[q].stage = "sms"
       /\ req'[q].phone = Recipient(req[q].user)
    \/ /\ ReadDelay(q) /\ req[q].stage = "sms" /\ req'[q].stage = "send"
       /\ req'[q].phone = req[q].phone
    \/ ConfirmationCallback(q) /\ req[q].stage = "handle" /\ req'[q].stage = "delete"

LEMMA RequestStep ==
    ASSUME TypeOK, PathOK, [Next]_vars, NEW r \in Requesters
    PROVE  \/ req'[r] = req[r]
           \/ req'[r] = NoRequest
           \/ Request(r) /\ req[r].stage = "none" /\ req'[r].stage = "arrive" /\ Arrives(r)
           \/ ServerStep(r) /\ req[r].kind = "check" /\ SameRequest(r) /\ GoesOn(r)
<1>0. req \in [Requesters -> Requested \union {NoRequest}]
  BY DEF TypeOK
<1>1. ASSUME NEW q \in Requesters, At(q, "none"), Request(q), Arrives(q)
      PROVE  IF q = r THEN req[r].stage = "none" /\ req'[r].stage = "arrive" ELSE req'[r] = req[r]
  <2>1. PICK o \in Users, kind \in Kinds, content \in Contents, code \in Int, token \in Nat :
           Moved(q, [NoRequest EXCEPT !.stage = "arrive", !.kind = kind, !.user = o,
                                      !.content = content, !.code = code, !.token = token])
    BY <1>1 DEF Arrives
  <2>2. [NoRequest EXCEPT !.stage = "arrive", !.kind = kind, !.user = o,
                          !.content = content, !.code = code, !.token = token].stage = "arrive"
    BY DEF NoRequest
  <2> QED
    BY <1>0, <1>1, <2>1, <2>2 DEF Moved, At
<1>2. ASSUME NEW q \in Requesters, ServerStep(q), ~At(q, "none"), MovedOn(q)
      PROVE  IF q = r THEN req'[r] = NoRequest \/ (req[r].kind = "check" /\ SameRequest(r) /\ GoesOn(r))
                      ELSE req'[r] = req[r]
  <2>1. ASSUME NEW v, Moved(q, v) PROVE req'[q] = v /\ (q # r => req'[r] = req[r])
    BY <1>0, <2>1 DEF Moved
  <2>2. CASE Moved(q, NoRequest)
    BY <2>1, <2>2
  <2>3. req[q] \in Requested
    BY <1>2, RequestType DEF At
  <2>4. CASE ReadToken(q) /\ Moved(q, [req[q] EXCEPT !.stage = "code", !.item = tokens[req[q].token]])
    <3>1. req[q].stage = "sms" /\ req[q].kind = "check"
      BY <2>4 DEF ReadToken, HasCode, At, PathOK
    <3> QED
      <4>1. /\ req'[q] = [req[q] EXCEPT !.stage = "code", !.item = tokens[req[q].token]]
            /\ q # r => req'[r] = req[r]
        BY <2>1, <2>4
      <4>2. /\ SameRequest(q) /\ req'[q].stage = "code" /\ req'[q].phone = req[q].phone
            /\ req'[q].item = tokens[req[q].token]
        BY <2>3, <4>1 DEF Requested, SameRequest
      <4> QED
        BY <2>4, <3>1, <4>1, <4>2 DEF GoesOn
  <2>5. CASE /\ AcceptCode(q) \/ (CachedPhone(q) /\ explicit /\ req[q].kind = "check")
             /\ Moved(q, [req[q] EXCEPT !.stage = "handle"])
    <3>1. /\ AcceptCode(q) => req[q].stage = "code"
          /\ CachedPhone(q) => req[q].stage = "arrive"
      BY DEF AcceptCode, CachedPhone, Reads, At
    <3>2. req[q].kind = "check"
      BY <2>5, <3>1 DEF PathOK
    <3> QED
      BY <2>1, <2>3, <2>5, <3>1, <3>2 DEF Requested, SameRequest, GoesOn
  <2>6. CASE /\ CachedPhone(q) /\ req[q].kind = "check" /\ ~explicit
             /\ Moved(q, [req[q] EXCEPT !.stage = "sms", !.phone = Recipient(req[q].user)])
    <3>1. req[q].stage = "arrive"
      BY <2>6 DEF CachedPhone, Reads, At
    <3> QED
      <4>1. /\ req'[q] = [req[q] EXCEPT !.stage = "sms", !.phone = Recipient(req[q].user)]
            /\ q # r => req'[r] = req[r]
        BY <2>1, <2>6
      <4>2. SameRequest(q) /\ req'[q].stage = "sms" /\ req'[q].phone = Recipient(req[q].user)
        BY <2>3, <4>1 DEF Requested, SameRequest
      <4> QED
        BY <2>6, <3>1, <4>1, <4>2 DEF GoesOn
  <2>7. CASE ReadDelay(q) /\ Moved(q, [req[q] EXCEPT !.stage = "send"])
    <3>1. req[q].stage = "sms" /\ req[q].kind = "check"
      BY <2>7 DEF ReadDelay, At, PathOK
    <3> QED
      BY <2>1, <2>3, <2>7, <3>1 DEF Requested, SameRequest, GoesOn
  <2>8. CASE ConfirmationCallback(q) /\ At(q, "handle") /\ Moved(q, [req[q] EXCEPT !.stage = "delete"])
    <3>1. req[q].stage = "handle" /\ req[q].kind = "check"
      BY <2>8 DEF At, PathOK
    <3> QED
      BY <2>1, <2>3, <2>8, <3>1 DEF Requested, SameRequest, GoesOn
  <2> QED
    BY <1>2, <2>2, <2>4, <2>5, <2>6, <2>7, <2>8 DEF MovedOn
<1> QED
  BY <1>1, <1>2, RequestChange

(* Only ReadToken makes a request hold a token.                            *)
LEMMA NewHolder ==
    ASSUME TypeOK, PathOK, [Next]_vars, NEW r \in Requesters, Holds(r)'
    PROVE  \/ Holds(r) /\ req'[r] = req[r]
           \/ /\ ReadToken(r) /\ req'[r].token = req[r].token
              /\ req'[r].item = tokens[req[r].token]
BY RequestStep DEF Holds, NoRequest, GoesOn, SameRequest

LEMMA PathStep ==
    ASSUME TypeOK, PathOK, [Next]_vars
    PROVE  PathOK'
<1> SUFFICES ASSUME NEW r \in Requesters
             PROVE  /\ req'[r].stage \notin {"none", "arrive"} => req'[r].kind = "check"
                    /\ req'[r].stage \in {"sms", "send", "code"} => req'[r].phone = Recipient(req'[r].user)
  BY DEF PathOK
<1>1. CASE req'[r] = req[r]
  BY <1>1 DEF PathOK
<1>2. CASE req'[r] = NoRequest \/ req'[r].stage = "arrive"
  BY <1>2 DEF NoRequest
<1>3. CASE req[r].kind = "check" /\ SameRequest(r) /\ GoesOn(r)
  BY <1>3 DEF SameRequest, GoesOn, PathOK
<1> QED
  BY <1>1, <1>2, <1>3, RequestStep

-----------------------------------------------------------------------------
(* The messages and the tokens.                                            *)

(* A message stays as it was sent.                                         *)
NewRow(q, s) ==
    /\ At(q, "send") /\ s = Len(rows) + 1 /\ guesses'[s] = 0
    /\ \E status \in {"success", "sending", "fail"} :
          rows'[s] = Row(q, status) /\ (SendCode(q) => status # "fail")

LEMMA SendsRow ==
    ASSUME TypeOK, NEW q \in Requesters, SendCode(q) \/ SendFails(q)
    PROVE  /\ \A s \in DOMAIN rows : s \in DOMAIN rows' /\ rows'[s] = rows[s] /\ guesses'[s] = guesses[s]
           /\ \A s \in DOMAIN rows' \ DOMAIN rows : NewRow(q, s)
           /\ SendCode(q) => /\ Len(rows) + 1 \in DOMAIN rows' /\ Len(rows) + 1 \notin DOMAIN rows
                             /\ NewRow(q, Len(rows) + 1)
<1>1. req[q] \in Requested /\ At(q, "send")
  BY RequestType DEF SendCode, SendFails, At
<1>2. ASSUME NEW status \in {"success", "sending", "fail"}, Sent(q, status),
             SendCode(q) => status # "fail"
      PROVE  /\ \A s \in DOMAIN rows : s \in DOMAIN rows' /\ rows'[s] = rows[s] /\ guesses'[s] = guesses[s]
             /\ \A s \in DOMAIN rows' \ DOMAIN rows : NewRow(q, s)
             /\ Len(rows) + 1 \in DOMAIN rows' /\ Len(rows) + 1 \notin DOMAIN rows
             /\ NewRow(q, Len(rows) + 1)
  <2>1. /\ Len(rows) \in Nat
        /\ \A s \in DOMAIN rows : s \in DOMAIN rows' /\ rows'[s] = rows[s] /\ guesses'[s] = guesses[s]
        /\ rows'[Len(rows) + 1] = Row(q, status) /\ guesses'[Len(rows) + 1] = 0
        /\ DOMAIN rows' = 1 .. Len(rows) + 1 /\ DOMAIN rows = 1 .. Len(rows)
    BY <1>1, <1>2, SentType
  <2>2. NewRow(q, Len(rows) + 1)
    BY <1>1, <1>2, <2>1 DEF NewRow
  <2> QED
    BY <2>1, <2>2
<1>3. CASE UNCHANGED <<rows, guesses>> /\ ~SendCode(q)
  BY <1>3
<1>4. CASE SendCode(q)
  <2>1. Sent(q, "success") \/ Sent(q, "sending")
    BY <1>4 DEF SendCode
  <2> QED
    BY <1>2, <2>1
<1>5. CASE SendFails(q) /\ ~SendCode(q)
  <2>1. UNCHANGED <<rows, guesses>> \/ Sent(q, "fail") \/ Sent(q, "success")
    BY <1>5 DEF SendFails
  <2> QED
    BY <1>2, <1>3, <1>5, <2>1
<1> QED
  BY <1>4, <1>5

LEMMA RowsChange ==
    ASSUME TypeOK, [Next]_vars
    PROVE  /\ \A s \in DOMAIN rows : s \in DOMAIN rows' /\ rows'[s] = rows[s]
           /\ \A s \in DOMAIN rows' \ DOMAIN rows : \E q \in Requesters : NewRow(q, s)
<1>1. UNCHANGED rows \/ \E q \in Requesters : SendCode(q) \/ SendFails(q)
  BY CacheChange DEF Cache, RefuseTries, ReadToken, RefuseCode, RetryFails, RetryLeavesToken, AcceptCode
<1> QED
  BY <1>1, SendsRow

LEMMA RowsStep ==
    ASSUME TypeOK, PathOK, RowsOK, [Next]_vars
    PROVE  RowsOK'
<1> SUFFICES ASSUME NEW s \in DOMAIN rows'
             PROVE  rows'[s].phone = Recipient(rows'[s].user) /\ rows'[s].checksum[1] = rows'[s].user
  BY DEF RowsOK
<1>1. CASE s \in DOMAIN rows
  BY <1>1, RowsChange DEF RowsOK
<1>2. CASE s \notin DOMAIN rows
  <2>1. PICK q \in Requesters : NewRow(q, s)
    BY <1>2, RowsChange
  <2>2. PICK status \in {"success", "sending", "fail"} : rows'[s] = Row(q, status)
    BY <2>1 DEF NewRow
  <2>3. req[q].phone = Recipient(req[q].user)
    BY <2>1 DEF NewRow, PathOK, At
  <2> QED
    BY <2>2, <2>3 DEF Row, hmacOfRequest
<1> QED
  BY <1>1, <1>2

(* A token stays what it is, save that it leaves the cache; a new one is   *)
(* for a new message, or for another try of one.                           *)
SameToken(t) ==
    /\ t \in DOMAIN tokens'
    /\ tokens'[t].code = tokens[t].code /\ tokens'[t].try = tokens[t].try
    /\ tokens'[t].checksum = tokens[t].checksum
    /\ tokens'[t].live => tokens[t].live

LEMMA UnsetsToken ==
    ASSUME TypeOK, HoldersOK, NEW q \in Requesters, RefuseTries(q) \/ AcceptCode(q) \/ RetryFails(q)
    PROVE  /\ DOMAIN tokens' = DOMAIN tokens
           /\ \A t \in DOMAIN tokens : SameToken(t)
           /\ RetryFails(q) => req[q].token \in DOMAIN tokens /\ ~tokens'[req[q].token].live
<1>1. /\ req[q].token \in DOMAIN tokens /\ tokens' \in {tokens, Unset(req[q].token)}
      /\ RetryFails(q) => tokens' = Unset(req[q].token)
  BY DEF RefuseTries, AcceptCode, RetryFails, WrongCode, Cached, HoldersOK, Holds, At
<1> DEFINE t == req[q].token
<1>2. tokens \in Seq(CachedToken) /\ tokens[t] \in CachedToken
  BY <1>1 DEF TypeOK
<1>3. CASE tokens' = tokens /\ ~RetryFails(q)
  BY <1>3 DEF SameToken
<1>4. CASE tokens' = Unset(t)
  <2>1. /\ DOMAIN tokens' = DOMAIN tokens /\ tokens'[t] = [tokens[t] EXCEPT !.live = FALSE]
        /\ \A u \in DOMAIN tokens \ {t} : tokens'[u] = tokens[u]
    BY <1>1, <1>4, UnsetType
  <2>2. SameToken(t) /\ ~tokens'[t].live
    BY <1>1, <1>2, <2>1 DEF SameToken, CachedToken
  <2>3. \A u \in DOMAIN tokens \ {t} : SameToken(u)
    BY <2>1 DEF SameToken
  <2> QED
    BY <1>1, <2>1, <2>2, <2>3
<1> QED
  BY <1>1, <1>3, <1>4

LEMMA RenewsToken ==
    ASSUME TypeOK, HoldersOK, NEW q \in Requesters, RefuseCode(q)
    PROVE  LET n == Len(tokens) + 1
               item == req[q].item
           IN  /\ DOMAIN tokens' = DOMAIN tokens \union {n} /\ n \notin DOMAIN tokens
               /\ \A t \in DOMAIN tokens : SameToken(t)
               /\ req[q].token \in DOMAIN tokens /\ ~tokens'[req[q].token].live
               /\ tokens'[n].try = item.try + 1 /\ tokens'[n].code = item.code
               /\ tokens'[n].checksum = item.checksum
<1>1. Holds(q) /\ tokens' = RetryToken(q, req[q].item.try + 1)
  BY DEF RefuseCode, WrongCode, At, Holds
<1> DEFINE t == req[q].token
<1> DEFINE n == Len(tokens) + 1
<1>2. /\ t \in DOMAIN tokens /\ n \in Nat /\ DOMAIN tokens = 1 .. n - 1
      /\ DOMAIN tokens' = 1 .. n
      /\ tokens'[t] = [tokens[t] EXCEPT !.live = FALSE]
      /\ \A u \in DOMAIN tokens \ {t} : tokens'[u] = tokens[u]
      /\ tokens'[n] = CacheToken(req[q].item.try + 1, req[q].item.code, req[q].item.checksum)
  BY <1>1, RetryTokenIs
<1>3. DOMAIN tokens' = DOMAIN tokens \union {n} /\ n \notin DOMAIN tokens
  BY <1>2
<1>4. tokens[t] \in CachedToken
  BY <1>2 DEF TypeOK
<1>5. SameToken(t) /\ ~tokens'[t].live
  BY <1>2, <1>3, <1>4 DEF SameToken, CachedToken
<1>6. \A u \in DOMAIN tokens \ {t} : SameToken(u)
  BY <1>2, <1>3 DEF SameToken
<1>7. /\ tokens'[n].try = req[q].item.try + 1 /\ tokens'[n].code = req[q].item.code
      /\ tokens'[n].checksum = req[q].item.checksum
  BY <1>2 DEF CacheToken
<1> QED
  BY <1>2, <1>3, <1>5, <1>6, <1>7

LEMMA LeavesToken ==
    ASSUME TypeOK, HoldersOK, NEW q \in Requesters, RetryLeavesToken(q)
    PROVE  LET n == Len(tokens) + 1
               item == req[q].item
           IN  /\ n \notin DOMAIN tokens /\ req[q].token \in DOMAIN tokens
               /\ \A t \in DOMAIN tokens : SameToken(t)
               /\ \/ DOMAIN tokens' = DOMAIN tokens
                  \/ /\ DOMAIN tokens' = DOMAIN tokens \union {n}
                     /\ tokens'[n].try = item.try + 1 /\ tokens'[n].code = item.code
                     /\ tokens'[n].checksum = item.checksum
<1> DEFINE n == Len(tokens) + 1
<1> DEFINE next == CacheToken(req[q].item.try + 1, req[q].item.code, req[q].item.checksum)
<1>1. /\ n \in Nat /\ DOMAIN tokens = 1 .. n - 1
      /\ DOMAIN tokens' = 1 .. n - 1 \/ (DOMAIN tokens' = 1 .. n /\ tokens'[n] = next)
      /\ \A u \in DOMAIN tokens : tokens'[u] = tokens[u]
  BY RetryLeaves
<1>2. /\ n \notin DOMAIN tokens
      /\ \/ DOMAIN tokens' = DOMAIN tokens
         \/ DOMAIN tokens' = DOMAIN tokens \union {n} /\ tokens'[n] = next
  <2> HIDE DEF next, n
  <2>1. n \notin 1 .. n - 1 /\ 1 .. n = (1 .. n - 1) \union {n}
    <3> SUFFICES n >= 1
      BY <1>1
    <3> QED
      BY LenProperties DEF n, TypeOK
  <2> QED
    BY <1>1, <2>1
<1>3. \A u \in DOMAIN tokens : SameToken(u)
  BY <1>1, <1>2 DEF SameToken
<1>4. req[q].token \in DOMAIN tokens
  BY DEF RetryLeavesToken, WrongCode, At, HoldersOK, Holds
<1>5. /\ next.try = req[q].item.try + 1 /\ next.code = req[q].item.code
      /\ next.checksum = req[q].item.checksum
  BY DEF CacheToken
<1> HIDE DEF next
<1> QED
  BY <1>2, <1>3, <1>4, <1>5

LEMMA AddsToken ==
    ASSUME TypeOK, NEW q \in Requesters, SendCode(q)
    PROVE  LET n == Len(tokens) + 1
           IN  /\ DOMAIN tokens' = DOMAIN tokens \union {n} /\ n \notin DOMAIN tokens
               /\ \A t \in DOMAIN tokens : SameToken(t)
               /\ tokens'[n].try = 1 /\ tokens'[n].code = Len(rows) + 1
               /\ tokens'[n].checksum = <<req[q].user, req[q].content>>
<1> DEFINE n == Len(tokens) + 1
<1>1. /\ n \in Nat /\ DOMAIN tokens = 1 .. n - 1 /\ DOMAIN tokens' = 1 .. n
      /\ \A u \in DOMAIN tokens : tokens'[u] = tokens[u]
      /\ tokens'[n].try = 1 /\ tokens'[n].code = Len(rows) + 1
      /\ tokens'[n].checksum = <<req[q].user, req[q].content>>
  BY SendCodeTokens
<1>2. DOMAIN tokens' = DOMAIN tokens \union {n} /\ n \notin DOMAIN tokens
  BY <1>1
<1>3. \A u \in DOMAIN tokens : SameToken(u)
  BY <1>1, <1>2 DEF SameToken
<1> QED
  BY <1>1, <1>2, <1>3

LEMMA KeepsTokens ==
    ASSUME NEW q \in Requesters, UNCHANGED Cache \/ ReadToken(q) \/ SendFails(q)
    PROVE  tokens' = tokens /\ \A t \in DOMAIN tokens : SameToken(t)
BY DEF Cache, ReadToken, SendFails, SameToken

LEMMA TokensStay ==
    ASSUME TypeOK, HoldersOK, [Next]_vars
    PROVE  \A t \in DOMAIN tokens : SameToken(t)
<1>1. UNCHANGED Cache => \A t \in DOMAIN tokens : SameToken(t)
  BY DEF Cache, SameToken
<1> QED
  BY <1>1, CacheChange, UnsetsToken, RenewsToken, LeavesToken, AddsToken, KeepsTokens

LEMMA TokensStep ==
    ASSUME TypeOK, PathOK, TokensOK, HoldersOK, [Next]_vars
    PROVE  TokensOK'
<1> DEFINE Good(t) == /\ tokens'[t].code \in DOMAIN rows'
                      /\ tokens'[t].try <= MaxTries
                      /\ rows'[tokens'[t].code].status # "fail"
                      /\ rows'[tokens'[t].code].checksum = tokens'[t].checksum
<1>1. ASSUME NEW t \in DOMAIN tokens PROVE Good(t)
  <2>1. SameToken(t)
    BY TokensStay
  <2>2. rows'[tokens[t].code] = rows[tokens[t].code] /\ tokens[t].code \in DOMAIN rows'
    BY RowsChange DEF TokensOK
  <2> QED
    BY <2>1, <2>2 DEF TokensOK, SameToken
<1>2. ASSUME NEW q \in Requesters,
             RefuseCode(q) \/ (RetryLeavesToken(q) /\ Len(tokens) + 1 \in DOMAIN tokens')
      PROVE  Good(Len(tokens) + 1)
  <2> DEFINE n == Len(tokens) + 1
  <2> DEFINE t == req[q].token
  <2>1. /\ tokens'[n].try = req[q].item.try + 1 /\ tokens'[n].code = req[q].item.code
        /\ tokens'[n].checksum = req[q].item.checksum /\ t \in DOMAIN tokens
    BY <1>2, RenewsToken, LeavesToken
  <2>2. Holds(q)
    BY <1>2 DEF RefuseCode, RetryLeavesToken, WrongCode, At, Holds
  <2>3. /\ req[q].item.code = tokens[t].code /\ req[q].item.checksum = tokens[t].checksum
        /\ req[q].item.try = tokens[t].try /\ req[q].item.try < MaxTries
    BY <2>2 DEF HoldersOK
  <2>4. tokens[t].try \in Nat
    <3>1. tokens[t] \in CachedToken
      BY <2>1 DEF TypeOK
    <3> QED
      BY <3>1 DEF CachedToken
  <2>5. req[q].item.try + 1 <= MaxTries
    BY <2>3, <2>4, SmsAssumption
  <2>6. rows' = rows
    BY <1>2 DEF RefuseCode, RetryLeavesToken
  <2> HIDE DEF n, t
  <2>7. Good(n)
    BY <2>1, <2>3, <2>5, <2>6 DEF TokensOK
  <2> QED
    BY <2>7 DEF n
<1>3. ASSUME NEW q \in Requesters, SendCode(q) PROVE Good(Len(tokens) + 1)
  <2> DEFINE n == Len(tokens) + 1
  <2>1. /\ tokens'[n].try = 1 /\ tokens'[n].code = Len(rows) + 1
        /\ tokens'[n].checksum = <<req[q].user, req[q].content>>
    BY <1>3, AddsToken
  <2>2. Len(rows) + 1 \in DOMAIN rows' /\ NewRow(q, Len(rows) + 1)
    BY <1>3, SendsRow
  <2>3. PICK status \in {"success", "sending"} : rows'[Len(rows) + 1] = Row(q, status)
    BY <1>3, <2>2 DEF NewRow
  <2>4. /\ rows'[Len(rows) + 1].status # "fail"
        /\ rows'[Len(rows) + 1].checksum = <<req[q].user, req[q].content>>
    BY <2>3 DEF Row, hmacOfRequest
  <2>5. 1 <= MaxTries
    BY SmsAssumption
  <2> HIDE DEF n
  <2>6. Good(n)
    BY <2>1, <2>2, <2>4, <2>5
  <2> QED
    BY <2>6 DEF n
<1>4. \A t \in DOMAIN tokens' \ DOMAIN tokens :
         \E q \in Requesters : (RefuseCode(q) \/ RetryLeavesToken(q) \/ SendCode(q)) /\ t = Len(tokens) + 1
  <2>1. UNCHANGED Cache => tokens' = tokens
    BY DEF Cache
  <2>2. ASSUME NEW q \in Requesters,
               RefuseTries(q) \/ AcceptCode(q) \/ RetryFails(q) \/ ReadToken(q) \/ SendFails(q)
        PROVE  DOMAIN tokens' = DOMAIN tokens
    BY <2>2, UnsetsToken, KeepsTokens
  <2>3. ASSUME NEW q \in Requesters, RefuseCode(q) \/ RetryLeavesToken(q) \/ SendCode(q)
        PROVE  DOMAIN tokens' \subseteq DOMAIN tokens \union {Len(tokens) + 1}
    BY <2>3, RenewsToken, LeavesToken, AddsToken
  <2> QED
    BY <2>1, <2>2, <2>3, CacheChange
<1>5. \A t \in DOMAIN tokens' : Good(t)
  BY <1>1, <1>2, <1>3, <1>4
<1> QED
  BY <1>5 DEF TokensOK

LEMMA HoldersStep ==
    ASSUME TypeOK, PathOK, HoldersOK, [Next]_vars
    PROVE  HoldersOK'
<1> SUFFICES ASSUME NEW r \in Requesters, Holds(r)'
             PROVE  /\ req'[r].token \in DOMAIN tokens'
                    /\ req'[r].item.code = tokens'[req'[r].token].code
                    /\ req'[r].item.try = tokens'[req'[r].token].try /\ req'[r].item.try < MaxTries
                    /\ req'[r].item.checksum = tokens'[req'[r].token].checksum
  BY DEF HoldersOK
<1>1. /\ req'[r].token \in DOMAIN tokens
      /\ req'[r].item.code = tokens[req'[r].token].code
      /\ req'[r].item.try = tokens[req'[r].token].try /\ req'[r].item.try < MaxTries
      /\ req'[r].item.checksum = tokens[req'[r].token].checksum
  <2>1. CASE Holds(r) /\ req'[r] = req[r]
    BY <2>1 DEF HoldersOK
  <2>2. CASE /\ ReadToken(r) /\ req'[r].token = req[r].token
             /\ req'[r].item = tokens[req[r].token]
    BY <2>2 DEF ReadToken, Cached
  <2> QED
    BY <2>1, <2>2, NewHolder
<1>2. SameToken(req'[r].token)
  BY <1>1, TokensStay
<1> QED
  BY <1>1, <1>2 DEF SameToken

-----------------------------------------------------------------------------
(* The tries.                                                              *)

(* The codes of the tokens and of their holders are messages.              *)
LEMMA CodesAreMessages ==
    ASSUME TokensOK, HoldersOK
    PROVE  /\ \A t \in DOMAIN tokens : tokens[t].code \in DOMAIN rows
           /\ \A q \in Requesters : Holds(q) => req[q].item.code \in DOMAIN rows
BY DEF TokensOK, HoldersOK

(* The invariant for one message.                                          *)
CodeCounted(c) ==
    /\ \A t \in DOMAIN tokens : tokens[t].live /\ tokens[t].code = c => guesses[c] < tokens[t].try
    /\ \A q \in Requesters : Holds(q) /\ req[q].item.code = c => guesses[c] < req[q].item.try

CodeAlone(c) ==
    /\ \A t, u \in DOMAIN tokens :
          tokens[t].live /\ tokens[u].live /\ tokens[t].code = c /\ tokens[u].code = c => t = u
    /\ \A t \in DOMAIN tokens, q \in Requesters :
          tokens[t].live /\ tokens[t].code = c /\ Holds(q) /\ req[q].item.code = c => req[q].token = t
    /\ \A q, r \in Requesters :
          Holds(q) /\ Holds(r) /\ req[q].item.code = c /\ req[r].item.code = c => q = r

LEMMA OneByOne ==
    ASSUME TriesCounted, OneToken, NEW c, c \notin shared
    PROVE  CodeCounted(c) /\ CodeAlone(c)
BY DEF TriesCounted, OneToken, LiveCode, HeldCode, CodeCounted, CodeAlone

LEMMA OneByOneNext ==
    ASSUME TokensOK', HoldersOK',
           \A c \in DOMAIN rows' : c \notin shared' => CodeCounted(c)' /\ CodeAlone(c)'
    PROVE  TriesCounted' /\ OneToken'
<1>1. /\ \A t \in DOMAIN tokens' : tokens'[t].code \in DOMAIN rows'
      /\ \A q \in Requesters : Holds(q)' => req'[q].item.code \in DOMAIN rows'
  BY DEF TokensOK, HoldersOK
<1> QED
  BY <1>1 DEF TriesCounted, OneToken, LiveCode, HeldCode, CodeCounted, CodeAlone

(* A step that neither counts for a message nor gives it a token or a      *)
(* holder keeps it.                                                        *)
Untouched(c) ==
    /\ guesses'[c] = guesses[c]
    /\ \A t \in DOMAIN tokens' : tokens'[t].live /\ tokens'[t].code = c => t \in DOMAIN tokens
    /\ \A t \in DOMAIN tokens : SameToken(t)
    /\ \A q \in Requesters : Holds(q)' /\ req'[q].item.code = c => Holds(q) /\ req'[q] = req[q]

LEMMA UntouchedStays ==
    ASSUME NEW c, CodeCounted(c), CodeAlone(c), Untouched(c)
    PROVE  CodeCounted(c)' /\ CodeAlone(c)'
<1>1. ASSUME NEW t \in DOMAIN tokens', tokens'[t].live, tokens'[t].code = c
      PROVE  t \in DOMAIN tokens /\ tokens[t].live /\ tokens[t].code = c /\ tokens'[t].try = tokens[t].try
  BY <1>1 DEF Untouched, SameToken
<1>2. ASSUME NEW q \in Requesters, Holds(q)', req'[q].item.code = c
      PROVE  Holds(q) /\ req[q].item.code = c /\ req'[q] = req[q]
  BY <1>2 DEF Untouched
<1>3. guesses'[c] = guesses[c]
  BY DEF Untouched
<1>4. CodeCounted(c)'
  BY <1>1, <1>2, <1>3 DEF CodeCounted
<1>5. CodeAlone(c)'
  BY <1>1, <1>2 DEF CodeAlone
<1> QED
  BY <1>4, <1>5

(* The holders of the message of a held token.                             *)
LEMMA HolderIsAlone ==
    ASSUME NEW q \in Requesters, Holds(q), CodeAlone(req[q].item.code)
    PROVE  /\ \A r \in Requesters : Holds(r) /\ req[r].item.code = req[q].item.code => r = q
           /\ \A t \in DOMAIN tokens :
                 tokens[t].live /\ tokens[t].code = req[q].item.code => t = req[q].token
BY DEF CodeAlone

LEMMA CountsAreNat ==
    ASSUME TypeOK
    PROVE  /\ \A s \in DOMAIN rows : guesses[s] \in Nat
           /\ \A t \in DOMAIN tokens : tokens[t].try \in Nat
<1>1. \A s \in DOMAIN rows : guesses[s] \in Nat
  <2>1. guesses \in Seq(Nat) /\ rows \in Seq(TextMessage) /\ Len(guesses) = Len(rows)
    BY DEF TypeOK
  <2> QED
    BY <2>1
<1>2. \A t \in DOMAIN tokens : tokens[t] \in CachedToken
  BY DEF TypeOK
<1> QED
  BY <1>1, <1>2 DEF CachedToken

(* A wrong code: the request no longer holds the token, and the message is *)
(* counted once.                                                           *)
LEMMA Guessed ==
    ASSUME TypeOK, HoldersOK, TokensOK, NEW q \in Requesters,
           RefuseCode(q) \/ RetryFails(q) \/ RetryLeavesToken(q)
    PROVE  /\ Holds(q) /\ ~Holds(q)' /\ rows' = rows
           /\ shared' = IF RetryLeavesToken(q) THEN shared \union {req[q].item.code} ELSE shared
           /\ req[q].item.code \in DOMAIN rows
           /\ guesses'[req[q].item.code] = guesses[req[q].item.code] + 1
           /\ \A s \in DOMAIN rows \ {req[q].item.code} : guesses'[s] = guesses[s]
<1>1. /\ Holds(q) /\ Counted(q) /\ Answer(q) /\ rows' = rows
      /\ shared' = IF RetryLeavesToken(q) THEN shared \union {req[q].item.code} ELSE shared
  BY DEF RefuseCode, RetryFails, RetryLeavesToken, WrongCode, At, Holds
<1>2. req[q].item.code \in DOMAIN rows
  BY <1>1, CodesAreMessages
<1>3. guesses \in Seq(Nat) /\ DOMAIN guesses = DOMAIN rows
  BY DEF TypeOK
<1>4. req \in [Requesters -> Requested \union {NoRequest}]
  BY DEF TypeOK
<1>5. ~Holds(q)'
  BY <1>1, <1>4 DEF Answer, Holds, NoRequest
<1>6. guesses' = [guesses EXCEPT ![req[q].item.code] = guesses[req[q].item.code] + 1]
  BY <1>1 DEF Counted
<1> QED
  BY <1>1, <1>2, <1>3, <1>5, <1>6

LEMMA TriesStep ==
    ASSUME TypeOK, PathOK, TokensOK, HoldersOK, TriesCounted, OneToken, [Next]_vars,
           TypeOK', TokensOK', HoldersOK'
    PROVE  TriesCounted' /\ OneToken'
<1> DEFINE Good == \A c \in DOMAIN rows' : c \notin shared' => CodeCounted(c)' /\ CodeAlone(c)'
<1> SUFFICES Good
  BY OneByOneNext
<1>0. \A t \in DOMAIN tokens : SameToken(t)
  BY TokensStay
<1>a. \A c : c \notin shared => CodeCounted(c) /\ CodeAlone(c)
  BY OneByOne
<1>1. ASSUME NEW q \in Requesters, ReadToken(q) PROVE Good
  <2> SUFFICES ASSUME NEW c \in DOMAIN rows', c \notin shared' PROVE CodeCounted(c)' /\ CodeAlone(c)'
    OBVIOUS
  <2> DEFINE t == req[q].token
  <2>1. /\ tokens' = tokens /\ guesses' = guesses /\ t \in DOMAIN tokens /\ tokens[t].live
        /\ shared' = IF Readers(t) = {} THEN shared ELSE shared \union {tokens[t].code}
    BY <1>1 DEF ReadToken, Cached
  <2>2. c \notin shared
    BY <2>1
  <2>3. CodeCounted(c) /\ CodeAlone(c)
    BY <1>a, <2>2
  <2>4. ASSUME NEW r \in Requesters, r # q PROVE req'[r] = req[r]
    BY <1>1, <2>4 DEF ReadToken, TypeOK
  <2>5. CASE tokens[t].code # c
    <3>1. Untouched(c)
      <4>1. ASSUME NEW r \in Requesters, Holds(r)', req'[r].item.code = c
            PROVE  Holds(r) /\ req'[r] = req[r]
        BY <2>4, <2>5, <4>1, NewHolder DEF Holds
      <4> QED
        BY <1>0, <2>1, <4>1 DEF Untouched
    <3> QED
      BY <2>3, <3>1, UntouchedStays
  <2>6. CASE tokens[t].code = c
    <3>1. Readers(t) = {}
      BY <2>1, <2>6
    <3>2. \A r \in Requesters : ~(Holds(r) /\ req[r].item.code = c)
      <4> SUFFICES ASSUME NEW r \in Requesters, Holds(r), req[r].item.code = c PROVE FALSE
        OBVIOUS
      <4>1. req[r].token = t
        BY <2>1, <2>3, <2>6 DEF CodeAlone
      <4>2. r \in Readers(t)
        BY <4>1 DEF Readers, Holds, At
      <4> QED
        BY <3>1, <4>2
    <3>3. ASSUME NEW r \in Requesters, Holds(r)', req'[r].item.code = c
          PROVE  r = q /\ req'[r].token = t /\ req'[r].item = tokens[t]
      BY <2>4, <3>2, <3>3, NewHolder DEF Holds
    <3>4. CodeCounted(c)'
      BY <2>1, <2>3, <2>6, <3>3 DEF CodeCounted
    <3>5. CodeAlone(c)'
      BY <2>1, <2>3, <2>6, <3>3 DEF CodeAlone
    <3> QED
      BY <3>4, <3>5
  <2> QED
    BY <2>5, <2>6
<1>2. ASSUME \A q \in Requesters : ~ReadToken(q),
             NEW r \in Requesters, Holds(r)'
      PROVE  Holds(r) /\ req'[r] = req[r]
  BY <1>2, NewHolder
<1>3. ASSUME \A q \in Requesters : ~ReadToken(q), DOMAIN tokens' \subseteq DOMAIN tokens, shared' = shared,
             NEW c \in DOMAIN rows', guesses'[c] = guesses[c], c \notin shared'
      PROVE  CodeCounted(c)' /\ CodeAlone(c)'
  <2>1. Untouched(c)
    BY <1>0, <1>2, <1>3 DEF Untouched
  <2> QED
    BY <1>3, <1>a, <2>1, UntouchedStays
<1>4. ASSUME \A q \in Requesters : ~ReadToken(q), UNCHANGED Cache PROVE Good
  <2>1. tokens' = tokens /\ shared' = shared /\ guesses' = guesses
    BY <1>4 DEF Cache
  <2> QED
    BY <1>3, <1>4, <2>1
<1>5. ASSUME \A q \in Requesters : ~ReadToken(q), NEW q \in Requesters, RefuseTries(q) \/ AcceptCode(q)
      PROVE Good
  <2>1. DOMAIN tokens' = DOMAIN tokens /\ shared' = shared /\ guesses' = guesses
    BY <1>5, UnsetsToken DEF RefuseTries, AcceptCode
  <2> QED
    BY <1>3, <1>5, <2>1
<1>6. ASSUME \A q \in Requesters : ~ReadToken(q), NEW q \in Requesters, RetryFails(q) PROVE Good
  <2> SUFFICES ASSUME NEW c \in DOMAIN rows', c \notin shared' PROVE CodeCounted(c)' /\ CodeAlone(c)'
    OBVIOUS
  <2>1. /\ Holds(q) /\ ~Holds(q)' /\ rows' = rows /\ shared' = shared
        /\ \A s \in DOMAIN rows \ {req[q].item.code} : guesses'[s] = guesses[s]
    BY <1>6, Guessed DEF RetryFails
  <2>2. /\ DOMAIN tokens' = DOMAIN tokens /\ ~tokens'[req[q].token].live
    BY <1>6, UnsetsToken
  <2>3. CASE c # req[q].item.code
    BY <1>3, <1>6, <2>1, <2>2, <2>3
  <2>4. CASE c = req[q].item.code
    <3>1. /\ \A r \in Requesters : Holds(r) /\ req[r].item.code = c => r = q
          /\ \A t \in DOMAIN tokens : tokens[t].live /\ tokens[t].code = c => t = req[q].token
      BY <1>a, <2>1, <2>4, HolderIsAlone
    <3>2. \A r \in Requesters : ~(Holds(r)' /\ req'[r].item.code = c)
      BY <1>2, <1>6, <2>1, <3>1
    <3>3. \A t \in DOMAIN tokens' : ~(tokens'[t].live /\ tokens'[t].code = c)
      BY <1>0, <2>2, <3>1 DEF SameToken
    <3> QED
      BY <3>2, <3>3 DEF CodeCounted, CodeAlone
  <2> QED
    BY <2>3, <2>4
<1>7. ASSUME \A q \in Requesters : ~ReadToken(q), NEW q \in Requesters, RefuseCode(q) PROVE Good
  <2> SUFFICES ASSUME NEW c \in DOMAIN rows', c \notin shared' PROVE CodeCounted(c)' /\ CodeAlone(c)'
    OBVIOUS
  <2> DEFINE n == Len(tokens) + 1
  <2>1. /\ Holds(q) /\ ~Holds(q)' /\ rows' = rows /\ shared' = shared
        /\ req[q].item.code \in DOMAIN rows
        /\ guesses'[req[q].item.code] = guesses[req[q].item.code] + 1
        /\ \A s \in DOMAIN rows \ {req[q].item.code} : guesses'[s] = guesses[s]
    BY <1>7, Guessed DEF RefuseCode
  <2>2. /\ DOMAIN tokens' = DOMAIN tokens \union {n} /\ n \notin DOMAIN tokens
        /\ ~tokens'[req[q].token].live
        /\ tokens'[n].try = req[q].item.try + 1 /\ tokens'[n].code = req[q].item.code
    BY <1>7, RenewsToken
  <2> HIDE DEF n
  <2>3. CASE c # req[q].item.code
    <3>1. Untouched(c)
      BY <1>0, <1>2, <1>7, <2>1, <2>2, <2>3 DEF Untouched
    <3> QED
      BY <1>a, <2>1, <3>1, UntouchedStays
  <2>4. CASE c = req[q].item.code
    <3>1. /\ \A r \in Requesters : Holds(r) /\ req[r].item.code = c => r = q
          /\ \A t \in DOMAIN tokens : tokens[t].live /\ tokens[t].code = c => t = req[q].token
      BY <1>a, <2>1, <2>4, HolderIsAlone
    <3>2. \A r \in Requesters : ~(Holds(r)' /\ req'[r].item.code = c)
      BY <1>2, <1>7, <2>1, <3>1
    <3>3. \A t \in DOMAIN tokens' : tokens'[t].live /\ tokens'[t].code = c => t = n
      BY <1>0, <2>2, <3>1 DEF SameToken
    <3>4. guesses'[c] < tokens'[n].try
      <4>1. guesses[c] < req[q].item.try
        BY <1>a, <2>1, <2>4 DEF CodeCounted
      <4>2. guesses[c] \in Nat /\ req[q].item.try \in Nat
        <5>1. req[q].item.try = tokens[req[q].token].try /\ req[q].token \in DOMAIN tokens
          BY <2>1 DEF HoldersOK
        <5> QED
          BY <2>1, <2>4, <5>1, CountsAreNat
      <4> QED
        BY <2>1, <2>2, <2>4, <4>1, <4>2
    <3> QED
      BY <3>2, <3>3, <3>4 DEF CodeCounted, CodeAlone
  <2> QED
    BY <2>3, <2>4
<1>8. ASSUME \A q \in Requesters : ~ReadToken(q), NEW q \in Requesters, SendCode(q) PROVE Good
  <2> SUFFICES ASSUME NEW c \in DOMAIN rows', c \notin shared' PROVE CodeCounted(c)' /\ CodeAlone(c)'
    OBVIOUS
  <2> DEFINE n == Len(tokens) + 1
  <2> DEFINE m == Len(rows) + 1
  <2>1. /\ DOMAIN tokens' = DOMAIN tokens \union {n} /\ n \notin DOMAIN tokens
        /\ tokens'[n].try = 1 /\ tokens'[n].code = m
    BY <1>8, AddsToken
  <2>2. /\ \A s \in DOMAIN rows : guesses'[s] = guesses[s]
        /\ \A s \in DOMAIN rows' \ DOMAIN rows : NewRow(q, s)
        /\ m \notin DOMAIN rows
    BY <1>8, SendsRow
  <2>3. shared' = shared
    BY <1>8 DEF SendCode
  <2>4. c \in DOMAIN rows \/ (c = m /\ guesses'[c] = 0)
    BY <2>2 DEF NewRow
  <2> HIDE DEF n, m
  <2>5. CASE c \in DOMAIN rows
    <3>1. Untouched(c)
      BY <1>0, <1>2, <1>8, <2>1, <2>2, <2>5 DEF Untouched
    <3> QED
      BY <1>a, <2>3, <3>1, UntouchedStays
  <2>6. CASE c = m /\ guesses'[c] = 0
    <3>1. \A t \in DOMAIN tokens' : tokens'[t].code = c => t = n
      BY <1>0, <2>1, <2>2, <2>6, CodesAreMessages DEF SameToken
    <3>2. \A r \in Requesters : ~(Holds(r)' /\ req'[r].item.code = c)
      BY <1>2, <1>8, <2>2, <2>6, CodesAreMessages
    <3> QED
      BY <2>1, <2>6, <3>1, <3>2 DEF CodeCounted, CodeAlone
  <2> QED
    BY <2>4, <2>5, <2>6
<1>9. ASSUME \A q \in Requesters : ~ReadToken(q), NEW q \in Requesters, SendFails(q) PROVE Good
  <2> SUFFICES ASSUME NEW c \in DOMAIN rows', c \notin shared' PROVE CodeCounted(c)' /\ CodeAlone(c)'
    OBVIOUS
  <2>1. tokens' = tokens /\ shared' = shared
    BY <1>9 DEF SendFails
  <2>2. \A s \in DOMAIN rows : guesses'[s] = guesses[s]
    BY <1>9, SendsRow
  <2>3. CASE c \in DOMAIN rows
    BY <1>3, <1>9, <2>1, <2>2, <2>3
  <2>4. CASE c \notin DOMAIN rows
    <3>1. \A t \in DOMAIN tokens' : tokens'[t].code # c
      BY <2>1, <2>4, CodesAreMessages
    <3>2. \A r \in Requesters : ~(Holds(r)' /\ req'[r].item.code = c)
      BY <1>2, <1>9, <2>4, CodesAreMessages
    <3> QED
      BY <3>1, <3>2 DEF CodeCounted, CodeAlone
  <2> QED
    BY <2>3, <2>4
<1>10. ASSUME \A q \in Requesters : ~ReadToken(q), NEW q \in Requesters, RetryLeavesToken(q) PROVE Good
  <2> SUFFICES ASSUME NEW c \in DOMAIN rows', c \notin shared' PROVE CodeCounted(c)' /\ CodeAlone(c)'
    OBVIOUS
  <2> DEFINE n == Len(tokens) + 1
  <2>1. /\ ~Holds(q)' /\ rows' = rows /\ shared' = shared \union {req[q].item.code}
        /\ \A s \in DOMAIN rows \ {req[q].item.code} : guesses'[s] = guesses[s]
    BY <1>10, Guessed
  <2>2. \/ DOMAIN tokens' = DOMAIN tokens
        \/ DOMAIN tokens' = DOMAIN tokens \union {n} /\ tokens'[n].code = req[q].item.code
    BY <1>10, LeavesToken
  <2> HIDE DEF n
  <2>3. c # req[q].item.code /\ c \notin shared
    BY <2>1
  <2>4. Untouched(c)
    BY <1>0, <1>2, <1>10, <2>1, <2>2, <2>3 DEF Untouched
  <2> QED
    BY <1>a, <2>3, <2>4, UntouchedStays
<1> HIDE DEF Good
<1> QED
  BY <1>1, <1>4, <1>5, <1>6, <1>7, <1>8, <1>9, <1>10, CacheChange

LEMMA BoundStep ==
    ASSUME TypeOK, TokensOK, HoldersOK, TriesCounted, TriesBounded, [Next]_vars
    PROVE  TriesBounded'
<1> SUFFICES ASSUME NEW s \in DOMAIN rows', s \notin shared' PROVE guesses'[s] < MaxTries
  BY DEF TriesBounded
<1>0. MaxTries \in Nat /\ 0 < MaxTries
  BY SmsAssumption
<1>1. CASE UNCHANGED Cache
  BY <1>1 DEF Cache, TriesBounded
<1>2. ASSUME NEW q \in Requesters, RefuseTries(q) \/ ReadToken(q) \/ AcceptCode(q)
      PROVE  guesses'[s] < MaxTries
  <2>1. rows' = rows /\ guesses' = guesses /\ shared \subseteq shared'
    BY <1>2 DEF RefuseTries, ReadToken, AcceptCode
  <2> QED
    BY <2>1 DEF TriesBounded
<1>3. ASSUME NEW q \in Requesters, RefuseCode(q) \/ RetryFails(q) \/ RetryLeavesToken(q)
      PROVE  guesses'[s] < MaxTries
  <2> DEFINE c == req[q].item.code
  <2>1. /\ Holds(q) /\ rows' = rows
        /\ shared' = IF RetryLeavesToken(q) THEN shared \union {c} ELSE shared
        /\ guesses'[c] = guesses[c] + 1
        /\ \A r \in DOMAIN rows \ {c} : guesses'[r] = guesses[r]
    BY <1>3, Guessed
  <2>2. CASE s # c
    BY <2>1, <2>2 DEF TriesBounded
  <2>3. CASE s = c
    <3>1. guesses[c] < req[q].item.try
      BY <2>1, <2>3 DEF TriesCounted, HeldCode
    <3>2. /\ req[q].token \in DOMAIN tokens /\ req[q].item.try = tokens[req[q].token].try
          /\ req[q].item.try < MaxTries
      BY <2>1 DEF HoldersOK
    <3>3. guesses[c] \in Nat /\ req[q].item.try \in Nat
      BY <2>1, <2>3, <3>2, CountsAreNat
    <3> QED
      BY <1>0, <2>1, <2>3, <3>1, <3>2, <3>3
  <2> QED
    BY <2>2, <2>3
<1>4. ASSUME NEW q \in Requesters, SendCode(q) \/ SendFails(q)
      PROVE  guesses'[s] < MaxTries
  <2>1. shared' = shared
    BY <1>4 DEF SendCode, SendFails
  <2>2. CASE s \in DOMAIN rows
    BY <1>4, <2>1, <2>2, SendsRow DEF TriesBounded
  <2>3. CASE s \notin DOMAIN rows
    BY <1>0, <1>4, <2>3, SendsRow DEF NewRow
  <2> QED
    BY <2>2, <2>3
<1> QED
  BY <1>1, <1>2, <1>3, <1>4, CacheChange

-----------------------------------------------------------------------------
(* The operations.                                                         *)

(* What has been reported stays so, and an operation is confirmed by the   *)
(* deletion of its token alone, whether it succeeds or not.                *)
Deletes(q) == DeleteTokenFromCache(q) \/ DeleteFails(q)

LEMMA OperationStep ==
    ASSUME TypeOK, [Next]_vars, NEW o \in Users
    PROVE  /\ results[o] # {} => results'[o] # {}
           /\ results[o] # {} /\ operations[o] = 0 => operations'[o] = 0
           /\ \/ confirmed'[o] = confirmed[o] /\ undeleted'[o] = undeleted[o]
              \/ \E q \in Requesters : Deletes(q) /\ req[q].user = o
<1>0. /\ operations \in [Users -> Nat] /\ confirmed \in [Users -> Nat] /\ undeleted \in [Users -> Nat]
      /\ DOMAIN results = Users
  BY DEF TypeOK
<1>1. CASE UNCHANGED <<operations, results, confirmed, undeleted>>
  BY <1>1
<1>2. ASSUME NEW p \in Users, PrepareOperation(p)
      PROVE  /\ results' = results /\ confirmed' = confirmed /\ undeleted' = undeleted
             /\ results[o] # {} => operations'[o] = operations[o]
  BY <1>0, <1>2 DEF PrepareOperation
<1>3. ASSUME NEW q \in Requesters, ConfirmationCallback(q) \/ CallbackFails(q)
      PROVE  /\ operations' = operations /\ confirmed' = confirmed /\ undeleted' = undeleted
             /\ results[o] # {} => results'[o] # {}
  <2>1. Handled(q) => (results[o] # {} => results'[o] # {})
    BY <1>0 DEF Handled
  <2> QED
    BY <1>3, <2>1 DEF ConfirmationCallback, CallbackFails
<1>4. ASSUME NEW q \in Requesters, Deletes(q)
      PROVE  /\ results' = results
             /\ operations[o] = 0 => operations'[o] = 0
             /\ req[q].user # o => confirmed'[o] = confirmed[o] /\ undeleted'[o] = undeleted[o]
  BY <1>0, <1>4 DEF Deletes, DeleteTokenFromCache, DeleteFails, Confirms
<1> QED
  BY <1>1, <1>2, <1>3, <1>4, ControlChange DEF Deletes

LEMMA CrowdedGrows ==
    ASSUME [Next]_vars
    PROVE  crowded \subseteq crowded'
<1>1. ASSUME NEW q \in Requesters, Request(q) PROVE crowded \subseteq crowded'
  BY <1>1 DEF Request
<1>2. ASSUME NEW o \in Users, PrepareOperation(o) PROVE crowded' = crowded
  BY <1>2 DEF PrepareOperation
<1>3. ASSUME NEW q \in Requesters, ServerStep(q) PROVE crowded' = crowded
  BY <1>3 DEF ServerStep, RefuseOperation, CachedPhone, CacheFails, ConfirmationCallback,
     CallbackFails, DeleteTokenFromCache, DeleteFails, confirmationVars
<1>4. Tick \/ UNCHANGED vars => crowded' = crowded
  BY DEF Tick, vars, confirmationVars
<1> QED
  BY <1>1, <1>2, <1>3, <1>4 DEF Next

(* A check that is on its way.                                             *)
Checking(q, o) == req[q].stage # "none" /\ req[q].kind = "check" /\ req[q].user = o

LEMMA CheckStep ==
    ASSUME TypeOK, PathOK, [Next]_vars, NEW q \in Requesters, NEW o, Checking(q, o)'
    PROVE  Checking(q, o) \/ (Arrives(q) /\ req[q].stage = "none")
BY RequestStep DEF Checking, NoRequest, SameRequest, GoesOn

LEMMA ArrivalsCrowd ==
    ASSUME TypeOK, PathOK, [Next]_vars, NEW q \in Requesters, Arrives(q), req[q].stage = "none",
           NEW r \in Requesters, r # q, NEW o, Checking(q, o)', Checking(r, o)'
    PROVE  o \in crowded'
<1>0. req \in [Requesters -> Requested \union {NoRequest}]
  BY DEF TypeOK
<1>1. PICK p \in Users, kind \in Kinds, content \in Contents, code \in Int, token \in Nat :
         /\ Moved(q, [NoRequest EXCEPT !.stage = "arrive", !.kind = kind, !.user = p,
                                       !.content = content, !.code = code, !.token = token])
         /\ crowded' = IF kind = "check" /\ Checks(p) # {} THEN crowded \union {p} ELSE crowded
  BY DEF Arrives
<1>2. /\ req'[q].kind = kind /\ req'[q].user = p /\ req'[r] = req[r]
  BY <1>0, <1>1 DEF Moved, NoRequest
<1>3. kind = "check" /\ p = o
  BY <1>2 DEF Checking
<1>4. r \in Checks(o)
  BY <1>2 DEF Checking, Checks, At
<1> QED
  BY <1>1, <1>3, <1>4

LEMMA AloneStep ==
    ASSUME TypeOK, PathOK, ChecksAlone, [Next]_vars
    PROVE  ChecksAlone'
<1> SUFFICES ASSUME NEW q \in Requesters, NEW r \in Requesters, NEW o, o \notin crowded',
                    Checking(q, o)', Checking(r, o)', q # r
             PROVE  FALSE
  BY DEF ChecksAlone, Checking
<1>1. o \notin crowded
  BY CrowdedGrows
<1>2. Checking(q, o) /\ Checking(r, o)
  BY CheckStep, ArrivalsCrowd
<1> QED
  BY <1>1, <1>2 DEF ChecksAlone, Checking

LEMMA CalledBackStep ==
    ASSUME TypeOK, PathOK, CalledBack, [Next]_vars, TypeOK'
    PROVE  CalledBack'
<1> SUFFICES ASSUME NEW q \in Requesters, req'[q].stage = "delete" PROVE results'[req'[q].user] # {}
  BY DEF CalledBack
<1>1. CASE req'[q] = req[q]
  <2>1. req[q].user \in Users
    BY <1>1, RequestType DEF Requested
  <2> QED
    BY <1>1, <2>1, OperationStep DEF CalledBack
<1>2. CASE ConfirmationCallback(q) /\ SameRequest(q)
  <2>1. req[q] \in Requested
    BY <1>2, RequestType DEF ConfirmationCallback, Calls, At
  <2>2. req[q].user \in DOMAIN results
    BY <2>1 DEF TypeOK, Requested
  <2>3. Handled(q)
    BY <1>2 DEF ConfirmationCallback
  <2> QED
    BY <1>2, <2>2, <2>3 DEF Handled, SameRequest
<1> QED
  BY <1>1, <1>2, RequestStep DEF NoRequest, GoesOn

(* The check that is confirmed is the first one, or the deletion failed    *)
(* for all those before it.                                                *)
LEMMA FirstCheck ==
    ASSUME TypeOK, PathOK, ChecksAlone, CalledBack, Spent,
           NEW q \in Requesters, Deletes(q), NEW o \in Users, o = req[q].user
    PROVE  /\ results[o] # {}
           /\ \/ operations'[o] = 0 /\ undeleted'[o] = undeleted[o]
              \/ undeleted'[o] = undeleted[o] + 1
           /\ confirmed'[o] = confirmed[o] + 1 /\ confirmed[o] \in Nat /\ undeleted[o] \in Nat
           /\ o \notin crowded => confirmed[o] <= undeleted[o]
           /\ o \notin crowded => \A r \in Requesters : ~Checking(r, o)'
<1>0. /\ operations \in [Users -> Nat] /\ confirmed \in [Users -> Nat] /\ undeleted \in [Users -> Nat]
      /\ req \in [Requesters -> Requested \union {NoRequest}]
  BY DEF TypeOK
<1>1. req[q].stage = "delete" /\ Confirms(q)
  BY DEF Deletes, DeleteTokenFromCache, DeleteFails, Confirms, At
<1>2. req[q].kind = "check"
  BY <1>1 DEF PathOK
<1>3. results[o] # {}
  BY <1>1 DEF CalledBack
<1>4. /\ confirmed'[o] = confirmed[o] + 1
      /\ \/ operations'[o] = 0 /\ undeleted'[o] = undeleted[o]
         \/ undeleted'[o] = undeleted[o] + 1
  BY <1>0, <1>1 DEF Confirms, Deletes, DeleteTokenFromCache, DeleteFails
<1>5. /\ o \notin crowded => confirmed[o] <= undeleted[o]
      /\ confirmed[o] \in Nat /\ undeleted[o] \in Nat
  <2>1. o \notin crowded => ~(confirmed[o] > undeleted[o])
    BY <1>1, <1>2 DEF Spent
  <2>2. confirmed[o] \in Nat /\ undeleted[o] \in Nat
    BY <1>0
  <2> QED
    BY <2>1, <2>2
<1>6. o \notin crowded => \A r \in Requesters : ~Checking(r, o)'
  <2>1. req'[q] = NoRequest /\ \A r \in Requesters \ {q} : req'[r] = req[r]
    BY <1>0, <1>1 DEF Confirms, Answer
  <2>2. \A r \in Requesters \ {q} : o \notin crowded => ~Checking(r, o)
    BY <1>1, <1>2 DEF ChecksAlone, Checking
  <2> QED
    BY <2>1, <2>2 DEF Checking, NoRequest
<1> QED
  BY <1>2, <1>3, <1>4, <1>5, <1>6

LEMMA SpentStep ==
    ASSUME TypeOK, PathOK, OnceInv, [Next]_vars, TypeOK'
    PROVE  Spent'
<1> SUFFICES ASSUME NEW o \in Users
             PROVE  /\ confirmed'[o] > 0 => results'[o] # {}
                    /\ confirmed'[o] > undeleted'[o] /\ o \notin crowded' =>
                         /\ operations'[o] = 0
                         /\ \A q \in Requesters :
                               req'[q].user = o /\ req'[q].kind = "check" => req'[q].stage = "arrive"
  BY DEF Spent
<1>0. ChecksAlone /\ CalledBack /\ Spent /\ (o \notin crowded' => o \notin crowded)
  BY CrowdedGrows DEF OnceInv
<1>1. CASE confirmed'[o] = confirmed[o] /\ undeleted'[o] = undeleted[o]
  <2>1. confirmed'[o] > 0 => results[o] # {} /\ results'[o] # {}
    BY <1>0, <1>1, OperationStep DEF Spent
  <2>2. ASSUME confirmed'[o] > undeleted'[o], o \notin crowded'
        PROVE  operations[o] = 0 /\ operations'[o] = 0
    <3>1. confirmed'[o] > 0
      <4>1. confirmed[o] \in Nat /\ undeleted[o] \in Nat
        BY DEF TypeOK
      <4> QED
        BY <1>1, <2>2, <4>1
    <3> QED
      BY <1>0, <1>1, <2>1, <2>2, <3>1, OperationStep DEF Spent
  <2>3. ASSUME confirmed'[o] > undeleted'[o], o \notin crowded',
               NEW q \in Requesters, req'[q].user = o, req'[q].kind = "check"
        PROVE  req'[q].stage = "arrive"
    <3>1. CASE req'[q] = req[q]
      BY <1>0, <1>1, <2>3, <3>1 DEF Spent
    <3>2. CASE req'[q] = NoRequest
      BY <2>3, <3>2 DEF NoRequest
    <3>3. CASE req[q].kind = "check" /\ SameRequest(q) /\ GoesOn(q)
      <4>1. req[q].user = o /\ req[q].stage = "arrive"
        BY <1>0, <1>1, <2>3, <3>3 DEF Spent, SameRequest
      <4>2. CachedPhone(q)
        BY <3>3, <4>1 DEF GoesOn
      <4>3. clock < operations[o]
        BY <4>1, <4>2 DEF CachedPhone, Prepared
      <4>4. clock \in Nat
        BY DEF TypeOK
      <4> QED
        BY <2>2, <2>3, <4>3, <4>4
    <3> QED
      BY <3>1, <3>2, <3>3, RequestStep
  <2> QED
    BY <2>1, <2>2, <2>3
<1>2. CASE ~(confirmed'[o] = confirmed[o] /\ undeleted'[o] = undeleted[o])
  <2>1. PICK p \in Requesters : Deletes(p) /\ req[p].user = o
    BY <1>2, OperationStep
  <2>2. /\ results[o] # {} /\ (o \notin crowded => \A r \in Requesters : ~Checking(r, o)')
        /\ \/ operations'[o] = 0 /\ undeleted'[o] = undeleted[o]
           \/ undeleted'[o] = undeleted[o] + 1
        /\ confirmed'[o] = confirmed[o] + 1 /\ confirmed[o] \in Nat /\ undeleted[o] \in Nat
        /\ o \notin crowded => confirmed[o] <= undeleted[o]
    BY <1>0, <2>1, FirstCheck
  <2>3. results'[o] # {}
    BY <2>2, OperationStep
  <2>4. ASSUME confirmed'[o] > undeleted'[o], o \notin crowded'
        PROVE  operations'[o] = 0
    BY <1>0, <2>2, <2>4
  <2>5. ASSUME o \notin crowded', NEW q \in Requesters, req'[q].user = o, req'[q].kind = "check"
        PROVE  FALSE
    <3>1. req'[q].stage # "none"
      <4>1. req'[q] \in Requested
        BY <2>5 DEF TypeOK, NoRequest
      <4> QED
        BY <4>1 DEF Requested, Stages
    <3> QED
      BY <1>0, <2>2, <2>5, <3>1 DEF Checking
  <2> QED
    BY <2>3, <2>4, <2>5
<1> QED
  BY <1>1, <1>2

LEMMA ConfirmedStep ==
    ASSUME TypeOK, PathOK, RowsOK, TokensOK, HoldersOK, OnceInv, ConfirmedOnce, [Next]_vars
    PROVE  ConfirmedOnce'
<1>1. ASSUME NEW o \in Users, o \notin crowded' PROVE confirmed'[o] <= 1 + undeleted'[o]
  <2>1. o \notin crowded
    BY <1>1, CrowdedGrows
  <2>2. CASE confirmed'[o] = confirmed[o] /\ undeleted'[o] = undeleted[o]
    BY <2>1, <2>2 DEF ConfirmedOnce
  <2>3. ASSUME NEW q \in Requesters, Deletes(q), req[q].user = o
        PROVE  confirmed'[o] <= 1 + undeleted'[o]
    <3>1. /\ confirmed'[o] = confirmed[o] + 1 /\ confirmed[o] \in Nat /\ undeleted[o] \in Nat
          /\ confirmed[o] <= undeleted[o] /\ undeleted'[o] \in {undeleted[o], undeleted[o] + 1}
      BY <2>1, <2>3, FirstCheck DEF OnceInv
    <3> QED
      BY <3>1
  <2> QED
    BY <2>2, <2>3, OperationStep
<1> DEFINE Sound(row, r) ==
              /\ row.status # "fail" /\ row.user = r.user
              /\ row.phone = Recipient(r.user) /\ row.checksum = <<r.user, r.content>>
<1>2. explicit' = explicit
  BY ExplicitStays
<1>3. ASSUME NEW q \in Requesters, req'[q].stage = "handle", ~explicit
      PROVE  req'[q].code \in DOMAIN rows /\ Sound(rows[req'[q].code], req'[q])
  <2>1. CASE req'[q] = req[q]
    BY <1>3, <2>1 DEF ConfirmedOnce, At
  <2>2. CASE AcceptCode(q) /\ SameRequest(q)
    <3> DEFINE t == req[q].token
    <3>1. Holds(q) /\ req[q].item.checksum = <<req[q].user, req[q].content>> /\ req[q].code = req[q].item.code
      BY <2>2 DEF AcceptCode, SameContent, hmacOfRequest, Holds, At
    <3>2. t \in DOMAIN tokens /\ req[q].code = tokens[t].code /\ tokens[t].checksum = <<req[q].user, req[q].content>>
      BY <3>1 DEF HoldersOK
    <3> DEFINE row == rows[req[q].code]
    <3>3. req[q].code \in DOMAIN rows /\ row.status # "fail" /\ row.checksum = <<req[q].user, req[q].content>>
      BY <3>2 DEF TokensOK
    <3>4. row.phone = Recipient(row.user) /\ row.checksum[1] = row.user
      BY <3>3 DEF RowsOK
    <3> HIDE DEF row
    <3>5. row.user = req[q].user
      BY <3>3, <3>4
    <3>6. Sound(row, req[q]) /\ req[q].code \in DOMAIN rows
      BY <3>3, <3>4, <3>5
    <3> QED
      BY <2>2, <3>6 DEF SameRequest, row
  <2> QED
    BY <1>3, <2>1, <2>2, RequestStep DEF NoRequest, GoesOn
<1>4. ASSUME NEW q \in Requesters, req'[q].stage = "handle", ~explicit
      PROVE  req'[q].code \in DOMAIN rows' /\ Sound(rows'[req'[q].code], req'[q])
  BY <1>3, <1>4, RowsChange
<1> QED
  BY <1>1, <1>2, <1>4 DEF ConfirmedOnce, At

-----------------------------------------------------------------------------
(* The theorems.                                                           *)

LEMMA SmsStepInv == SmsInv /\ [Next]_vars => SmsInv'
<1> SUFFICES ASSUME SmsInv, [Next]_vars PROVE SmsInv'
  OBVIOUS
<1>0. /\ TypeOK /\ PathOK /\ RowsOK /\ TokensOK /\ HoldersOK /\ TriesCounted /\ OneToken
      /\ TriesBounded
  BY DEF SmsInv
<1>1. TypeOK' /\ PathOK' /\ RowsOK' /\ TokensOK' /\ HoldersOK'
  BY <1>0, TypeStep, PathStep, RowsStep, TokensStep, HoldersStep
<1>2. TriesCounted' /\ OneToken'
  BY <1>0, <1>1, TriesStep
<1>3. TriesBounded'
  BY <1>0, BoundStep
<1> QED
  BY <1>1, <1>2, <1>3 DEF SmsInv

LEMMA StepInv == IInv /\ [Next]_vars => IInv'
<1> SUFFICES ASSUME IInv, [Next]_vars PROVE IInv'
  OBVIOUS
<1>1. SmsInv'
  BY SmsStepInv DEF IInv
<1>2. TypeOK /\ PathOK /\ RowsOK /\ TokensOK /\ HoldersOK /\ OnceInv /\ ConfirmedOnce /\ TypeOK'
  BY <1>1 DEF IInv, SmsInv
<1>3. ChecksAlone' /\ CalledBack' /\ Spent'
  BY <1>2, AloneStep, CalledBackStep, SpentStep DEF OnceInv
<1>4. ConfirmedOnce'
  BY <1>2, ConfirmedStep
<1> QED
  BY <1>1, <1>3, <1>4 DEF IInv, OnceInv

LEMMA InvHolds == Spec => []IInv
BY InvInit, StepInv, PTL DEF Spec

(* TriesBounded, for AuthSms.Handle: a code is guessed at less than        *)
(* MAX_TRIES times, over all the tokens that are issued for it, unless two *)
(* requests held the same token at a time or the cache failed to remove a  *)
(* token after a wrong code.                                               *)
THEOREM TriesAreBounded == Spec => []TriesBounded
<1>1. IInv => TriesBounded
  BY DEF IInv, SmsInv
<1> QED
  BY <1>1, InvHolds, PTL

(* ConfirmedOnce, for the two servers of confirmation control: what is     *)
(* confirmed is what the code was sent for, and an operation is confirmed  *)
(* once, and once more each time that the deletion of its token failed,    *)
(* unless two of its checks were on their way together.                    *)
THEOREM OperationIsConfirmedOnce == Spec => []ConfirmedOnce
<1>1. IInv => ConfirmedOnce
  BY DEF IInv
<1> QED
  BY <1>1, InvHolds, PTL
=============================================================================
