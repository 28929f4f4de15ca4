------------------------------ MODULE SmsAuth ------------------------------
(***************************************************************************)
(* Confirmation of a request by a code that is sent by SMS: the first      *)
(* request is refused and sends a code, the second one is the same request *)
(* with the code and with the token of the first response.                 *)
(*                                                                         *)
(* What a handler does between two accesses to the cache is one step, and  *)
(* so are consecutive accesses that no other request can tell apart: a new *)
(* token is known to nobody before the response.  An encrypted token is    *)
(* its number; the code of an SMS is the number of its row, so that codes  *)
(* are distinct, and a guess is none of them.                              *)
(***************************************************************************)
EXTENDS Integers, Sequences, FiniteSets, SequencesExt, TLC

CONSTANTS
    Requesters,       \* each of them has at most one request on its way
    Users, Contents,  \* whose requests are confirmed, and the bodies of the requests
    MaxTries, TokenTtl, DelayTtl,   \* MAX_TRIES, TOKEN_TTL_SECONDS, SMS_DELAY_SECONDS
    Destinations, DefaultProvider,  \* the routes, a sequence of [prefix, provider], of the SMS manager
    MaxTime, MaxSms, MaxFaults      \* bounds of the clock, the messages and the faults

ASSUME SmsAssumption ==
    /\ {TokenTtl, DelayTtl, MaxTries} \subseteq Nat \ {0} /\ MaxTries > 1
    /\ {MaxTime, MaxSms, MaxFaults} \subseteq Nat

VARIABLES
    clock,
    tokens,   \* the tokens that were issued, and what the cache keeps for each
    delay,    \* user -> the time at which the delay leaves the cache
    rows,     \* the table of messages
    req,      \* requester -> its request
    faults,
    guesses,  \* message -> how often a request with a wrong code was checked against it
    shared    \* messages with a token that served twice: two requests held it at the same time, or it
              \* stayed in the cache after a wrong code

smsVars == <<clock, tokens, delay, rows, req, faults, guesses, shared>>

NoCode == 0
Guess == -1
NoCacheToken == [live |-> FALSE, exp |-> 0, try |-> 0, code |-> NoCode, checksum |-> <<>>]
NoRequest == [stage |-> "none", kind |-> "none", user |-> "none", content |-> "none", phone |-> <<>>, code |-> NoCode,
              token |-> 0, item |-> NoCacheToken]

InitSms ==
    /\ clock = 0
    /\ tokens = <<>>
    /\ delay = [u \in Users |-> 0]
    /\ rows = <<>>
    /\ req = [q \in Requesters |-> NoRequest]
    /\ faults = 0
    /\ guesses = <<>>
    /\ shared = {}

At(q, stage) == req[q].stage = stage
Goto(q, stage) == req' = [req EXCEPT ![q].stage = stage]
\* The request is answered, with an error or not.
Answer(q) == req' = [req EXCEPT ![q] = NoRequest]
Fault == faults < MaxFaults /\ faults' = faults + 1

\* hmacOfRequest: the user, the method and path, and the body.
hmacOfRequest(request) == <<request.user, request.content>>

----------------------------------------------------------------------------
(* The SMS manager *)

\* The destinations are sorted by the length of their prefix; the first that fits is taken.
Fits(destination, phone) == IsPrefix(destination.prefix, phone)
ProviderOf(phone) ==
    LET sorted == SortSeq(Destinations, LAMBDA a, b : Len(a.prefix) > Len(b.prefix))
        fitting == SelectSeq(sorted, LAMBDA d : Fits(d, phone))
    IN IF fitting = <<>> THEN DefaultProvider ELSE Head(fitting).provider

\* Send: the row is created, the provider is called, the status is saved.  A status that is not
\* saved is only logged.
Row(q, status) == [user |-> req[q].user, checksum |-> hmacOfRequest(req[q]), phone |-> req[q].phone,
                   provider |-> ProviderOf(req[q].phone), status |-> status]
Sent(q, status) == rows' = Append(rows, Row(q, status)) /\ guesses' = Append(guesses, 0)

----------------------------------------------------------------------------
(* AuthSms.Handle with a code *)

Cached(t) == t \in DOMAIN tokens /\ tokens[t].live /\ clock < tokens[t].exp
\* setToken: kept in the cache and put into the response, where it lives equally long.
CacheToken(try, code, checksum) ==
    [live |-> TRUE, exp |-> clock + TokenTtl, try |-> try, code |-> code, checksum |-> checksum]
\* Unset is a call whose error is ignored wherever it is made.
Unset(t) == [tokens EXCEPT ![t].live = FALSE]

HasCode(q) == At(q, "sms") /\ req[q].code # NoCode

\* No token in the request, an old one, or one that the cache does not know: sms_token_required,
\* sms_token_expired.
RefuseToken(q) ==
    /\ HasCode(q) /\ ~Cached(req[q].token)
    /\ Answer(q)
    /\ UNCHANGED <<clock, tokens, delay, rows, faults, guesses, shared>>

\* sms_too_many_tries
RefuseTries(q) ==
    /\ HasCode(q) /\ Cached(req[q].token) /\ tokens[req[q].token].try >= MaxTries
    /\ \/ tokens' = Unset(req[q].token) /\ UNCHANGED faults
       \/ UNCHANGED tokens /\ Fault
    /\ Answer(q)
    /\ UNCHANGED <<clock, delay, rows, guesses, shared>>

\* The request goes on with its own copy of the cached token.
Readers(t) == {q \in Requesters : At(q, "code") /\ req[q].token = t}
ReadToken(q) ==
    /\ HasCode(q) /\ Cached(req[q].token) /\ tokens[req[q].token].try < MaxTries
    /\ LET item == tokens[req[q].token]
       IN /\ req' = [req EXCEPT ![q].stage = "code", ![q].item = item]
          /\ shared' = IF Readers(req[q].token) = {} THEN shared ELSE shared \union {item.code}
    /\ UNCHANGED <<clock, tokens, delay, rows, faults, guesses>>

SameContent(q) == req[q].item.checksum = hmacOfRequest(req[q])
\* sms_content_mismatch
RefuseContent(q) ==
    /\ At(q, "code") /\ ~SameContent(q)
    /\ Answer(q)
    /\ UNCHANGED <<clock, tokens, delay, rows, faults, guesses, shared>>

\* sms_code_invalid: the old token is removed, and the response has a new one with one try more.
WrongCode(q) == At(q, "code") /\ SameContent(q) /\ req[q].code # req[q].item.code
NextToken(q, try) == CacheToken(try, req[q].item.code, req[q].item.checksum)
RetryToken(q, try) == Append(Unset(req[q].token), NextToken(q, try))
Counted(q) == guesses' = [guesses EXCEPT ![req[q].item.code] = @ + 1]
RefuseCodeUncounted(q) ==
    /\ WrongCode(q) /\ Counted(q)
    /\ tokens' = RetryToken(q, req[q].item.try)
    /\ Answer(q)
    /\ UNCHANGED <<clock, delay, rows, faults, shared>>
RefuseCode(q) ==
    /\ WrongCode(q) /\ Counted(q)
    /\ tokens' = RetryToken(q, req[q].item.try + 1)
    /\ Answer(q)
    /\ UNCHANGED <<clock, delay, rows, faults, shared>>
\* The new token is not kept.
RetryFails(q) ==
    /\ WrongCode(q) /\ Counted(q) /\ Fault
    /\ tokens' = Unset(req[q].token)
    /\ Answer(q)
    /\ UNCHANGED <<clock, delay, rows, shared>>
\* The old token is not removed, and stays with the tries it had, beside the new one if that is kept.
RetryLeavesToken(q) ==
    /\ WrongCode(q) /\ Counted(q) /\ Fault
    /\ tokens' \in {tokens, Append(tokens, NextToken(q, req[q].item.try + 1))}
    /\ shared' = shared \union {req[q].item.code}
    /\ Answer(q)
    /\ UNCHANGED <<clock, delay, rows>>

\* The right code: the token and the delay are removed.
AcceptCode(q) ==
    /\ At(q, "code") /\ SameContent(q) /\ req[q].code = req[q].item.code
    /\ LET removed == Unset(req[q].token)
           undelayed == [delay EXCEPT ![req[q].user] = 0]
       IN \/ tokens' = removed /\ delay' = undelayed /\ UNCHANGED faults
          \/ tokens' \in {tokens, removed} /\ delay' \in {delay, undelayed} /\ Fault
    /\ Goto(q, "handle")
    /\ UNCHANGED <<clock, rows, guesses, shared>>

----------------------------------------------------------------------------
(* AuthSms.Handle without a code *)

Delayed(u) == clock < delay[u]
\* sms_wait_delay, sms_invalid_phone
ReadDelay(q) ==
    /\ At(q, "sms") /\ req[q].code = NoCode
    /\ IF Delayed(req[q].user) \/ req[q].phone = <<>> THEN Answer(q) ELSE Goto(q, "send")
    /\ UNCHANGED <<clock, tokens, delay, rows, faults, guesses, shared>>

\* sms_confirmation_required: the message is sent, the token is kept and the delay starts, if
\* the cache takes it.
SendCode(q) ==
    /\ At(q, "send") /\ Len(rows) < MaxSms
    /\ LET delayed == [delay EXCEPT ![req[q].user] = clock + DelayTtl]
       IN \/ Sent(q, "success") /\ delay' = delayed /\ UNCHANGED faults
          \/ Sent(q, "sending") /\ delay' \in {delay, delayed} /\ Fault
          \/ Sent(q, "success") /\ UNCHANGED delay /\ Fault
    /\ tokens' = Append(tokens, CacheToken(1, Len(rows) + 1, hmacOfRequest(req[q])))
    /\ Answer(q)
    /\ UNCHANGED <<clock, shared>>

\* The row is not created, the provider fails (although the message may arrive), or the cache
\* does after the provider: no token, and no delay.
SendFails(q) ==
    /\ At(q, "send") /\ Len(rows) < MaxSms /\ Fault
    /\ \/ UNCHANGED <<rows, guesses>>
       \/ \E status \in {"fail", "success"} : Sent(q, status)
    /\ Answer(q)
    /\ UNCHANGED <<clock, tokens, delay, shared>>

SmsStep(q) ==
    \/ RefuseToken(q) \/ RefuseTries(q) \/ ReadToken(q) \/ RefuseContent(q) \/ RefuseCode(q) \/ RetryFails(q)
    \/ RetryLeavesToken(q) \/ AcceptCode(q) \/ ReadDelay(q) \/ SendCode(q) \/ SendFails(q)

----------------------------------------------------------------------------
(* Properties *)

\* A code is guessed at less than MAX_TRIES times, over all the tokens that are issued for it one
\* after the other (RefuseCode moves the count to a new token), with two exceptions: two requests
\* held the same token at the same time, or the cache failed to remove a token after a wrong code,
\* an error that Handle ignores.  Tokens that could not be removed after the last try, or after
\* the right code, give no guess more.
TriesBounded == \A s \in DOMAIN rows : s \notin shared => guesses[s] < MaxTries
=============================================================================
