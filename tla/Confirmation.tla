---------------------------- MODULE Confirmation ----------------------------
(***************************************************************************)
(* Confirmation control: an application prepares an operation at the       *)
(* internal server; the user's browser checks the confirmation, or reports *)
(* a failure, at the external server, which calls the application back.    *)
(* The user of a request is the operation it is about: its pseudo user has *)
(* the operation's id and the phone of its recipient.                      *)
(***************************************************************************)
EXTENDS SmsAuth

CONSTANTS
    Recipient(_),        \* operation -> phone
    OperationTtl, LongTtl,  \* TOKEN_TTL of the internal server, and a greater one that a command asks for
    MaxRequests,         \* bound of the requests of the browser
    Reports              \* bound: the requests, by their number, that may be other than a check

ASSUME ConfirmationAssumption == {OperationTtl, LongTtl, MaxRequests} \subseteq Nat

VARIABLES
    explicit,   \* EXPLICIT_CODE_CHECK: the application checks the code itself
    operations, \* operation -> the time at which its token leaves the cache
    results,    \* operation -> the statuses that the application was called back with
    confirmed,  \* operation -> how many checks were answered with success
    undeleted,  \* operation -> how often its token could not be deleted
    crowded,    \* operations of which two checks were on their way at the same time
    made        \* how many requests were made

confirmationVars == <<explicit, operations, results, confirmed, undeleted, crowded, made>>
vars == <<smsVars, confirmationVars>>

Init ==
    /\ InitSms
    /\ explicit \in BOOLEAN
    /\ operations = [o \in Users |-> 0]
    /\ results = [o \in Users |-> {}]
    /\ confirmed = [o \in Users |-> 0]
    /\ undeleted = [o \in Users |-> 0]
    /\ crowded = {}
    /\ made = 0

Prepared(o) == clock < operations[o]

----------------------------------------------------------------------------
(* The internal server *)

\* PrepareOperation: a longer time to live is taken from the command, and one second is added.
\* The application prepares, and repeats that, until it is called back.
Ttl(asked) == IF asked > OperationTtl THEN asked + 1 ELSE OperationTtl
PrepareOperation(o) ==
    /\ results[o] = {}
    /\ \E asked \in {0, LongTtl} : operations' = [operations EXCEPT ![o] = clock + Ttl(asked)]
    /\ operations' # operations
    /\ UNCHANGED <<smsVars, explicit, results, confirmed, undeleted, crowded, made>>

----------------------------------------------------------------------------
(* The external server *)

\* The browser checks the confirmation, prepares that, or reports a failure.  It knows the tokens
\* of the responses and the codes of the messages.
Codes == {NoCode, Guess} \union DOMAIN rows
Checks(o) == {q \in Requesters : req[q].user = o /\ req[q].kind = "check" /\ ~At(q, "none")}
Request(q) ==
    /\ At(q, "none") /\ made < MaxRequests
    /\ \E o \in Users, kind \in {"check", "prepare_check", "failed", "cancelled"}, content \in Contents, code \in Codes :
         \E token \in {0} \union (IF code = NoCode THEN {} ELSE DOMAIN tokens) :
           /\ kind # "check" => made + 1 \in Reports /\ code = NoCode /\ content = CHOOSE c \in Contents : TRUE
           /\ req' = [req EXCEPT ![q] = [NoRequest EXCEPT !.stage = "arrive", !.kind = kind, !.user = o,
                                                          !.content = content, !.code = code, !.token = token]]
           /\ crowded' = IF kind = "check" /\ Checks(o) # {} THEN crowded \union {o} ELSE crowded
    /\ made' = made + 1
    /\ UNCHANGED <<clock, tokens, delay, rows, faults, guesses, shared, explicit, operations, results, confirmed,
                   undeleted>>

Reads(q) == At(q, "arrive") /\ req[q].kind \in {"check", "prepare_check"}
\* GetTokenFromCache, by CachedPhoneAuthMethod and PrecheckBeforeAuth, or by PrepareCheckConfirmation.
RefuseOperation(q) ==
    /\ Reads(q) /\ ~Prepared(req[q].user)
    /\ Answer(q)
    /\ UNCHANGED <<clock, tokens, delay, rows, faults, guesses, shared, confirmationVars>>
CachedPhone(q) ==
    /\ Reads(q) /\ Prepared(req[q].user)
    /\ \/ req[q].kind = "prepare_check" /\ Answer(q)
       \/ req[q].kind = "check" /\ explicit /\ Goto(q, "handle")
       \/ /\ req[q].kind = "check" /\ ~explicit
          /\ req' = [req EXCEPT ![q].stage = "sms", ![q].phone = Recipient(req[q].user)]
    /\ UNCHANGED <<clock, tokens, delay, rows, faults, guesses, shared, confirmationVars>>

\* An error of the cache.
CacheFails(q) ==
    /\ Reads(q) \/ At(q, "sms")
    /\ Fault
    /\ Answer(q)
    /\ UNCHANGED <<clock, tokens, delay, rows, guesses, shared, confirmationVars>>

\* The callback: the application handles the result and its answer arrives, or is lost, or the
\* application is not reached or refuses.
Calls(q) == At(q, "handle") \/ (At(q, "arrive") /\ req[q].kind \in {"failed", "cancelled"})
Status(q) ==
    IF req[q].kind # "check" THEN req[q].kind ELSE IF explicit THEN "code" ELSE "success"
Handled(q) == results' = [results EXCEPT ![req[q].user] = @ \union {Status(q)}]
ConfirmationCallback(q) ==
    /\ Calls(q) /\ Handled(q)
    /\ IF req[q].kind = "check" THEN Goto(q, "delete") ELSE Answer(q)
    /\ UNCHANGED <<clock, tokens, delay, rows, faults, guesses, shared, explicit, operations, confirmed, undeleted,
                   crowded, made>>
CallbackFails(q) ==
    /\ Calls(q) /\ Fault
    /\ Handled(q) \/ UNCHANGED results
    /\ Answer(q)
    /\ UNCHANGED <<clock, tokens, delay, rows, guesses, shared, explicit, operations, confirmed, undeleted, crowded,
                   made>>

\* DeleteTokenFromCache, and the answer: the operation is confirmed.
Confirms(q) ==
    /\ At(q, "delete")
    /\ confirmed' = [confirmed EXCEPT ![req[q].user] = @ + 1]
    /\ Answer(q)
ForgetToDelete(q) ==
    /\ Confirms(q)
    /\ UNCHANGED <<clock, tokens, delay, rows, faults, guesses, shared, explicit, operations, results, undeleted,
                   crowded, made>>
DeleteTokenFromCache(q) ==
    /\ Confirms(q)
    /\ operations' = [operations EXCEPT ![req[q].user] = 0]
    /\ UNCHANGED <<clock, tokens, delay, rows, faults, guesses, shared, explicit, results, undeleted, crowded, made>>
\* An error of the deletion is only logged: the token stays.
DeleteFails(q) ==
    /\ Confirms(q) /\ Fault
    /\ undeleted' = [undeleted EXCEPT ![req[q].user] = @ + 1]
    /\ UNCHANGED <<clock, tokens, delay, rows, guesses, shared, explicit, operations, results, crowded, made>>

Tick ==
    /\ clock < MaxTime
    /\ clock' = clock + 1
    /\ UNCHANGED <<tokens, delay, rows, req, faults, guesses, shared, confirmationVars>>

ServerStep(q) ==
    \/ RefuseOperation(q) \/ CachedPhone(q) \/ CacheFails(q) \/ ConfirmationCallback(q) \/ CallbackFails(q)
    \/ DeleteTokenFromCache(q) \/ DeleteFails(q) \/ (SmsStep(q) /\ UNCHANGED confirmationVars)

Next ==
    \/ \E o \in Users : PrepareOperation(o)
    \/ \E q \in Requesters : Request(q) \/ ServerStep(q)
    \/ Tick
Spec == Init /\ [][Next]_vars

----------------------------------------------------------------------------
(* Properties *)

\* What is confirmed is what the code was sent for: the code of the request is that of a message
\* to the operation's recipient, which the provider took, about this operation with this body.
\* And it is confirmed once: the browser is told of success for one check of an operation at most,
\* although the token is deleted after the callback, and for one more each time that the deletion
\* failed, which the code only logs; unless two checks were on their way together.
ConfirmedOnce ==
    /\ \A o \in Users : o \notin crowded => confirmed[o] <= 1 + undeleted[o]
    /\ \A q \in Requesters :
         At(q, "handle") /\ ~explicit =>
           LET code == req[q].code
           IN /\ code \in DOMAIN rows /\ rows[code].status # "fail"
              /\ rows[code].user = req[q].user /\ rows[code].phone = Recipient(req[q].user)
              /\ rows[code].checksum = <<req[q].user, req[q].content>>
=============================================================================
