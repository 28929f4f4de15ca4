---------------------------- MODULE GrpcServer ------------------------------
(***************************************************************************)
(* api/api_server/grpc_api_server, with the shutdown of the mux server     *)
(* that serves REST and gRPC on one listener: the life of a unary and of a *)
(* server-streaming call from newRequest to Request.Close, and the         *)
(* shutdown that has to end them.  What an endpoint, its preprocessor, the *)
(* authentication and the client do is chosen by the environment; the      *)
(* queue a stream reads is the one of Consumer and SubscriberFanIn, here   *)
(* a count of the messages in its channel, so mq.Next leaves no trace.     *)
(* Crash recovery is on, as it is outside of tests.                        *)
(***************************************************************************)
EXTENDS OpContext, FiniteSets, Integers

CONSTANTS
    Call,                     \* every member makes one call
    MaxMessages,              \* bound of the messages published to one stream
    STREAM_HEARTBEAT_PERIOD,
    Hints                     \* heartbeat headers: 0 is absent; one that is no number counts as a long period

ASSUME GrpcServerAssumption ==
    /\ IsFiniteSet(Call)
    /\ {MaxMessages, STREAM_HEARTBEAT_PERIOD} \subseteq Nat
    /\ Hints \subseteq Nat

VARIABLES
    multitenancy,  \* IsMultitenancy()
    call,          \* Call -> its request and the handler that serves it
    alive,         \* the calls whose context is not done
    stalled,       \* the calls whose client does not read: SendMsg blocks
    inbox,         \* Call -> messages in the channel of its queue, -1 once it is closed
    published,     \* Call -> how many messages were published so far
    authTimer,     \* Call -> "none", "armed" or "fired"
    phase,         \* where MuxApiServer.Shutdown is
    shutdown,      \* the channel Server.shutdown is closed
    stopTimer      \* the timer of the forced Stop: "none", "armed", "fired" or "stopped"

clients == <<alive, stalled>>
queues == <<inbox, published>>
stopping == <<phase, shutdown, stopTimer>>
vars == <<multitenancy, call, clients, queues, authTimer, stopping>>

NoCall ==
    [kind |-> "none", pc |-> "none", ctx |-> NewContext, code |-> "OK", status |-> "none",
     answer |-> "none", accepted |-> FALSE, handled |-> "no", reply |-> FALSE, mq |-> "none",
     beats |-> FALSE, open |-> FALSE, closes |-> 0, recorded |-> 0, fault |-> "none"]

(* The server after Init and Run: the configuration is loaded, the         *)
(* services are registered, the listeners serve.                           *)
Init ==
    /\ multitenancy \in BOOLEAN
    /\ call = [c \in Call |-> NoCall]
    /\ alive = Call /\ stalled = {}
    /\ inbox = [c \in Call |-> 0] /\ published = [c \in Call |-> 0]
    /\ authTimer = [c \in Call |-> "none"]
    /\ phase = "up" /\ shutdown = FALSE /\ stopTimer = "none"

-----------------------------------------------------------------------------
(* ErrorProtocolCode, then HTTPToGRPC.                                     *)
HTTPToGRPC(error) ==
    CASE error = "not_found" -> "NotFound"
      [] error = "forbidden" -> "PermissionDenied"
      [] error = "unauthorized" -> "Unauthenticated"
      [] error \in {"bad_request", "invalid_format"} -> "InvalidArgument"
      [] error = "unimplemented" -> "Unimplemented"
      [] error = "io_aborted" -> "Aborted"
      [] OTHER -> "Internal"

(* sendStreamMsg of a call whose context is done.                          *)
GRPCToGeneric(code) == IF code = "Canceled" THEN "io_aborted" ELSE "external_service_error"

SetCode(r, error) == [r EXCEPT !.ctx = SetGenericErrorCode(@, error)]

(* The status header is "success" exactly if no error is recorded; it is   *)
(* set only while the context is alive.  The code stays as it is without   *)
(* an error.                                                               *)
FillResponse(r, live) ==
    LET error == r.ctx.genericError
    IN  [r EXCEPT !.code = IF error = NoError THEN @ ELSE HTTPToGRPC(error),
                  !.status = IF ~live THEN @ ELSE IF error = NoError THEN "success" ELSE error]

(* Request.Close.                                                          *)
CloseRequest(r) == [r EXCEPT !.ctx = CloseContext(@), !.closes = @ + 1]

Ended(r, answer) == [CloseRequest(r) EXCEPT !.answer = answer, !.pc = "done"]

Live(c) == c \in alive

Become(c, r) == call' = [call EXCEPT ![c] = r]

-----------------------------------------------------------------------------
(* newRequest: the request, its trace and, for an endpoint in a tenancy,   *)
(* the refusal of an unknown, inactive or blocked tenancy or of an address *)
(* that is not listed.                                                     *)
NewRequest(kind) ==
    [NoCall EXCEPT !.kind = kind, !.pc = "decode", !.ctx = TraceIn(@, "Server.Handle")]

Refusals == IF multitenancy THEN {NoError, "not_found", "forbidden"} ELSE {NoError}

Refused(r, refusal) ==
    FillResponse([SetCode(r, refusal) EXCEPT !.ctx = SetError(@, "Server.Handle"), !.fault = "refused"],
                 TRUE)

ReceiveUnary(c) ==
    \E refusal \in Refusals :
       Become(c, LET r == NewRequest("unary")
                     refused == Refused(r, refusal)
                 IN  IF refusal = NoError THEN r ELSE Ended(refused, refused.code))

(* A refused stream is closed, and handled on: the handler does not        *)
(* return.                                                                 *)
ReceiveStream(c) ==
    \E refusal \in Refusals :
       Become(c, LET r == NewRequest("stream")
                 IN  IF refusal = NoError
                     THEN r
                     ELSE [CloseRequest(Refused(r, refusal)) EXCEPT !.pc = "closed"])

(* What follows meets the nil context of the closed request, before the    *)
(* endpoint is reached: the deferred Close crashes as well, and the        *)
(* recovery interceptor, which does not know the request, answers.         *)
RefusedStreamCrashes(c) ==
    /\ call[c].pc = "closed"
    /\ Become(c, Ended(call[c], "Internal"))
    /\ UNCHANGED <<multitenancy, clients, queues, authTimer, stopping>>

(* An endpoint without a resource: asking it whether it is in a tenancy    *)
(* crashes.                                                                *)
UnknownHandler(c) ==
    LET r == [NewRequest("unknown") EXCEPT !.fault = IF multitenancy THEN "crash" ELSE "none"]
    IN  Become(c, IF multitenancy
                  THEN [r EXCEPT !.answer = "Internal", !.pc = "done"]
                  ELSE Ended(SetCode(r, "unimplemented"), "Unimplemented"))

Listening == phase \in {"up", "http", "signal", "graceful"} /\ stopTimer # "fired"

Receive(c) ==
    /\ call[c].pc = "none"
    /\ Listening /\ Live(c)
    /\ ReceiveUnary(c) \/ ReceiveStream(c) \/ UnknownHandler(c)
    /\ UNCHANGED <<multitenancy, clients, queues, authTimer, stopping>>

-----------------------------------------------------------------------------
(* RequestCodec.Unmarshal: preprocessor, authentication, parsing.  An      *)
(* error fills the response.  A preprocessor that fails without an error   *)
(* code leaves it "success".                                               *)
DecodeError(r, error, live) ==
    LET marked == IF error = NoError THEN r ELSE SetCode(r, error)
    IN  FillResponse([marked EXCEPT !.ctx = TraceOut(SetError(@, "Unmarshal")),
                                    !.fault = IF error = NoError THEN "silent" ELSE "none"], live)

DecodeErrors == {NoError, "bad_request", "unauthorized", "invalid_format"}

(* Unary: the status the response was filled with.  Stream: the error of   *)
(* RecvMsg, an internal one whatever the codec returned.                   *)
UnmarshalFails(c) ==
    \E error \in DecodeErrors :
       LET r == DecodeError([call[c] EXCEPT !.ctx = TraceIn(@, "Unmarshal")], error, Live(c))
       IN  /\ Become(c, IF r.kind = "unary"
                        THEN Ended(r, r.code)
                        ELSE [r EXCEPT !.answer = "Internal", !.pc = "unsubscribe"])
           /\ UNCHANGED authTimer

(* A recovered crash is marked, its error is lost: it is assigned to a     *)
(* variable that shadows the result, and the call goes on.                 *)
UnmarshalCrashes(c) ==
    /\ Become(c, FillResponse([SetCode(call[c], "internal") EXCEPT
                                 !.ctx = TraceIn(@, "Unmarshal"),
                                 !.fault = "decode", !.pc = "handle"], Live(c)))
    /\ UNCHANGED authTimer

(* Authentication by a token sets the timer of its expiration.             *)
UnmarshalSucceeds(c) ==
    /\ Become(c, [call[c] EXCEPT !.accepted = TRUE, !.pc = "handle"])
    /\ \E timer \in IF call[c].kind = "stream" THEN {"none", "armed"} ELSE {"none"} :
          authTimer' = [authTimer EXCEPT ![c] = timer]

(* The context ends while a stream waits for its first message.            *)
RecvMsgFails(c) ==
    /\ call[c].kind = "stream" /\ ~Live(c)
    /\ Become(c, [call[c] EXCEPT !.answer = "Canceled", !.pc = "unsubscribe"])
    /\ UNCHANGED authTimer

Unmarshal(c) ==
    /\ call[c].pc = "decode"
    /\ UnmarshalFails(c) \/ UnmarshalCrashes(c) \/ UnmarshalSucceeds(c) \/ RecvMsgFails(c)
    /\ UNCHANGED <<multitenancy, clients, queues, stopping>>

-----------------------------------------------------------------------------
(* handleRequest: the endpoint.  It may record an oplog, set a reply and,  *)
(* in a stream, subscribe a queue, and fail after each of these; it        *)
(* returns the context of the queue with an error as well.                 *)
Served(r, oplogs, subscribes) ==
    LET ctx == TraceIn(r.ctx, "handleRequest")
    IN  [r EXCEPT !.ctx = IF oplogs = 1 THEN Oplog(ctx) ELSE ctx,
                  !.recorded = oplogs,
                  !.mq = IF subscribes THEN "subscribed" ELSE "none"]

(* A crash in an endpoint: the deferred calls run; the recovery            *)
(* interceptor answers, and closes the request of a unary call.            *)
Crashed(r) ==
    LET out == [r EXCEPT !.ctx = TraceOut(@), !.handled = "crash"]
    IN  Ended(IF r.kind = "unary" THEN SetCode(out, "internal") ELSE out, "Internal")

Handle(c) ==
    /\ call[c].pc = "handle"
    /\ \E oplogs \in 0 .. 1, subscribes \in IF call[c].kind = "stream" THEN BOOLEAN ELSE {FALSE},
          reply \in BOOLEAN :
          LET r == [Served(call[c], oplogs, subscribes) EXCEPT !.reply = reply]
          IN  \/ Become(c, [r EXCEPT !.handled = "ok", !.pc = "respond"])
              \/ Become(c, [SetCode(r, "internal") EXCEPT
                              !.ctx = SetError(@, "handleRequest"), !.handled = "error", !.pc = "respond"])
              \/ Become(c, Crashed(r))
    /\ UNCHANGED <<multitenancy, clients, queues, authTimer, stopping>>

(* Postprocess, which runs after an error too, then the conversion of the  *)
(* reply in fillResponse.                                                  *)
Finishes(r) ==
    {r, [SetCode(r, "internal") EXCEPT !.ctx = SetError(@, "handleRequest"), !.handled = "error"]}
      \cup IF r.reply THEN {[SetCode(r, "internal") EXCEPT !.handled = "error", !.reply = FALSE]} ELSE {}

(* Faulty variant: the response is filled before Postprocess.              *)
RespondEarly(c) ==
    /\ call[c].pc = "respond"
    /\ \E r \in Finishes(FillResponse(call[c], Live(c))) :
          LET out == [r EXCEPT !.ctx = TraceOut(@)]
          IN  Become(c, IF out.kind = "unary" THEN Ended(out, out.code) ELSE [out EXCEPT !.pc = "init"])
    /\ UNCHANGED <<multitenancy, clients, queues, authTimer, stopping>>

Respond(c) ==
    /\ call[c].pc = "respond"
    /\ \E r \in Finishes(call[c]) :
          LET out == [FillResponse(r, Live(c)) EXCEPT !.ctx = TraceOut(@)]
          IN  Become(c, IF out.kind = "unary" THEN Ended(out, out.code) ELSE [out EXCEPT !.pc = "init"])
    /\ UNCHANGED <<multitenancy, clients, queues, authTimer, stopping>>

-----------------------------------------------------------------------------
(* SendMsg: it blocks while the client does not read, and fails once the   *)
(* context is done.                                                        *)
Sends(c) == Live(c) /\ c \notin stalled

(* A heartbeat is not traced.                                              *)
SendFailed(r) ==
    [SetCode(r, GRPCToGeneric("Canceled")) EXCEPT
       !.ctx = IF r.pc = "beat" THEN @ ELSE TraceOut(SetError(TraceIn(@, "SendMsg"), "SendMsg")),
       !.code = HTTPToGRPC("io_aborted"), !.answer = "Canceled", !.pc = "unsubscribe"]

streamHeartbeatPeriod(hint) ==
    LET period == IF hint < STREAM_HEARTBEAT_PERIOD THEN hint ELSE STREAM_HEARTBEAT_PERIOD
    IN  IF STREAM_HEARTBEAT_PERIOD = 0 \/ hint = 0 THEN 0 ELSE IF period < 5 THEN 5 ELSE period

(* The queue was taken from the context right after the endpoint returned, *)
(* so a stream that fails here unsubscribes it.                            *)
Leave(r, answer) == [r EXCEPT !.answer = answer, !.pc = "unsubscribe"]

(* Faulty variant: the queue is taken only by a stream that opens.         *)
LeaveInitForgetsQueue(r, answer) == [r EXCEPT !.answer = answer, !.pc = "close"]

LeaveInit(r, answer) == Leave(r, answer)

(* Request.OnStreamIntialized; the heartbeats, if the client asked for     *)
(* them, start with the loop.                                              *)
OnStreamInitialized(r, period) == [r EXCEPT !.open = TRUE, !.beats = period > 0, !.pc = "select"]

StreamInit(c) ==
    /\ call[c].pc = "init"
    /\ LET r == call[c]
       IN  \/ /\ r.reply => Sends(c)
              /\ \/ r.code # "OK" /\ Become(c, LeaveInit(r, r.code))
                 \/ r.code = "OK" /\ r.mq = "none" /\ Become(c, LeaveInit(r, "OK"))
                 \/ /\ r.code = "OK" /\ r.mq = "subscribed"
                    /\ \E hint \in Hints :
                          Become(c, OnStreamInitialized(r, streamHeartbeatPeriod(hint)))
           \/ /\ r.reply /\ ~Live(c)
              /\ Become(c, IF r.code = "OK" THEN SendFailed(r) ELSE LeaveInit(SendFailed(r), r.code))
    /\ UNCHANGED <<multitenancy, clients, queues, authTimer, stopping>>

-----------------------------------------------------------------------------
(* The select loop of an open stream.                                      *)
At(c, pc) == call[c].pc = pc

Exit(c, answer) == Become(c, Leave(call[c], answer)) /\ UNCHANGED inbox

StreamStops(c) ==
    /\ At(c, "select")
    /\ \/ ~Live(c) /\ Exit(c, "OK")
       \/ shutdown /\ Exit(c, "Aborted")
       \/ authTimer[c] = "fired" /\ Exit(c, "Aborted")
       \/ inbox[c] = -1 /\ Exit(c, "OK")
    /\ UNCHANGED <<multitenancy, clients, published, authTimer, stopping>>

StreamBeats(c) ==
    /\ At(c, "select")
    /\ call[c].beats
    /\ Become(c, [call[c] EXCEPT !.pc = "beat"])
    /\ UNCHANGED <<multitenancy, clients, queues, authTimer, stopping>>

(* A message is converted and sent, or ends the stream.                    *)
StreamMessage(c) ==
    /\ At(c, "select")
    /\ inbox[c] > 0
    /\ inbox' = [inbox EXCEPT ![c] = @ - 1]
    /\ \/ Become(c, [call[c] EXCEPT !.pc = "send"])
       \/ LET r == SetCode(call[c], "external_service_error")
          IN  Become(c, Leave(r, HTTPToGRPC(r.ctx.genericError)))
    /\ UNCHANGED <<multitenancy, clients, published, authTimer, stopping>>

StreamSent(c) ==
    /\ At(c, "send") \/ At(c, "beat")
    /\ \/ Sends(c) /\ Become(c, [call[c] EXCEPT !.pc = "select"])
       \/ ~Live(c) /\ Become(c, SendFailed(call[c]))
    /\ UNCHANGED <<multitenancy, clients, queues, authTimer, stopping>>

(* The deferred calls: mq.Unsubscribe, then the request is closed.         *)
StreamUnsubscribe(c) ==
    /\ At(c, "unsubscribe")
    /\ Become(c, [call[c] EXCEPT !.mq = IF @ = "subscribed" THEN "released" ELSE @, !.pc = "close"])
    /\ inbox' = [inbox EXCEPT ![c] = -1]
    /\ UNCHANGED <<multitenancy, clients, published, authTimer, stopping>>

StreamClose(c) ==
    /\ At(c, "close")
    /\ LET r == call[c]
           failed == ~r.open /\ r.answer # "OK"
           marked == IF failed THEN [r EXCEPT !.ctx = SetError(@, "Server.Handle")] ELSE r
       IN  Become(c, Ended([marked EXCEPT !.ctx = TraceOut(@)], r.answer))
    /\ UNCHANGED <<multitenancy, clients, queues, authTimer, stopping>>

(* Everything a handler does without the client, the queue or a timer.     *)
HandlerStep(c) ==
    \/ RefusedStreamCrashes(c) \/ Unmarshal(c) \/ Handle(c) \/ Respond(c) \/ StreamInit(c)
    \/ StreamSent(c) \/ StreamUnsubscribe(c) \/ StreamClose(c)

-----------------------------------------------------------------------------
(* The environment: clients, publishers, the clock.                        *)

Active(c) == call[c].pc \notin {"none", "done"}

Disconnect(c) ==
    /\ Active(c) /\ Live(c)
    /\ alive' = alive \ {c}
    /\ UNCHANGED <<multitenancy, call, stalled, queues, authTimer, stopping>>

Stall(c) ==
    /\ Active(c)
    /\ stalled' = IF c \in stalled THEN stalled \ {c} ELSE stalled \cup {c}
    /\ UNCHANGED <<multitenancy, call, alive, queues, authTimer, stopping>>

Publish(c) ==
    /\ call[c].mq = "subscribed"
    /\ inbox[c] >= 0 /\ published[c] < MaxMessages
    /\ inbox' = [inbox EXCEPT ![c] = @ + 1]
    /\ published' = [published EXCEPT ![c] = @ + 1]
    /\ UNCHANGED <<multitenancy, call, clients, authTimer, stopping>>

(* The consumer of the queue is closed from elsewhere.                     *)
QueueCloses(c) ==
    /\ call[c].mq = "subscribed" /\ inbox[c] = 0
    /\ inbox' = [inbox EXCEPT ![c] = -1]
    /\ UNCHANGED <<multitenancy, call, clients, published, authTimer, stopping>>

AuthTimerFires(c) ==
    /\ authTimer[c] = "armed" /\ Active(c)
    /\ authTimer' = [authTimer EXCEPT ![c] = "fired"]
    /\ UNCHANGED <<multitenancy, call, clients, queues, stopping>>

-----------------------------------------------------------------------------
(* Shutdown of the mux server, called once by the finisher: first the HTTP *)
(* server, until it is drained or its deadline, then the gRPC server.      *)

Shutdown ==
    /\ phase = "up"
    /\ phase' = "http"
    /\ UNCHANGED <<multitenancy, call, clients, queues, authTimer, shutdown, stopTimer>>

(* The REST requests are drained, or the deadline of the HTTP server's     *)
(* Shutdown has passed.                                                    *)
HttpStopped ==
    /\ phase = "http"
    /\ phase' = "signal"
    /\ UNCHANGED <<multitenancy, call, clients, queues, authTimer, shutdown, stopTimer>>

(* Faulty variant: no timer backs the graceful stop up.                    *)
SignalOnly ==
    /\ phase = "signal"
    /\ phase' = "graceful"
    /\ shutdown' = TRUE
    /\ UNCHANGED <<multitenancy, call, clients, queues, authTimer, stopTimer>>

Signal ==
    /\ phase = "signal"
    /\ phase' = "graceful"
    /\ shutdown' = TRUE
    /\ stopTimer' = "armed"
    /\ UNCHANGED <<multitenancy, call, clients, queues, authTimer>>

(* GracefulStop closes the listener and waits for the handlers.            *)
GracefulStop ==
    /\ phase = "graceful"
    /\ phase' = "draining"
    /\ UNCHANGED <<multitenancy, call, clients, queues, authTimer, shutdown, stopTimer>>

(* Stop closes the transports, which ends the contexts of the calls.       *)
ForceStop ==
    /\ stopTimer = "armed"
    /\ stopTimer' = "fired"
    /\ alive' = {}
    /\ UNCHANGED <<multitenancy, call, stalled, queues, authTimer, phase, shutdown>>

Drained ==
    /\ phase = "draining"
    /\ \A c \in Call : ~Active(c)
    /\ phase' = "stopped"
    /\ stopTimer' = IF stopTimer = "armed" THEN "stopped" ELSE stopTimer
    /\ UNCHANGED <<multitenancy, call, clients, queues, authTimer, shutdown>>

ShutdownStep == HttpStopped \/ Signal \/ GracefulStop \/ Drained

CallNext(c) ==
    \/ Receive(c) \/ HandlerStep(c)
    \/ StreamStops(c) \/ StreamBeats(c) \/ StreamMessage(c)
    \/ Disconnect(c) \/ Stall(c) \/ Publish(c) \/ QueueCloses(c) \/ AuthTimerFires(c)

Next ==
    \/ \E c \in Call : CallNext(c)
    \/ Shutdown \/ ShutdownStep \/ ForceStop

Spec == Init /\ [][Next]_vars

(* Handlers, endpoints included, and the goroutine of Shutdown run; the    *)
(* timers fire.  A select that is ready for one of its cases again and     *)
(* again takes it: the choice among the ready cases is random.             *)
Fairness ==
    /\ \A c \in Call : WF_vars(HandlerStep(c)) /\ SF_vars(StreamStops(c))
    /\ WF_vars(ShutdownStep) /\ WF_vars(ForceStop)

FairSpec == Spec /\ Fairness

-----------------------------------------------------------------------------
(* The two ways into a crash before the handler's first return: a refused  *)
(* stream, and an unknown method of a server with tenancies.               *)
Broken(r) == r.kind # "unary" /\ r.fault \in {"refused", "crash"}

(* A call that ended closed its request exactly once, with every frame of  *)
(* its trace popped and every oplog record written once, and unsubscribed  *)
(* the queue its endpoint had subscribed, whether the endpoint, the reply, *)
(* a send, the client, the timer, the queue or the shutdown ended it       *)
(* (handler.go:298-309, 321-326, 367-424; request.go:212-226).  A crash of *)
(* the endpoint alone leaves the queue to the end of the stream's context. *)
EndedIsReleased ==
    \A c \in Call : LET r == call[c] IN
       r.pc = "done" /\ ~Broken(r) =>
         /\ r.closes = 1
         /\ r.ctx.stack = <<>>
         /\ r.ctx.written = r.recorded
         /\ r.handled # "crash" => r.mq # "subscribed"

(* A call answered as a success was accepted and was handled without an    *)
(* error in the endpoint, in Postprocess or in the conversion of its       *)
(* reply; one that was not accepted is handled only if its decoding        *)
(* crashed, and even then it is not answered as a success                  *)
(* (handler.go:45-65, 454-476, 514-552).  A preprocessor that fails        *)
(* without an error code is answered as a success.                         *)
AnsweredAsHandled ==
    \A c \in Call : LET r == call[c] IN
       /\ r.handled # "no" => r.accepted \/ r.fault = "decode"
       /\ r.fault # "silent" /\ r.pc \in {"done", "init", "select", "send", "beat"} =>
            \/ r.handled = "ok" /\ r.accepted
            \/ r.status # "success" /\ (r.answer = "OK" => ~Live(c))

(* The shutdown comes to an end although a client does not read and a      *)
(* stream is blocked in SendMsg: the timer of server.go:124-131 ends its   *)
(* context, the handlers return, and GracefulStop with them                *)
(* (server.go:110-143; mux_server.go:127-144).                             *)
ShutdownReturns == phase = "http" ~> phase = "stopped"
=============================================================================
