-------------------------- MODULE GrpcServerProofs --------------------------
(***************************************************************************)
(* Proofs about GrpcServer: what a call leaves behind and how it is        *)
(* answered, for any number of calls, messages and heartbeat hints.        *)
(***************************************************************************)
EXTENDS GrpcServer, SequenceTheorems, TLAPS

-----------------------------------------------------------------------------
(* The context of an operation.                                            *)

Traced == {"Server.Handle", "Unmarshal", "handleRequest", "SendMsg"}
Errors ==
    {"not_found", "forbidden", "unauthorized", "bad_request", "invalid_format", "unimplemented",
     "io_aborted", "internal", "external_service_error"}
Frames == [method : Traced, failed : BOOLEAN]
Stacks == Seq(Frames)
Logs == Seq({"success", "error"})
Context ==
    [stack : Stacks, errorStack : Stacks, genericError : Errors \union {NoError}, oplogs : Nat,
     written : Nat, log : Logs]

(* What only Oplog, SetGenericErrorCode and Close change.                  *)
SameBooks(a, b) ==
    a.genericError = b.genericError /\ a.oplogs = b.oplogs /\ a.written = b.written

LEMMA TraceInBooks ==
    ASSUME NEW ctx \in Context, NEW method \in Traced
    PROVE  TraceIn(ctx, method) \in Context /\ SameBooks(TraceIn(ctx, method), ctx)
<1>1. ctx.stack \in Stacks /\ Frame(method) \in Frames
  BY DEF Context, Frames, Frame
<1>2. Append(ctx.stack, Frame(method)) \in Stacks
  BY <1>1, AppendProperties DEF Stacks
<1> QED
  BY <1>2 DEF TraceIn, Context, SameBooks

LEMMA SetErrorBooks ==
    ASSUME NEW ctx \in Context, NEW method \in Traced
    PROVE  SetError(ctx, method) \in Context /\ SameBooks(SetError(ctx, method), ctx)
<1> DEFINE st == ctx.stack
<1> DEFINE marked == [i \in DOMAIN st |-> IF st[i].method = method THEN [st[i] EXCEPT !.failed = TRUE] ELSE st[i]]
<1>1. st \in Stacks
  BY DEF Context
<1>2. \A i \in 1 .. Len(st) : marked[i] \in Frames
  <2> SUFFICES ASSUME NEW i \in 1 .. Len(st) PROVE marked[i] \in Frames
    OBVIOUS
  <2>1. st[i] \in Frames
    BY <1>1 DEF Stacks
  <2>2. [st[i] EXCEPT !.failed = TRUE] \in Frames
    BY <2>1 DEF Frames
  <2>3. marked[i] = IF st[i].method = method THEN [st[i] EXCEPT !.failed = TRUE] ELSE st[i]
    BY <1>1 DEF Stacks
  <2> QED
    BY <2>1, <2>2, <2>3
<1>3. DOMAIN st = 1 .. Len(st) /\ Len(st) \in Nat
  BY <1>1 DEF Stacks
<1>4. marked \in [1 .. Len(st) -> Frames]
  BY <1>2, <1>3
<1> HIDE DEF marked
<1>5. marked \in Stacks
  BY <1>3, <1>4, SeqDef DEF Stacks
<1>6. SetError(ctx, method) = [ctx EXCEPT !.stack = marked]
  BY DEF SetError, marked
<1> QED
  BY <1>5, <1>6 DEF Context, SameBooks

LEMMA TraceOutBooks ==
    ASSUME NEW ctx \in Context
    PROVE  TraceOut(ctx) \in Context /\ SameBooks(TraceOut(ctx), ctx)
<1> DEFINE st == ctx.stack
<1> DEFINE n == Len(st)
<1>1. st \in Stacks /\ n \in Nat
  BY DEF Context, Stacks
<1>2. CASE n = 0
  BY <1>2 DEF TraceOut, SameBooks
<1>3. CASE n # 0
  <2> DEFINE popped == SubSeq(st, 1, n - 1)
  <2> DEFINE errors == IF st[n].failed /\ ctx.errorStack = <<>> THEN st ELSE ctx.errorStack
  <2>1. popped \in Stacks
    BY <1>1, <1>3, SubSeqProperties DEF Stacks
  <2>2. errors \in Stacks
    BY <1>1 DEF Context
  <2>3. TraceOut(ctx) = [ctx EXCEPT !.errorStack = errors, !.stack = popped]
    BY <1>3 DEF TraceOut
  <2> HIDE DEF popped, errors
  <2> QED
    BY <2>1, <2>2, <2>3 DEF Context, SameBooks
<1> QED
  BY <1>2, <1>3

LEMMA SetGenericErrorCodeBooks ==
    ASSUME NEW ctx \in Context, NEW code \in Errors
    PROVE  LET set == SetGenericErrorCode(ctx, code)
           IN  /\ set \in Context /\ set.oplogs = ctx.oplogs /\ set.written = ctx.written
               /\ set.genericError = IF ctx.genericError = NoError THEN code ELSE ctx.genericError
BY DEF SetGenericErrorCode, Context

LEMMA OplogBooks ==
    ASSUME NEW ctx \in Context
    PROVE  /\ Oplog(ctx) \in Context /\ Oplog(ctx).genericError = ctx.genericError
           /\ Oplog(ctx).written = ctx.written /\ Oplog(ctx).oplogs = ctx.oplogs + 1
<1>1. ctx.oplogs + 1 \in Nat
  BY DEF Context
<1> QED
  BY <1>1 DEF Oplog, Context

(* Close pops every frame, writes every record and forgets the error.      *)
LEMMA CloseContextBooks ==
    ASSUME NEW ctx \in Context
    PROVE  LET closed == CloseContext(ctx)
           IN  /\ closed \in Context /\ closed.stack = <<>> /\ closed.oplogs = 0
               /\ closed.written = ctx.written + ctx.oplogs /\ closed.genericError = NoError
<1> DEFINE outcome(errorStack) == IF errorStack = <<>> THEN "success" ELSE "error"
<1> DEFINE errors == IF ctx.errorStack = <<>> THEN FirstFailure(ctx.stack) ELSE ctx.errorStack
<1> DEFINE log == Append(ctx.log, outcome(errors))
<1>1. ctx.log \in Logs /\ outcome(errors) \in {"success", "error"}
  BY DEF Context
<1>2. log \in Logs
  <2> HIDE DEF outcome, errors
  <2> QED
    BY <1>1, AppendProperties DEF Logs
<1> DEFINE w == ctx.written + ctx.oplogs
<1> DEFINE empty == <<>>
<1>3. CloseContext(ctx) = [ctx EXCEPT !.stack = empty, !.written = w, !.oplogs = 0, !.log = log,
                                      !.errorStack = empty, !.genericError = NoError]
  BY DEF CloseContext
<1>4. empty \in Stacks /\ w \in Nat
  BY EmptySeq DEF Context, Stacks
<1> HIDE DEF log, w, empty
<1>5. /\ CloseContext(ctx).stack = empty
      /\ CloseContext(ctx).oplogs = 0 /\ CloseContext(ctx).written = w
      /\ CloseContext(ctx).genericError = NoError
  BY <1>2, <1>3, <1>4 DEF Context
<1>6. CloseContext(ctx) \in Context
  <2> DEFINE half == [ctx EXCEPT !.stack = empty, !.written = w, !.oplogs = 0]
  <2>1. half \in Context
    BY <1>4 DEF Context
  <2>2. CloseContext(ctx) = [half EXCEPT !.log = log, !.errorStack = empty, !.genericError = NoError]
    BY <1>3
  <2> HIDE DEF half
  <2> QED
    BY <1>2, <1>4, <2>1, <2>2 DEF Context
<1> QED
  BY <1>5, <1>6 DEF w, empty

LEMMA NewContextBooks ==
    /\ NewContext \in Context /\ NewContext.genericError = NoError
    /\ NewContext.oplogs = 0 /\ NewContext.written = 0
<1>1. <<>> \in Stacks /\ <<>> \in Logs
  BY EmptySeq DEF Stacks, Logs
<1> QED
  BY <1>1 DEF NewContext, Context

-----------------------------------------------------------------------------
(* The record of a call.                                                   *)

Fields ==
    {"kind", "pc", "ctx", "code", "status", "answer", "accepted", "handled", "reply", "mq",
     "beats", "open", "closes", "recorded", "fault"}
Shape(r) == r = [f \in Fields |-> r[f]] /\ r.ctx \in Context /\ r.closes \in Nat
Keeps(s, r, changed) == \A f \in Fields \ changed : s[f] = r[f]

LEMMA NoCallIs == Shape(NoCall)
<1>1. NewContext \in Context
  BY NewContextBooks
<1>2. NoCall = [f \in Fields |-> NoCall[f]]
  BY DEF NoCall, Fields
<1>3. NoCall.ctx = NewContext /\ NoCall.closes = 0
  BY DEF NoCall
<1> QED
  BY <1>1, <1>2, <1>3 DEF Shape

LEMMA NewRequestIs ==
    ASSUME NEW kind
    PROVE  LET s == NewRequest(kind)
           IN  /\ Shape(s) /\ Keeps(s, NoCall, {"kind", "pc", "ctx"})
               /\ s.kind = kind /\ s.pc = "decode" /\ SameBooks(s.ctx, NewContext)
<1>1. "Server.Handle" \in Traced
  BY DEF Traced
<1> DEFINE x == TraceIn(NewContext, "Server.Handle")
<1>2. x \in Context /\ SameBooks(x, NewContext)
  BY <1>1, NewContextBooks, TraceInBooks
<1>3. NewRequest(kind) = [NoCall EXCEPT !.kind = kind, !.pc = "decode", !.ctx = x]
  BY DEF NewRequest, NoCall
<1>4. Shape(NoCall)
  BY NoCallIs
<1> HIDE DEF x
<1> QED
  BY <1>2, <1>3, <1>4 DEF Shape, Keeps, Fields

LEMMA SetCodeIs ==
    ASSUME NEW r, Shape(r), NEW error \in Errors
    PROVE  LET s == SetCode(r, error)
           IN  /\ Shape(s) /\ Keeps(s, r, {"ctx"})
               /\ s.ctx.oplogs = r.ctx.oplogs /\ s.ctx.written = r.ctx.written
               /\ s.ctx.genericError = IF r.ctx.genericError = NoError THEN error ELSE r.ctx.genericError
               /\ s.ctx.genericError # NoError
<1> DEFINE x == SetGenericErrorCode(r.ctx, error)
<1>1. /\ x \in Context /\ x.oplogs = r.ctx.oplogs /\ x.written = r.ctx.written
      /\ x.genericError = IF r.ctx.genericError = NoError THEN error ELSE r.ctx.genericError
  BY SetGenericErrorCodeBooks DEF Shape
<1>2. x.genericError # NoError
  BY <1>1 DEF Errors, NoError
<1>3. SetCode(r, error) = [r EXCEPT !.ctx = x]
  BY DEF SetCode
<1> HIDE DEF x
<1> QED
  BY <1>1, <1>2, <1>3 DEF Shape, Keeps, Fields

(* An error never becomes the status of a success.                         *)
LEMMA FillResponseIs ==
    ASSUME NEW r, Shape(r), NEW live \in BOOLEAN
    PROVE  LET s == FillResponse(r, live)
           IN  /\ Shape(s) /\ Keeps(s, r, {"code", "status"})
               /\ r.ctx.genericError = NoError => s.code = r.code
               /\ r.ctx.genericError # NoError => /\ s.code # "OK"
                                                  /\ s.status = r.status \/ s.status # "success"
<1> DEFINE error == r.ctx.genericError
<1> DEFINE code == IF error = NoError THEN r.code ELSE HTTPToGRPC(error)
<1> DEFINE status == IF ~live THEN r.status ELSE IF error = NoError THEN "success" ELSE error
<1>1. FillResponse(r, live) = [r EXCEPT !.code = code, !.status = status]
  BY DEF FillResponse, Shape
<1>2. error # NoError => code # "OK" /\ (status = r.status \/ status # "success")
  <2>1. error # NoError => error \in Errors
    BY DEF Shape, Context
  <2>2. \A e \in Errors : e # "success" /\ HTTPToGRPC(e) # "OK"
    BY DEF Errors, HTTPToGRPC
  <2> QED
    BY <2>1, <2>2
<1>3. error = NoError => code = r.code
  OBVIOUS
<1> HIDE DEF code, status
<1> QED
  BY <1>1, <1>2, <1>3 DEF Shape, Keeps, Fields

(* Request.Close.                                                          *)
Released(r) == r.closes = 1 /\ r.ctx.stack = <<>> /\ r.ctx.written = r.recorded
StillOpen(r) == r.closes = 0 /\ r.ctx.written = 0 /\ r.ctx.oplogs = r.recorded /\ r.recorded \in Nat

LEMMA CloseRequestIs ==
    ASSUME NEW r, Shape(r)
    PROVE  LET s == CloseRequest(r)
           IN  /\ Shape(s) /\ Keeps(s, r, {"ctx", "closes"})
               /\ StillOpen(r) => Released(s)
<1> DEFINE x == CloseContext(r.ctx)
<1> DEFINE n == r.closes + 1
<1>1. x \in Context /\ x.stack = <<>> /\ x.written = r.ctx.written + r.ctx.oplogs
  BY CloseContextBooks DEF Shape
<1>2. CloseRequest(r) = [r EXCEPT !.ctx = x, !.closes = n] /\ n \in Nat
  BY DEF CloseRequest, Shape
<1>3. StillOpen(r) => n = 1 /\ x.written = r.recorded
  BY <1>1 DEF StillOpen
<1> HIDE DEF x, n
<1>4. Shape(CloseRequest(r)) /\ Keeps(CloseRequest(r), r, {"ctx", "closes"})
  BY <1>1, <1>2 DEF Shape, Keeps, Fields
<1>5. CloseRequest(r).ctx = x /\ CloseRequest(r).closes = n /\ CloseRequest(r).recorded = r.recorded
  BY <1>2 DEF Shape, Fields
<1> QED
  BY <1>1, <1>3, <1>4, <1>5 DEF Released

LEMMA EndedIs ==
    ASSUME NEW r, Shape(r), NEW answer
    PROVE  LET s == Ended(r, answer)
           IN  /\ Shape(s) /\ Keeps(s, r, {"ctx", "closes", "answer", "pc"})
               /\ s.answer = answer /\ s.pc = "done"
               /\ StillOpen(r) => Released(s)
<1> DEFINE q == CloseRequest(r)
<1>1. Shape(q) /\ Keeps(q, r, {"ctx", "closes"}) /\ (StillOpen(r) => Released(q))
  BY CloseRequestIs
<1>2. Ended(r, answer) = [q EXCEPT !.answer = answer, !.pc = "done"]
  BY DEF Ended
<1> HIDE DEF q
<1>3. /\ Shape(Ended(r, answer)) /\ Keeps(Ended(r, answer), q, {"answer", "pc"})
      /\ Ended(r, answer).answer = answer /\ Ended(r, answer).pc = "done"
  BY <1>1, <1>2 DEF Shape, Keeps, Fields
<1>4. Released(q) => Released(Ended(r, answer))
  BY <1>3 DEF Released, Keeps, Fields
<1> QED
  BY <1>1, <1>3, <1>4 DEF Keeps

-----------------------------------------------------------------------------
(* The inductive invariant, for one call and where its handler is.         *)

Well(r) == r.handled = "ok" /\ r.accepted
Ill(r) == r.status # "success" /\ r.answer # "OK"
Settled(r) == r.fault = "silent" \/ Well(r) \/ Ill(r)

(* Before the endpoint was called.                                         *)
Unserved(r) ==
    /\ r.kind \in {"unary", "stream"} /\ StillOpen(r) /\ r.recorded = 0
    /\ r.handled = "no" /\ r.mq = "none" /\ Ill(r)
AtDecode(r) ==
    /\ Unserved(r) /\ ~r.accepted /\ r.fault = "none"
    /\ r.ctx.genericError = NoError
AtHandle(r) ==
    /\ Unserved(r)
    /\ \/ r.accepted /\ r.fault = "none"
       \/ r.fault = "decode" /\ r.ctx.genericError # NoError

(* Before the response is filled: whatever went wrong left an error.       *)
AtRespond(r) ==
    /\ r.kind \in {"unary", "stream"} /\ StillOpen(r) /\ Ill(r)
    /\ r.fault \in {"none", "decode"} /\ (r.accepted \/ r.fault = "decode")
    /\ Well(r) \/ r.ctx.genericError # NoError
    /\ r.kind = "unary" => r.mq = "none"

(* A stream.                                                               *)
Streams(r) ==
    /\ r.kind = "stream" /\ StillOpen(r) /\ r.fault \in {"none", "decode", "silent"}
    /\ r.handled # "no" => r.accepted \/ r.fault = "decode"
AtInit(r) == Streams(r) /\ (Well(r) \/ Ill(r)) /\ (Well(r) \/ r.code # "OK")
AtLoop(r) == Streams(r) /\ Well(r)
AtUnsubscribe(r) == Streams(r) /\ Settled(r)
AtClose(r) == Streams(r) /\ Settled(r) /\ r.mq # "subscribed"

(* A refused stream, and a call that ended.                                *)
AtClosed(r) == Broken(r) /\ r.handled = "no" /\ r.status # "success"
AtDone(r) ==
    /\ r.handled # "no" => r.accepted \/ r.fault = "decode"
    /\ Settled(r)
    /\ ~Broken(r) => Released(r) /\ (r.handled # "crash" => r.mq # "subscribed")

CallInv(r) ==
    /\ Shape(r)
    /\ \/ r.pc = "none" /\ r = NoCall
       \/ r.pc = "decode" /\ AtDecode(r)
       \/ r.pc = "handle" /\ AtHandle(r)
       \/ r.pc = "respond" /\ AtRespond(r)
       \/ r.pc = "init" /\ AtInit(r)
       \/ r.pc \in {"select", "send", "beat"} /\ AtLoop(r)
       \/ r.pc = "unsubscribe" /\ AtUnsubscribe(r)
       \/ r.pc = "close" /\ AtClose(r)
       \/ r.pc = "closed" /\ AtClosed(r)
       \/ r.pc = "done" /\ AtDone(r)

IInv == DOMAIN call = Call /\ \A c \in Call : CallInv(call[c])

LEMMA Becomes ==
    ASSUME IInv, NEW c \in Call, NEW s, Become(c, s), CallInv(s)
    PROVE  IInv'
BY DEF IInv, Become

-----------------------------------------------------------------------------
(* The steps of a handler.                                                 *)

LEMMA NewRequestInv ==
    ASSUME NEW kind
    PROVE  LET s == NewRequest(kind)
           IN  /\ Shape(s) /\ s.kind = kind /\ s.pc = "decode" /\ StillOpen(s) /\ s.recorded = 0
               /\ s.handled = "no" /\ s.mq = "none" /\ ~s.accepted /\ s.fault = "none" /\ Ill(s)
               /\ s.ctx.genericError = NoError /\ s.code = "OK"
<1> DEFINE s == NewRequest(kind)
<1>1. /\ Shape(s) /\ Keeps(s, NoCall, {"kind", "pc", "ctx"})
      /\ s.kind = kind /\ s.pc = "decode" /\ SameBooks(s.ctx, NewContext)
  BY NewRequestIs
<1> HIDE DEF s
<1>2. /\ s.handled = "no" /\ s.mq = "none" /\ ~s.accepted /\ s.fault = "none" /\ s.status = "none"
      /\ s.answer = "none" /\ s.recorded = 0 /\ s.closes = 0 /\ s.code = "OK"
  BY <1>1 DEF Keeps, Fields, NoCall
<1>3. s.ctx.genericError = NoError /\ s.ctx.oplogs = 0 /\ s.ctx.written = 0
  BY <1>1, NewContextBooks DEF SameBooks
<1> QED
  BY <1>1, <1>2, <1>3 DEF StillOpen, Ill, s

LEMMA RefusedIs ==
    ASSUME NEW r, Shape(r), NEW refusal \in Errors
    PROVE  LET s == Refused(r, refusal)
           IN  /\ Shape(s) /\ Keeps(s, r, {"ctx", "fault", "code", "status"})
               /\ s.fault = "refused" /\ s.code # "OK"
               /\ s.status = r.status \/ s.status # "success"
               /\ StillOpen(r) => StillOpen(s)
<1> DEFINE a == SetCode(r, refusal)
<1> DEFINE x == SetError(a.ctx, "Server.Handle")
<1> DEFINE b == [a EXCEPT !.ctx = x, !.fault = "refused"]
<1>1. /\ Shape(a) /\ Keeps(a, r, {"ctx"}) /\ a.ctx.genericError # NoError
      /\ a.ctx.oplogs = r.ctx.oplogs /\ a.ctx.written = r.ctx.written
  BY SetCodeIs
<1>2. x \in Context /\ SameBooks(x, a.ctx)
  <2>1. a.ctx \in Context /\ "Server.Handle" \in Traced
    BY <1>1 DEF Shape, Traced
  <2> QED
    BY <2>1, SetErrorBooks
<1>3. Refused(r, refusal) = FillResponse(b, TRUE)
  BY DEF Refused
<1> HIDE DEF a, x
<1>4. Shape(b) /\ Keeps(b, a, {"ctx", "fault"}) /\ b.ctx = x /\ b.fault = "refused"
  BY <1>1, <1>2 DEF Shape, Keeps, Fields
<1> HIDE DEF b
<1> DEFINE s == FillResponse(b, TRUE)
<1>5. /\ Shape(s) /\ Keeps(s, b, {"code", "status"}) /\ s.code # "OK"
      /\ s.status = b.status \/ s.status # "success"
  BY <1>1, <1>2, <1>4, FillResponseIs DEF SameBooks
<1> HIDE DEF s
<1>6. /\ Keeps(s, r, {"ctx", "fault", "code", "status"}) /\ s.fault = "refused" /\ s.ctx = x
      /\ b.status = r.status
  BY <1>1, <1>4, <1>5 DEF Keeps, Fields
<1>7. StillOpen(r) => StillOpen(s)
  BY <1>1, <1>2, <1>6 DEF StillOpen, SameBooks, Keeps, Fields
<1> QED
  BY <1>3, <1>5, <1>6, <1>7 DEF s

LEMMA ReceiveStep ==
    ASSUME IInv, NEW c \in Call, Receive(c)
    PROVE  IInv'
<1>1. \A refusal \in Refusals : refusal = NoError \/ refusal \in Errors
  BY DEF Refusals, Errors
<1>2. CASE ReceiveUnary(c)
  <2> DEFINE r == NewRequest("unary")
  <2>1. PICK refusal \in Refusals :
           Become(c, IF refusal = NoError THEN r ELSE Ended(Refused(r, refusal), Refused(r, refusal).code))
    BY <1>2 DEF ReceiveUnary
  <2>2. /\ Shape(r) /\ r.kind = "unary" /\ r.pc = "decode" /\ StillOpen(r) /\ r.recorded = 0
        /\ r.handled = "no" /\ r.mq = "none" /\ ~r.accepted /\ r.fault = "none" /\ Ill(r)
        /\ r.ctx.genericError = NoError
    BY NewRequestInv
  <2> HIDE DEF r
  <2>3. CASE refusal = NoError
    <3>1. CallInv(r)
      BY <2>2 DEF CallInv, AtDecode, Unserved
    <3> QED
      BY <2>1, <2>3, <3>1, Becomes
  <2>4. CASE refusal \in Errors
    <3> DEFINE b == Refused(r, refusal)
    <3> DEFINE s == Ended(b, b.code)
    <3>1. /\ Shape(b) /\ Keeps(b, r, {"ctx", "fault", "code", "status"})
          /\ b.code # "OK" /\ (b.status = r.status \/ b.status # "success") /\ StillOpen(b)
      BY <2>2, <2>4, RefusedIs
    <3> HIDE DEF b
    <3>2. /\ Shape(s) /\ Keeps(s, b, {"ctx", "closes", "answer", "pc"})
          /\ s.answer = b.code /\ s.pc = "done" /\ Released(s)
      BY <3>1, EndedIs
    <3> HIDE DEF s
    <3>3. s.kind = "unary" /\ s.handled = "no" /\ s.mq = "none" /\ s.status # "success"
      BY <2>2, <3>1, <3>2 DEF Keeps, Fields, Ill
    <3>4. CallInv(s)
      BY <3>1, <3>2, <3>3 DEF CallInv, AtDone, Settled, Ill
    <3>5. refusal # NoError
      BY <2>4 DEF Errors, NoError
    <3> QED
      BY <2>1, <3>4, <3>5, Becomes DEF s, b
  <2> QED
    BY <1>1, <2>3, <2>4
<1>3. CASE ReceiveStream(c)
  <2> DEFINE r == NewRequest("stream")
  <2>1. PICK refusal \in Refusals :
           Become(c, IF refusal = NoError THEN r ELSE [CloseRequest(Refused(r, refusal)) EXCEPT !.pc = "closed"])
    BY <1>3 DEF ReceiveStream
  <2>2. /\ Shape(r) /\ r.kind = "stream" /\ r.pc = "decode" /\ StillOpen(r) /\ r.recorded = 0
        /\ r.handled = "no" /\ r.mq = "none" /\ ~r.accepted /\ r.fault = "none" /\ Ill(r)
        /\ r.ctx.genericError = NoError
    BY NewRequestInv
  <2> HIDE DEF r
  <2>3. CASE refusal = NoError
    <3>1. CallInv(r)
      BY <2>2 DEF CallInv, AtDecode, Unserved
    <3> QED
      BY <2>1, <2>3, <3>1, Becomes
  <2>4. CASE refusal \in Errors
    <3> DEFINE b == Refused(r, refusal)
    <3> DEFINE d == CloseRequest(b)
    <3> DEFINE s == [d EXCEPT !.pc = "closed"]
    <3>1. /\ Shape(b) /\ Keeps(b, r, {"ctx", "fault", "code", "status"}) /\ b.fault = "refused"
          /\ b.status = r.status \/ b.status # "success"
      BY <2>2, <2>4, RefusedIs
    <3> HIDE DEF b
    <3>2. Shape(d) /\ Keeps(d, b, {"ctx", "closes"})
      BY <3>1, CloseRequestIs
    <3> HIDE DEF d
    <3>3. Shape(s) /\ Keeps(s, d, {"pc"}) /\ s.pc = "closed"
      BY <3>2 DEF Shape, Keeps, Fields
    <3> HIDE DEF s
    <3>4. s.kind = "stream" /\ s.handled = "no" /\ s.status # "success" /\ s.fault = "refused"
      BY <2>2, <3>1, <3>2, <3>3 DEF Keeps, Fields, Ill
    <3>5. CallInv(s)
      BY <3>3, <3>4 DEF CallInv, AtClosed, Broken
    <3>6. refusal # NoError
      BY <2>4 DEF Errors, NoError
    <3> QED
      BY <2>1, <3>5, <3>6, Becomes DEF s, d, b
  <2> QED
    BY <1>1, <2>3, <2>4
<1>4. CASE UnknownHandler(c)
  <2> DEFINE a == NewRequest("unknown")
  <2> DEFINE r == [a EXCEPT !.fault = IF multitenancy THEN "crash" ELSE "none"]
  <2>1. Become(c, IF multitenancy THEN [r EXCEPT !.answer = "Internal", !.pc = "done"]
                  ELSE Ended(SetCode(r, "unimplemented"), "Unimplemented"))
    BY <1>4 DEF UnknownHandler
  <2>2. /\ Shape(a) /\ a.kind = "unknown" /\ StillOpen(a) /\ a.recorded = 0
        /\ a.handled = "no" /\ a.mq = "none" /\ a.fault = "none" /\ Ill(a)
    BY NewRequestInv
  <2> HIDE DEF a
  <2>3. /\ Shape(r) /\ Keeps(r, a, {"fault"}) /\ r.fault = IF multitenancy THEN "crash" ELSE "none"
    BY <2>2 DEF Shape, Keeps, Fields
  <2> HIDE DEF r
  <2>4. CASE multitenancy
    <3> DEFINE s == [r EXCEPT !.answer = "Internal", !.pc = "done"]
    <3>1. Shape(s) /\ Keeps(s, r, {"answer", "pc"}) /\ s.answer = "Internal" /\ s.pc = "done"
      BY <2>3 DEF Shape, Keeps, Fields
    <3> HIDE DEF s
    <3>2. s.kind = "unknown" /\ s.handled = "no" /\ s.status # "success" /\ s.fault = "crash"
      BY <2>2, <2>3, <2>4, <3>1 DEF Keeps, Fields, Ill
    <3>3. CallInv(s)
      BY <3>1, <3>2 DEF CallInv, AtDone, Settled, Ill, Broken
    <3> QED
      BY <2>1, <2>4, <3>3, Becomes DEF s
  <2>5. CASE ~multitenancy
    <3> DEFINE b == SetCode(r, "unimplemented")
    <3> DEFINE s == Ended(b, "Unimplemented")
    <3>0. "unimplemented" \in Errors
      BY DEF Errors
    <3>1. /\ Shape(b) /\ Keeps(b, r, {"ctx"})
          /\ b.ctx.oplogs = r.ctx.oplogs /\ b.ctx.written = r.ctx.written
      BY <2>3, <3>0, SetCodeIs
    <3> HIDE DEF b
    <3>2. StillOpen(b)
      BY <2>2, <2>3, <3>1 DEF StillOpen, Keeps, Fields
    <3>3. /\ Shape(s) /\ Keeps(s, b, {"ctx", "closes", "answer", "pc"})
          /\ s.answer = "Unimplemented" /\ s.pc = "done" /\ Released(s)
      BY <3>1, <3>2, EndedIs
    <3> HIDE DEF s
    <3>4. s.handled = "no" /\ s.mq = "none" /\ s.status # "success"
      BY <2>2, <2>3, <3>1, <3>3 DEF Keeps, Fields, Ill
    <3>5. CallInv(s)
      BY <3>3, <3>4 DEF CallInv, AtDone, Settled, Ill
    <3> QED
      BY <2>1, <2>5, <3>5, Becomes DEF s, b
  <2> QED
    BY <2>4, <2>5
<1> QED
  BY <1>2, <1>3, <1>4 DEF Receive

LEMMA InvAt ==
    ASSUME IInv, NEW c \in Call
    PROVE  /\ Shape(call[c])
           /\ call[c].pc = "decode" => AtDecode(call[c])
           /\ call[c].pc = "handle" => AtHandle(call[c])
           /\ call[c].pc = "respond" => AtRespond(call[c])
           /\ call[c].pc = "init" => AtInit(call[c])
           /\ call[c].pc \in {"select", "send", "beat"} => AtLoop(call[c])
           /\ call[c].pc = "unsubscribe" => AtUnsubscribe(call[c])
           /\ call[c].pc = "close" => AtClose(call[c])
           /\ call[c].pc = "closed" => AtClosed(call[c])
           /\ call[c].pc = "done" => AtDone(call[c])
BY DEF IInv, CallInv

LEMMA RefusedStreamStep ==
    ASSUME IInv, NEW c \in Call, RefusedStreamCrashes(c)
    PROVE  IInv'
<1> DEFINE r == call[c]
<1> DEFINE s == Ended(r, "Internal")
<1>1. r.pc = "closed" /\ Become(c, s)
  BY DEF RefusedStreamCrashes
<1>2. Shape(r) /\ AtClosed(r)
  BY <1>1, InvAt
<1> HIDE DEF r
<1>3. /\ Shape(s) /\ Keeps(s, r, {"ctx", "closes", "answer", "pc"}) /\ s.answer = "Internal" /\ s.pc = "done"
  BY <1>2, EndedIs
<1> HIDE DEF s
<1>4. s.kind = r.kind /\ s.fault = r.fault /\ s.handled = r.handled /\ s.status = r.status
  BY <1>3 DEF Keeps, Fields
<1>5. CallInv(s)
  BY <1>2, <1>3, <1>4 DEF CallInv, AtClosed, AtDone, Settled, Ill, Broken
<1> QED
  BY <1>1, <1>5, Becomes

(* What a change of the context alone leaves as it is.                     *)
LEMMA ContextChange ==
    ASSUME NEW r, Shape(r), NEW x \in Context
    PROVE  LET s == [r EXCEPT !.ctx = x]
           IN  /\ Shape(s) /\ Keeps(s, r, {"ctx"}) /\ s.ctx = x
               /\ SameBooks(x, r.ctx) /\ StillOpen(r) => StillOpen(s)
<1> DEFINE s == [r EXCEPT !.ctx = x]
<1>1. Shape(s) /\ Keeps(s, r, {"ctx"}) /\ s.ctx = x
  BY DEF Shape, Keeps, Fields
<1> HIDE DEF s
<1>2. SameBooks(x, r.ctx) /\ StillOpen(r) => StillOpen(s)
  BY <1>1 DEF StillOpen, Keeps, Fields, SameBooks
<1> QED
  BY <1>1, <1>2 DEF s

LEMMA DecodeErrorIs ==
    ASSUME NEW r, Shape(r), StillOpen(r), NEW error \in Errors \union {NoError}, NEW live \in BOOLEAN
    PROVE  LET s == DecodeError(r, error, live)
           IN  /\ Shape(s) /\ Keeps(s, r, {"ctx", "fault", "code", "status"}) /\ StillOpen(s)
               /\ s.fault = IF error = NoError THEN "silent" ELSE "none"
               /\ error # NoError => s.code # "OK" /\ (s.status = r.status \/ s.status # "success")
<1> DEFINE marked == IF error = NoError THEN r ELSE SetCode(r, error)
<1> DEFINE x == TraceOut(SetError(marked.ctx, "Unmarshal"))
<1> DEFINE fault == IF error = NoError THEN "silent" ELSE "none"
<1> DEFINE b == [marked EXCEPT !.ctx = x, !.fault = fault]
<1> DEFINE s == FillResponse(b, live)
<1>1. /\ Shape(marked) /\ Keeps(marked, r, {"ctx"})
      /\ marked.ctx.oplogs = r.ctx.oplogs /\ marked.ctx.written = r.ctx.written
      /\ error # NoError => marked.ctx.genericError # NoError
  <2>1. CASE error = NoError
    BY <2>1 DEF Keeps
  <2>2. CASE error # NoError
    <3>1. error \in Errors
      BY <2>2
    <3> QED
      BY <2>2, <3>1, SetCodeIs
  <2> QED
    BY <2>1, <2>2
<1>2. DecodeError(r, error, live) = s
  BY DEF DecodeError
<1> HIDE DEF marked, s
<1>3. x \in Context /\ SameBooks(x, marked.ctx)
  <2> DEFINE y == SetError(marked.ctx, "Unmarshal")
  <2>1. "Unmarshal" \in Traced /\ marked.ctx \in Context
    BY <1>1 DEF Traced, Shape
  <2>2. y \in Context /\ SameBooks(y, marked.ctx)
    BY <2>1, SetErrorBooks
  <2> HIDE DEF y
  <2>3. TraceOut(y) \in Context /\ SameBooks(TraceOut(y), y)
    BY <2>2, TraceOutBooks
  <2> QED
    BY <2>2, <2>3 DEF SameBooks, y
<1> HIDE DEF x, fault
<1>4. Shape(b) /\ Keeps(b, marked, {"ctx", "fault"}) /\ b.ctx = x /\ b.fault = fault
  BY <1>1, <1>3 DEF Shape, Keeps, Fields
<1> HIDE DEF b
<1>5. /\ Shape(s) /\ Keeps(s, b, {"code", "status"})
      /\ b.ctx.genericError # NoError => s.code # "OK" /\ (s.status = b.status \/ s.status # "success")
  BY <1>4, FillResponseIs DEF s
<1>6. /\ Keeps(s, r, {"ctx", "fault", "code", "status"}) /\ s.fault = fault /\ s.ctx = x
      /\ b.status = r.status
  BY <1>1, <1>4, <1>5 DEF Keeps, Fields
<1>7. StillOpen(s)
  BY <1>1, <1>3, <1>6 DEF StillOpen, SameBooks, Keeps, Fields
<1>8. error # NoError => b.ctx.genericError # NoError
  BY <1>1, <1>3, <1>4 DEF SameBooks
<1> QED
  BY <1>2, <1>5, <1>6, <1>7, <1>8 DEF fault

LEMMA UnmarshalFailsStep ==
    ASSUME IInv, NEW c \in Call, call[c].pc = "decode", UnmarshalFails(c)
    PROVE  IInv'
<1> DEFINE q == call[c]
<1> DEFINE x == TraceIn(q.ctx, "Unmarshal")
<1> DEFINE a == [q EXCEPT !.ctx = x]
<1>1. PICK error \in DecodeErrors :
         LET r == DecodeError(a, error, Live(c))
         IN  Become(c, IF r.kind = "unary" THEN Ended(r, r.code)
                       ELSE [r EXCEPT !.answer = "Internal", !.pc = "unsubscribe"])
  BY DEF UnmarshalFails
<1>2. Shape(q) /\ AtDecode(q)
  BY InvAt
<1>3. x \in Context /\ SameBooks(x, q.ctx)
  <2>1. q.ctx \in Context /\ "Unmarshal" \in Traced
    BY <1>2 DEF Shape, Traced
  <2> QED
    BY <2>1, TraceInBooks
<1> HIDE DEF q, x
<1>4. Shape(a) /\ Keeps(a, q, {"ctx"}) /\ StillOpen(a)
  BY <1>2, <1>3, ContextChange DEF AtDecode, Unserved
<1> HIDE DEF a
<1> DEFINE r == DecodeError(a, error, Live(c))
<1>5. error \in Errors \union {NoError} /\ Live(c) \in BOOLEAN
  BY DEF DecodeErrors, Errors, Live
<1>6. /\ Shape(r) /\ Keeps(r, a, {"ctx", "fault", "code", "status"}) /\ StillOpen(r)
      /\ r.fault = IF error = NoError THEN "silent" ELSE "none"
      /\ error # NoError => r.code # "OK" /\ (r.status = a.status \/ r.status # "success")
  BY <1>4, <1>5, DecodeErrorIs
<1>7. Become(c, IF r.kind = "unary" THEN Ended(r, r.code)
                ELSE [r EXCEPT !.answer = "Internal", !.pc = "unsubscribe"])
  BY <1>1
<1> HIDE DEF r
<1>8. /\ r.kind \in {"unary", "stream"} /\ r.handled = "no" /\ r.mq = "none"
      /\ r.fault = "silent" \/ (r.fault = "none" /\ r.code # "OK" /\ r.status # "success")
  BY <1>2, <1>4, <1>6 DEF AtDecode, Unserved, Ill, Keeps, Fields
<1>9. CASE r.kind = "unary"
  <2> DEFINE s == Ended(r, r.code)
  <2>1. /\ Shape(s) /\ Keeps(s, r, {"ctx", "closes", "answer", "pc"})
        /\ s.answer = r.code /\ s.pc = "done" /\ Released(s)
    BY <1>6, EndedIs
  <2> HIDE DEF s
  <2>2. s.handled = "no" /\ s.mq = "none" /\ s.fault = r.fault /\ s.status = r.status
    BY <1>8, <2>1 DEF Keeps, Fields
  <2>3. CallInv(s)
    BY <1>8, <2>1, <2>2 DEF CallInv, AtDone, Settled, Ill
  <2> QED
    BY <1>7, <1>9, <2>3, Becomes DEF s
<1>10. CASE r.kind = "stream"
  <2> DEFINE s == [r EXCEPT !.answer = "Internal", !.pc = "unsubscribe"]
  <2>1. /\ Shape(s) /\ Keeps(s, r, {"answer", "pc"}) /\ s.answer = "Internal" /\ s.pc = "unsubscribe"
    BY <1>6 DEF Shape, Keeps, Fields
  <2> HIDE DEF s
  <2>2. /\ s.handled = "no" /\ s.fault = r.fault /\ s.status = r.status /\ s.kind = "stream"
        /\ s.ctx = r.ctx /\ s.closes = r.closes /\ s.recorded = r.recorded
    BY <1>8, <1>10, <2>1 DEF Keeps, Fields
  <2>3. StillOpen(s)
    BY <1>6, <2>2 DEF StillOpen
  <2>4. CallInv(s)
    BY <1>8, <2>1, <2>2, <2>3 DEF CallInv, AtUnsubscribe, Streams, Settled, Ill
  <2> QED
    BY <1>7, <1>10, <2>4, Becomes DEF s
<1> QED
  BY <1>8, <1>9, <1>10

LEMMA UnmarshalStep ==
    ASSUME IInv, NEW c \in Call, Unmarshal(c)
    PROVE  IInv'
<1> DEFINE q == call[c]
<1>1. q.pc = "decode"
  BY DEF Unmarshal
<1>2. Shape(q) /\ AtDecode(q)
  BY <1>1, InvAt
<1>3. CASE UnmarshalCrashes(c)
  <2> DEFINE a == SetCode(q, "internal")
  <2> DEFINE x == TraceIn(a.ctx, "Unmarshal")
  <2> DEFINE b == [a EXCEPT !.ctx = x, !.fault = "decode", !.pc = "handle"]
  <2> DEFINE s == FillResponse(b, Live(c))
  <2>1. Become(c, s)
    BY <1>3 DEF UnmarshalCrashes
  <2>2. "internal" \in Errors /\ "Unmarshal" \in Traced /\ Live(c) \in BOOLEAN
    BY DEF Errors, Traced, Live
  <2> HIDE DEF q
  <2>3. /\ Shape(a) /\ Keeps(a, q, {"ctx"}) /\ a.ctx.genericError # NoError
        /\ a.ctx.oplogs = q.ctx.oplogs /\ a.ctx.written = q.ctx.written
    BY <1>2, <2>2, SetCodeIs
  <2> HIDE DEF a
  <2>4. x \in Context /\ SameBooks(x, a.ctx)
    BY <2>2, <2>3, TraceInBooks DEF Shape
  <2> HIDE DEF x
  <2>5. Shape(b) /\ Keeps(b, a, {"ctx", "fault", "pc"}) /\ b.ctx = x /\ b.fault = "decode" /\ b.pc = "handle"
    BY <2>3, <2>4 DEF Shape, Keeps, Fields
  <2> HIDE DEF b
  <2>6. b.ctx.genericError # NoError
    BY <2>3, <2>4, <2>5 DEF SameBooks
  <2>7. /\ Shape(s) /\ Keeps(s, b, {"code", "status"}) /\ (s.status = b.status \/ s.status # "success")
    BY <2>2, <2>5, <2>6, FillResponseIs
  <2> HIDE DEF s
  <2>8. /\ s.kind = q.kind /\ s.handled = q.handled /\ s.mq = q.mq /\ s.answer = q.answer /\ s.recorded = q.recorded
        /\ s.closes = q.closes /\ s.ctx = x /\ s.fault = "decode" /\ s.pc = "handle" /\ b.status = q.status
    BY <2>3, <2>5, <2>7 DEF Keeps, Fields
  <2>9. StillOpen(s) /\ s.ctx.genericError # NoError
    BY <1>2, <2>3, <2>4, <2>8 DEF StillOpen, SameBooks, AtDecode, Unserved
  <2>10. CallInv(s)
    BY <1>2, <2>7, <2>8, <2>9 DEF CallInv, AtDecode, AtHandle, Unserved, Ill
  <2> QED
    BY <2>1, <2>10, Becomes
<1>4. CASE UnmarshalSucceeds(c)
  <2> DEFINE s == [q EXCEPT !.accepted = TRUE, !.pc = "handle"]
  <2>1. Become(c, s)
    BY <1>4 DEF UnmarshalSucceeds
  <2> HIDE DEF q
  <2>2. Shape(s) /\ Keeps(s, q, {"accepted", "pc"}) /\ s.accepted /\ s.pc = "handle"
    BY <1>2 DEF Shape, Keeps, Fields
  <2> HIDE DEF s
  <2>3. /\ s.kind = q.kind /\ s.handled = q.handled /\ s.mq = q.mq /\ s.answer = q.answer /\ s.recorded = q.recorded
        /\ s.closes = q.closes /\ s.ctx = q.ctx /\ s.fault = q.fault /\ s.status = q.status
    BY <2>2 DEF Keeps, Fields
  <2>4. CallInv(s)
    BY <1>2, <2>2, <2>3 DEF CallInv, AtDecode, AtHandle, Unserved, Ill, StillOpen
  <2> QED
    BY <2>1, <2>4, Becomes
<1>5. CASE RecvMsgFails(c)
  <2> DEFINE s == [q EXCEPT !.answer = "Canceled", !.pc = "unsubscribe"]
  <2>1. Become(c, s) /\ q.kind = "stream"
    BY <1>5 DEF RecvMsgFails
  <2> HIDE DEF q
  <2>2. Shape(s) /\ Keeps(s, q, {"answer", "pc"}) /\ s.answer = "Canceled" /\ s.pc = "unsubscribe"
    BY <1>2 DEF Shape, Keeps, Fields
  <2> HIDE DEF s
  <2>3. /\ s.kind = q.kind /\ s.handled = q.handled /\ s.recorded = q.recorded
        /\ s.closes = q.closes /\ s.ctx = q.ctx /\ s.fault = q.fault /\ s.status = q.status
    BY <2>2 DEF Keeps, Fields
  <2>4. CallInv(s)
    BY <1>2, <2>1, <2>2, <2>3 DEF CallInv, AtDecode, AtUnsubscribe, Streams, Settled, Unserved, Ill, StillOpen
  <2> QED
    BY <2>1, <2>4, Becomes
<1> QED
  BY <1>1, <1>3, <1>4, <1>5, UnmarshalFailsStep DEF Unmarshal

(* The endpoint.                                                           *)
Replied(q, oplogs, subscribes, reply) == [Served(q, oplogs, subscribes) EXCEPT !.reply = reply]

LEMMA ServedIs ==
    ASSUME NEW q, Shape(q), AtHandle(q), NEW oplogs \in 0 .. 1, NEW subscribes, NEW reply
    PROVE  LET r == Replied(q, oplogs, subscribes, reply)
           IN  /\ Shape(r) /\ Keeps(r, q, {"ctx", "recorded", "mq", "reply"}) /\ StillOpen(r)
               /\ r.ctx.genericError = q.ctx.genericError
               /\ ~subscribes => r.mq = "none"
<1> DEFINE y == TraceIn(q.ctx, "handleRequest")
<1> DEFINE x == IF oplogs = 1 THEN Oplog(y) ELSE y
<1> DEFINE mq == IF subscribes THEN "subscribed" ELSE "none"
<1> DEFINE a == [q EXCEPT !.ctx = x, !.recorded = oplogs, !.mq = mq]
<1> DEFINE r == [a EXCEPT !.reply = reply]
<1>1. y \in Context /\ SameBooks(y, q.ctx)
  <2>1. q.ctx \in Context /\ "handleRequest" \in Traced
    BY DEF Shape, Traced
  <2> QED
    BY <2>1, TraceInBooks
<1>2. Replied(q, oplogs, subscribes, reply) = r
  BY DEF Replied, Served
<1> HIDE DEF y
<1>3. q.ctx.oplogs = 0 /\ q.ctx.written = 0 /\ q.closes = 0
  BY DEF AtHandle, Unserved, StillOpen
<1>4. /\ x \in Context /\ x.genericError = q.ctx.genericError /\ x.written = 0
      /\ x.oplogs = oplogs
  <2>1. CASE oplogs = 1
    BY <1>1, <1>3, <2>1, OplogBooks DEF SameBooks
  <2>2. CASE oplogs = 0
    BY <1>1, <1>3, <2>2 DEF SameBooks
  <2> QED
    BY <2>1, <2>2
<1>5. ~subscribes => mq = "none"
  OBVIOUS
<1> HIDE DEF x, mq
<1>6. Shape(a) /\ Keeps(a, q, {"ctx", "recorded", "mq"}) /\ a.ctx = x /\ a.recorded = oplogs /\ a.mq = mq
  BY <1>4 DEF Shape, Keeps, Fields
<1> HIDE DEF a
<1>7. Shape(r) /\ Keeps(r, a, {"reply"})
  BY <1>6 DEF Shape, Keeps, Fields
<1> HIDE DEF r
<1>8. /\ Keeps(r, q, {"ctx", "recorded", "mq", "reply"})
      /\ r.ctx = x /\ r.recorded = oplogs /\ r.mq = mq /\ r.closes = q.closes
  BY <1>6, <1>7 DEF Keeps, Fields
<1>9. StillOpen(r)
  BY <1>3, <1>4, <1>8 DEF StillOpen
<1> QED
  BY <1>2, <1>4, <1>5, <1>7, <1>8, <1>9

LEMMA HandleStep ==
    ASSUME IInv, NEW c \in Call, Handle(c)
    PROVE  IInv'
<1> DEFINE q == call[c]
<1>1. q.pc = "handle"
  BY DEF Handle
<1>2. PICK oplogs \in 0 .. 1, subscribes \in IF q.kind = "stream" THEN BOOLEAN ELSE {FALSE}, reply \in BOOLEAN :
         \/ Become(c, [Replied(q, oplogs, subscribes, reply) EXCEPT !.handled = "ok", !.pc = "respond"])
         \/ Become(c, [SetCode(Replied(q, oplogs, subscribes, reply), "internal") EXCEPT
                         !.ctx = SetError(@, "handleRequest"), !.handled = "error", !.pc = "respond"])
         \/ Become(c, Crashed(Replied(q, oplogs, subscribes, reply)))
  BY DEF Handle, Replied
<1>3. Shape(q) /\ AtHandle(q)
  BY <1>1, InvAt
<1> DEFINE r == Replied(q, oplogs, subscribes, reply)
<1> HIDE DEF q
<1>4. /\ Shape(r) /\ Keeps(r, q, {"ctx", "recorded", "mq", "reply"}) /\ StillOpen(r)
      /\ r.ctx.genericError = q.ctx.genericError
      /\ ~subscribes => r.mq = "none"
  BY <1>3, ServedIs
<1> HIDE DEF r
<1>5. /\ r.kind \in {"unary", "stream"} /\ Ill(r)
      /\ (r.accepted /\ r.fault = "none") \/ (r.fault = "decode" /\ r.ctx.genericError # NoError)
      /\ r.kind = "unary" => r.mq = "none"
  BY <1>2, <1>3, <1>4 DEF AtHandle, Unserved, Ill, Keeps, Fields
<1>6. CASE Become(c, [r EXCEPT !.handled = "ok", !.pc = "respond"])
  <2> DEFINE s == [r EXCEPT !.handled = "ok", !.pc = "respond"]
  <2>1. Shape(s) /\ Keeps(s, r, {"handled", "pc"}) /\ s.handled = "ok" /\ s.pc = "respond"
    BY <1>4 DEF Shape, Keeps, Fields
  <2> HIDE DEF s
  <2>2. /\ s.kind = r.kind /\ s.mq = r.mq /\ s.answer = r.answer /\ s.recorded = r.recorded /\ s.accepted = r.accepted
        /\ s.closes = r.closes /\ s.ctx = r.ctx /\ s.fault = r.fault /\ s.status = r.status
    BY <2>1 DEF Keeps, Fields
  <2>3. CallInv(s)
    BY <1>4, <1>5, <2>1, <2>2 DEF CallInv, AtRespond, Well, Ill, StillOpen
  <2> QED
    BY <1>6, <2>3, Becomes DEF s
<1>7. CASE Become(c, [SetCode(r, "internal") EXCEPT
                        !.ctx = SetError(@, "handleRequest"), !.handled = "error", !.pc = "respond"])
  <2> DEFINE a == SetCode(r, "internal")
  <2> DEFINE x == SetError(a.ctx, "handleRequest")
  <2> DEFINE s == [a EXCEPT !.ctx = x, !.handled = "error", !.pc = "respond"]
  <2>0. "internal" \in Errors /\ "handleRequest" \in Traced
    BY DEF Errors, Traced
  <2>1. /\ Shape(a) /\ Keeps(a, r, {"ctx"}) /\ a.ctx.genericError # NoError
        /\ a.ctx.oplogs = r.ctx.oplogs /\ a.ctx.written = r.ctx.written
    BY <1>4, <2>0, SetCodeIs
  <2>2. Become(c, s)
    BY <1>7
  <2> HIDE DEF a
  <2>3. x \in Context /\ SameBooks(x, a.ctx)
    BY <2>0, <2>1, SetErrorBooks DEF Shape
  <2> HIDE DEF x
  <2>4. Shape(s) /\ Keeps(s, a, {"ctx", "handled", "pc"}) /\ s.ctx = x /\ s.handled = "error" /\ s.pc = "respond"
    BY <2>1, <2>3 DEF Shape, Keeps, Fields
  <2> HIDE DEF s
  <2>5. /\ s.kind = r.kind /\ s.mq = r.mq /\ s.answer = r.answer /\ s.recorded = r.recorded /\ s.accepted = r.accepted
        /\ s.closes = r.closes /\ s.fault = r.fault /\ s.status = r.status
    BY <2>1, <2>4 DEF Keeps, Fields
  <2>6. StillOpen(s) /\ s.ctx.genericError # NoError
    BY <1>4, <2>1, <2>3, <2>4, <2>5 DEF StillOpen, SameBooks
  <2>7. CallInv(s)
    BY <1>5, <2>4, <2>5, <2>6 DEF CallInv, AtRespond, Well, Ill
  <2> QED
    BY <2>2, <2>7, Becomes
<1>8. CASE Become(c, Crashed(r))
  <2> DEFINE x == TraceOut(r.ctx)
  <2> DEFINE out == [r EXCEPT !.ctx = x, !.handled = "crash"]
  <2> DEFINE b == IF r.kind = "unary" THEN SetCode(out, "internal") ELSE out
  <2> DEFINE s == Ended(b, "Internal")
  <2>1. Crashed(r) = s
    BY DEF Crashed
  <2>2. x \in Context /\ SameBooks(x, r.ctx)
    BY <1>4, TraceOutBooks DEF Shape
  <2> HIDE DEF x
  <2>3. Shape(out) /\ Keeps(out, r, {"ctx", "handled"}) /\ out.ctx = x /\ out.handled = "crash"
    BY <1>4, <2>2 DEF Shape, Keeps, Fields
  <2> HIDE DEF out
  <2>4. /\ Shape(b) /\ Keeps(b, out, {"ctx"})
        /\ b.ctx.oplogs = out.ctx.oplogs /\ b.ctx.written = out.ctx.written
    <3>1. "internal" \in Errors
      BY DEF Errors
    <3>2. CASE r.kind = "unary"
      BY <2>3, <3>1, <3>2, SetCodeIs
    <3>3. CASE r.kind # "unary"
      BY <2>3, <3>3 DEF Keeps
    <3> QED
      BY <3>2, <3>3
  <2> HIDE DEF b
  <2>5. StillOpen(b)
    BY <1>4, <2>2, <2>3, <2>4 DEF StillOpen, SameBooks, Keeps, Fields
  <2>6. /\ Shape(s) /\ Keeps(s, b, {"ctx", "closes", "answer", "pc"})
        /\ s.answer = "Internal" /\ s.pc = "done" /\ Released(s)
    BY <2>4, <2>5, EndedIs
  <2> HIDE DEF s
  <2>7. s.handled = "crash" /\ s.status = r.status /\ s.accepted = r.accepted /\ s.fault = r.fault
    BY <2>3, <2>4, <2>6 DEF Keeps, Fields
  <2>8. CallInv(s)
    BY <1>5, <2>6, <2>7 DEF CallInv, AtDone, Settled, Ill
  <2> QED
    BY <1>8, <2>1, <2>8, Becomes
<1> QED
  BY <1>2, <1>6, <1>7, <1>8 DEF r

(* Postprocess and the reply.                                              *)
LEMMA FinishesIs ==
    ASSUME NEW q, Shape(q), AtRespond(q), NEW r \in Finishes(q)
    PROVE  Shape(r) /\ AtRespond(r)
<1> DEFINE a == SetCode(q, "internal")
<1> DEFINE x == SetError(a.ctx, "handleRequest")
<1> DEFINE b == [a EXCEPT !.ctx = x, !.handled = "error"]
<1> DEFINE d == [a EXCEPT !.handled = "error", !.reply = FALSE]
<1>0. "internal" \in Errors /\ "handleRequest" \in Traced
  BY DEF Errors, Traced
<1>1. r = q \/ r = b \/ r = d
  BY DEF Finishes
<1>2. /\ Shape(a) /\ Keeps(a, q, {"ctx"}) /\ a.ctx.genericError # NoError
      /\ a.ctx.oplogs = q.ctx.oplogs /\ a.ctx.written = q.ctx.written
  BY <1>0, SetCodeIs
<1> HIDE DEF a
<1>3. x \in Context /\ SameBooks(x, a.ctx)
  BY <1>0, <1>2, SetErrorBooks DEF Shape
<1> HIDE DEF x
<1>4. Shape(b) /\ Keeps(b, a, {"ctx", "handled"}) /\ b.ctx = x
  BY <1>2, <1>3 DEF Shape, Keeps, Fields
<1>5. Shape(d) /\ Keeps(d, a, {"handled", "reply"})
  BY <1>2 DEF Shape, Keeps, Fields
<1> HIDE DEF b, d
<1>6. ASSUME NEW s, s = b \/ s = d
      PROVE  /\ s.kind = q.kind /\ s.closes = q.closes /\ s.recorded = q.recorded /\ s.status = q.status
             /\ s.answer = q.answer /\ s.fault = q.fault /\ s.accepted = q.accepted /\ s.mq = q.mq
             /\ s.ctx.genericError # NoError /\ s.ctx.oplogs = q.ctx.oplogs /\ s.ctx.written = q.ctx.written
  BY <1>2, <1>3, <1>4, <1>5, <1>6 DEF Keeps, Fields, SameBooks
<1> QED
  BY <1>1, <1>4, <1>5, <1>6 DEF AtRespond, StillOpen, Ill

LEMMA RespondStep ==
    ASSUME IInv, NEW c \in Call, Respond(c)
    PROVE  IInv'
<1> DEFINE q == call[c]
<1> DEFINE Out(r) == [FillResponse(r, Live(c)) EXCEPT !.ctx = TraceOut(@)]
<1>1. q.pc = "respond"
  BY DEF Respond
<1>2. PICK r \in Finishes(q) :
         Become(c, IF Out(r).kind = "unary" THEN Ended(Out(r), Out(r).code) ELSE [Out(r) EXCEPT !.pc = "init"])
  BY DEF Respond
<1>3. Shape(q) /\ AtRespond(q)
  BY <1>1, InvAt
<1> HIDE DEF q
<1>4. Shape(r) /\ AtRespond(r)
  BY <1>3, FinishesIs
<1> DEFINE a == FillResponse(r, Live(c))
<1> DEFINE x == TraceOut(a.ctx)
<1> DEFINE out == [a EXCEPT !.ctx = x]
<1>5. /\ Shape(a) /\ Keeps(a, r, {"code", "status"})
      /\ r.ctx.genericError # NoError => a.code # "OK" /\ (a.status = r.status \/ a.status # "success")
  <2>1. Live(c) \in BOOLEAN
    BY DEF Live
  <2> QED
    BY <1>4, <2>1, FillResponseIs
<1>6. Out(r) = out
  OBVIOUS
<1> HIDE DEF a, Out
<1>7. x \in Context /\ SameBooks(x, a.ctx)
  BY <1>5, TraceOutBooks DEF Shape
<1> HIDE DEF x
<1>8. Shape(out) /\ Keeps(out, a, {"ctx"}) /\ out.ctx = x
  BY <1>5, <1>7, ContextChange
<1> HIDE DEF out
<1>9. /\ out.kind = r.kind /\ out.closes = r.closes /\ out.recorded = r.recorded /\ out.handled = r.handled
      /\ out.answer = r.answer /\ out.fault = r.fault /\ out.accepted = r.accepted /\ out.mq = r.mq
      /\ out.code = a.code /\ out.status = a.status /\ a.ctx = r.ctx
  BY <1>5, <1>8 DEF Keeps, Fields
<1>10. /\ out.kind \in {"unary", "stream"} /\ StillOpen(out) /\ out.answer # "OK"
       /\ Well(out) \/ (out.code # "OK" /\ out.status # "success")
       /\ out.fault \in {"none", "decode"} /\ (out.accepted \/ out.fault = "decode")
       /\ out.kind = "unary" => out.mq = "none"
  BY <1>4, <1>5, <1>7, <1>8, <1>9 DEF AtRespond, StillOpen, SameBooks, Well, Ill
<1>11. CASE out.kind = "unary"
  <2> DEFINE s == Ended(out, out.code)
  <2>1. /\ Shape(s) /\ Keeps(s, out, {"ctx", "closes", "answer", "pc"})
        /\ s.answer = out.code /\ s.pc = "done" /\ Released(s)
    BY <1>8, <1>10, EndedIs
  <2> HIDE DEF s
  <2>2. /\ s.handled = out.handled /\ s.mq = out.mq /\ s.fault = out.fault /\ s.status = out.status
        /\ s.accepted = out.accepted
    BY <2>1 DEF Keeps, Fields
  <2>3. CallInv(s)
    BY <1>10, <1>11, <2>1, <2>2 DEF CallInv, AtDone, Settled, Well, Ill
  <2> QED
    BY <1>2, <1>6, <1>11, <2>3, Becomes DEF s
<1>12. CASE out.kind # "unary"
  <2> DEFINE s == [out EXCEPT !.pc = "init"]
  <2>1. Shape(s) /\ Keeps(s, out, {"pc"}) /\ s.pc = "init"
    BY <1>8 DEF Shape, Keeps, Fields
  <2> HIDE DEF s
  <2>2. /\ s.handled = out.handled /\ s.mq = out.mq /\ s.fault = out.fault /\ s.status = out.status
        /\ s.accepted = out.accepted /\ s.kind = out.kind /\ s.code = out.code /\ s.answer = out.answer
        /\ s.ctx = out.ctx /\ s.closes = out.closes /\ s.recorded = out.recorded
    BY <2>1 DEF Keeps, Fields
  <2>3. CallInv(s)
    BY <1>10, <1>12, <2>1, <2>2 DEF CallInv, AtInit, Streams, Well, Ill, StillOpen
  <2> QED
    BY <1>2, <1>6, <1>12, <2>3, Becomes DEF s
<1> QED
  BY <1>11, <1>12

-----------------------------------------------------------------------------
(* The steps of a stream.                                                  *)

LEMMA LeaveInv ==
    ASSUME NEW r, Shape(r), Streams(r), NEW answer, r.fault = "silent" \/ Well(r) \/ (r.status # "success" /\ answer # "OK")
    PROVE  CallInv(Leave(r, answer))
<1> DEFINE s == Leave(r, answer)
<1>1. s = [r EXCEPT !.answer = answer, !.pc = "unsubscribe"]
  BY DEF Leave
<1> HIDE DEF s
<1>2. Shape(s) /\ Keeps(s, r, {"answer", "pc"}) /\ s.answer = answer /\ s.pc = "unsubscribe"
  BY <1>1 DEF Shape, Keeps, Fields
<1>3. /\ s.handled = r.handled /\ s.fault = r.fault /\ s.status = r.status /\ s.accepted = r.accepted
      /\ s.kind = r.kind /\ s.ctx = r.ctx /\ s.closes = r.closes /\ s.recorded = r.recorded
  BY <1>2 DEF Keeps, Fields
<1>4. CallInv(s)
  BY <1>2, <1>3 DEF CallInv, AtUnsubscribe, Streams, Settled, Well, Ill, StillOpen
<1> QED
  BY <1>4 DEF s

(* A change of the place alone.                                            *)
LEMMA MoveInv ==
    ASSUME NEW r, Shape(r), AtLoop(r), NEW pc \in {"select", "send", "beat"}
    PROVE  CallInv([r EXCEPT !.pc = pc])
<1> DEFINE s == [r EXCEPT !.pc = pc]
<1>1. Shape(s) /\ Keeps(s, r, {"pc"}) /\ s.pc = pc
  BY DEF Shape, Keeps, Fields
<1> HIDE DEF s
<1>2. /\ s.handled = r.handled /\ s.fault = r.fault /\ s.accepted = r.accepted
      /\ s.kind = r.kind /\ s.ctx = r.ctx /\ s.closes = r.closes /\ s.recorded = r.recorded
  BY <1>1 DEF Keeps, Fields
<1>3. CallInv(s)
  BY <1>1, <1>2 DEF CallInv, AtLoop, Streams, Well, StillOpen
<1> QED
  BY <1>3 DEF s

LEMMA SendFailedIs ==
    ASSUME NEW r, Shape(r), Streams(r)
    PROVE  LET s == SendFailed(r)
           IN  /\ Shape(s) /\ Keeps(s, r, {"ctx", "code", "answer", "pc"})
               /\ Streams(s) /\ s.answer = "Canceled" /\ s.pc = "unsubscribe"
<1> DEFINE a == SetCode(r, GRPCToGeneric("Canceled"))
<1> DEFINE x == IF r.pc = "beat" THEN a.ctx ELSE TraceOut(SetError(TraceIn(a.ctx, "SendMsg"), "SendMsg"))
<1> DEFINE code == HTTPToGRPC("io_aborted")
<1> DEFINE s == [a EXCEPT !.ctx = x, !.code = code, !.answer = "Canceled", !.pc = "unsubscribe"]
<1>1. GRPCToGeneric("Canceled") \in Errors /\ "SendMsg" \in Traced
  BY DEF GRPCToGeneric, Errors, Traced
<1>2. /\ Shape(a) /\ Keeps(a, r, {"ctx"})
      /\ a.ctx.oplogs = r.ctx.oplogs /\ a.ctx.written = r.ctx.written
  BY <1>1, SetCodeIs
<1>3. a.pc = r.pc
  BY <1>2 DEF Keeps, Fields
<1>4. SendFailed(r) = s
  BY <1>3 DEF SendFailed
<1> HIDE DEF a, code
<1>5. x \in Context /\ SameBooks(x, a.ctx)
  <2> DEFINE y == TraceIn(a.ctx, "SendMsg")
  <2> DEFINE z == SetError(y, "SendMsg")
  <2>0. a.ctx \in Context
    BY <1>2 DEF Shape
  <2>1. y \in Context /\ SameBooks(y, a.ctx)
    BY <1>1, <2>0, TraceInBooks
  <2>2. x = IF r.pc = "beat" THEN a.ctx ELSE TraceOut(z)
    OBVIOUS
  <2> HIDE DEF x, y
  <2>3. z \in Context /\ SameBooks(z, y)
    BY <1>1, <2>1, SetErrorBooks
  <2> HIDE DEF z
  <2>4. TraceOut(z) \in Context /\ SameBooks(TraceOut(z), z)
    BY <2>3, TraceOutBooks
  <2> QED
    BY <2>0, <2>1, <2>2, <2>3, <2>4 DEF SameBooks
<1> HIDE DEF x
<1>6. Shape(s) /\ Keeps(s, a, {"ctx", "code", "answer", "pc"}) /\ s.ctx = x /\ s.answer = "Canceled" /\ s.pc = "unsubscribe"
  BY <1>2, <1>5 DEF Shape, Keeps, Fields
<1> HIDE DEF s
<1>7. Keeps(s, r, {"ctx", "code", "answer", "pc"})
  BY <1>2, <1>6 DEF Keeps, Fields
<1>8. Streams(s)
  BY <1>2, <1>5, <1>6, <1>7 DEF Streams, StillOpen, SameBooks, Keeps, Fields
<1> QED
  BY <1>4, <1>6, <1>7, <1>8

LEMMA SendFailedInv ==
    ASSUME NEW r, Shape(r), Streams(r), Well(r)
    PROVE  CallInv(SendFailed(r))
<1> DEFINE s == SendFailed(r)
<1>1. /\ Shape(s) /\ Keeps(s, r, {"ctx", "code", "answer", "pc"})
      /\ Streams(s) /\ s.answer = "Canceled" /\ s.pc = "unsubscribe"
  BY SendFailedIs
<1> HIDE DEF s
<1>2. Well(s)
  BY <1>1 DEF Well, Keeps, Fields
<1>3. CallInv(s)
  BY <1>1, <1>2 DEF CallInv, AtUnsubscribe, Settled
<1> QED
  BY <1>3 DEF s

LEMMA StreamInitStep ==
    ASSUME IInv, NEW c \in Call, StreamInit(c)
    PROVE  IInv'
<1> DEFINE r == call[c]
<1>1. r.pc = "init"
  BY DEF StreamInit
<1>2. Shape(r) /\ AtInit(r)
  BY <1>1, InvAt
<1>3. \/ r.code # "OK" /\ Become(c, Leave(r, r.code))
      \/ r.code = "OK" /\ Become(c, Leave(r, "OK"))
      \/ r.code = "OK" /\ \E hint \in Hints : Become(c, OnStreamInitialized(r, streamHeartbeatPeriod(hint)))
      \/ r.code = "OK" /\ Become(c, SendFailed(r))
      \/ r.code # "OK" /\ Become(c, Leave(SendFailed(r), r.code))
  BY DEF StreamInit, LeaveInit
<1> HIDE DEF r
<1>4. Streams(r) /\ (Well(r) \/ Ill(r)) /\ (r.code = "OK" => Well(r))
  BY <1>2 DEF AtInit
<1>5. CASE r.code # "OK" /\ Become(c, Leave(r, r.code))
  <2>1. CallInv(Leave(r, r.code))
    BY <1>2, <1>4, <1>5, LeaveInv DEF Ill
  <2> QED
    BY <1>5, <2>1, Becomes
<1>6. CASE r.code = "OK" /\ Become(c, Leave(r, "OK"))
  <2>1. CallInv(Leave(r, "OK"))
    BY <1>2, <1>4, <1>6, LeaveInv
  <2> QED
    BY <1>6, <2>1, Becomes
<1>7. ASSUME r.code = "OK", NEW hint \in Hints, Become(c, OnStreamInitialized(r, streamHeartbeatPeriod(hint)))
      PROVE  IInv'
  <2> DEFINE s == OnStreamInitialized(r, streamHeartbeatPeriod(hint))
  <2> DEFINE beats == streamHeartbeatPeriod(hint) > 0
  <2>1. s = [r EXCEPT !.open = TRUE, !.beats = beats, !.pc = "select"]
    BY DEF OnStreamInitialized
  <2> HIDE DEF s, beats
  <2>2. Shape(s) /\ Keeps(s, r, {"open", "beats", "pc"}) /\ s.pc = "select"
    BY <1>2, <2>1 DEF Shape, Keeps, Fields
  <2>3. /\ s.handled = r.handled /\ s.fault = r.fault /\ s.accepted = r.accepted
        /\ s.kind = r.kind /\ s.ctx = r.ctx /\ s.closes = r.closes /\ s.recorded = r.recorded
    BY <2>2 DEF Keeps, Fields
  <2>4. CallInv(s)
    BY <1>4, <1>7, <2>2, <2>3 DEF CallInv, AtLoop, Streams, Well, StillOpen
  <2> QED
    BY <1>7, <2>4, Becomes DEF s
<1>8. CASE r.code = "OK" /\ Become(c, SendFailed(r))
  <2>1. CallInv(SendFailed(r))
    BY <1>2, <1>4, <1>8, SendFailedInv
  <2> QED
    BY <1>8, <2>1, Becomes
<1>9. CASE r.code # "OK" /\ Become(c, Leave(SendFailed(r), r.code))
  <2> DEFINE s == SendFailed(r)
  <2>1. Shape(s) /\ Keeps(s, r, {"ctx", "code", "answer", "pc"}) /\ Streams(s)
    BY <1>2, <1>4, SendFailedIs
  <2>2. Become(c, Leave(s, r.code))
    BY <1>9
  <2> HIDE DEF s
  <2>3. Well(s) \/ (s.status # "success" /\ r.code # "OK")
    BY <1>4, <1>9, <2>1 DEF Well, Ill, Keeps, Fields
  <2>4. CallInv(Leave(s, r.code))
    BY <2>1, <2>3, LeaveInv
  <2> QED
    BY <2>2, <2>4, Becomes
<1> QED
  BY <1>3, <1>5, <1>6, <1>7, <1>8, <1>9

LEMMA LoopStep ==
    ASSUME IInv, NEW c \in Call, StreamStops(c) \/ StreamBeats(c) \/ StreamMessage(c) \/ StreamSent(c)
    PROVE  IInv'
<1> DEFINE r == call[c]
<1>1. r.pc \in {"select", "send", "beat"}
  BY DEF StreamStops, StreamBeats, StreamMessage, StreamSent, At
<1>2. Shape(r) /\ AtLoop(r)
  BY <1>1, InvAt
<1>3. Streams(r) /\ Well(r)
  BY <1>2 DEF AtLoop
<1> DEFINE failed == SetCode(r, "external_service_error")
<1>4. \/ \E answer \in {"OK", "Aborted"} : Become(c, Leave(r, answer))
      \/ \E pc \in {"select", "send", "beat"} : Become(c, [r EXCEPT !.pc = pc])
      \/ Become(c, Leave(failed, HTTPToGRPC(failed.ctx.genericError)))
      \/ Become(c, SendFailed(r))
  <2>1. StreamStops(c) => \E answer \in {"OK", "Aborted"} : Become(c, Leave(r, answer))
    BY DEF StreamStops, Exit
  <2>2. StreamBeats(c) => \E pc \in {"select", "send", "beat"} : Become(c, [r EXCEPT !.pc = pc])
    BY DEF StreamBeats
  <2>3. StreamMessage(c) => \/ Become(c, [r EXCEPT !.pc = "send"])
                            \/ Become(c, Leave(failed, HTTPToGRPC(failed.ctx.genericError)))
    BY DEF StreamMessage
  <2>4. StreamSent(c) => Become(c, [r EXCEPT !.pc = "select"]) \/ Become(c, SendFailed(r))
    BY DEF StreamSent
  <2> QED
    BY <2>1, <2>2, <2>3, <2>4
<1>5. Shape(failed) /\ Streams(failed) /\ Well(failed)
  <2>1. "external_service_error" \in Errors
    BY DEF Errors
  <2>2. /\ Shape(failed) /\ Keeps(failed, r, {"ctx"})
        /\ failed.ctx.oplogs = r.ctx.oplogs /\ failed.ctx.written = r.ctx.written
    BY <1>2, <2>1, SetCodeIs
  <2> HIDE DEF failed, r
  <2> QED
    BY <1>3, <2>2 DEF Streams, Well, StillOpen, Keeps, Fields
<1> HIDE DEF r, failed
<1>6. ASSUME NEW answer, Become(c, Leave(r, answer)) PROVE IInv'
  <2>1. CallInv(Leave(r, answer))
    BY <1>2, <1>3, LeaveInv
  <2> QED
    BY <1>6, <2>1, Becomes
<1>7. ASSUME NEW answer, Become(c, Leave(failed, answer)) PROVE IInv'
  <2>1. CallInv(Leave(failed, answer))
    BY <1>5, LeaveInv
  <2> QED
    BY <1>7, <2>1, Becomes
<1>8. ASSUME NEW pc \in {"select", "send", "beat"}, Become(c, [r EXCEPT !.pc = pc]) PROVE IInv'
  <2>1. CallInv([r EXCEPT !.pc = pc])
    BY <1>2, MoveInv
  <2> QED
    BY <1>8, <2>1, Becomes
<1>9. CASE Become(c, SendFailed(r))
  BY <1>2, <1>3, <1>9, SendFailedInv, Becomes
<1> QED
  BY <1>4, <1>6, <1>7, <1>8, <1>9

LEMMA UnsubscribeStep ==
    ASSUME IInv, NEW c \in Call, StreamUnsubscribe(c)
    PROVE  IInv'
<1> DEFINE r == call[c]
<1> DEFINE mq == IF r.mq = "subscribed" THEN "released" ELSE r.mq
<1> DEFINE s == [r EXCEPT !.mq = mq, !.pc = "close"]
<1>1. r.pc = "unsubscribe" /\ Become(c, s)
  BY DEF StreamUnsubscribe, At
<1>2. Shape(r) /\ AtUnsubscribe(r)
  BY <1>1, InvAt
<1>3. mq # "subscribed"
  OBVIOUS
<1> HIDE DEF r, mq
<1>4. Shape(s) /\ Keeps(s, r, {"mq", "pc"}) /\ s.mq = mq /\ s.pc = "close"
  BY <1>2 DEF Shape, Keeps, Fields
<1> HIDE DEF s
<1>5. /\ s.handled = r.handled /\ s.fault = r.fault /\ s.accepted = r.accepted /\ s.answer = r.answer
      /\ s.kind = r.kind /\ s.ctx = r.ctx /\ s.closes = r.closes /\ s.recorded = r.recorded /\ s.status = r.status
  BY <1>4 DEF Keeps, Fields
<1>6. CallInv(s)
  BY <1>2, <1>3, <1>4, <1>5 DEF CallInv, AtUnsubscribe, AtClose, Streams, Settled, Well, Ill, StillOpen
<1> QED
  BY <1>1, <1>6, Becomes

LEMMA CloseStep ==
    ASSUME IInv, NEW c \in Call, StreamClose(c)
    PROVE  IInv'
<1> DEFINE r == call[c]
<1> DEFINE failed == ~r.open /\ r.answer # "OK"
<1> DEFINE y == SetError(r.ctx, "Server.Handle")
<1> DEFINE marked == IF failed THEN [r EXCEPT !.ctx = y] ELSE r
<1> DEFINE x == TraceOut(marked.ctx)
<1> DEFINE out == [marked EXCEPT !.ctx = x]
<1> DEFINE s == Ended(out, r.answer)
<1>1. r.pc = "close" /\ Become(c, s)
  BY DEF StreamClose, At
<1>2. Shape(r) /\ AtClose(r)
  BY <1>1, InvAt
<1> HIDE DEF r, failed
<1>3. y \in Context /\ SameBooks(y, r.ctx)
  <2>1. r.ctx \in Context /\ "Server.Handle" \in Traced
    BY <1>2 DEF Shape, Traced
  <2> QED
    BY <2>1, SetErrorBooks
<1>4. StillOpen(r)
  BY <1>2 DEF AtClose, Streams
<1> HIDE DEF y
<1>5. Shape(marked) /\ Keeps(marked, r, {"ctx"}) /\ StillOpen(marked)
  <2>1. CASE failed
    BY <1>2, <1>3, <1>4, <2>1, ContextChange
  <2>2. CASE ~failed
    BY <1>2, <1>4, <2>2 DEF Keeps
  <2> QED
    BY <2>1, <2>2
<1> HIDE DEF marked
<1>6. x \in Context /\ SameBooks(x, marked.ctx)
  BY <1>5, TraceOutBooks DEF Shape
<1> HIDE DEF x
<1>7. Shape(out) /\ Keeps(out, marked, {"ctx"}) /\ StillOpen(out)
  BY <1>5, <1>6, ContextChange
<1> HIDE DEF out
<1>8. /\ Shape(s) /\ Keeps(s, out, {"ctx", "closes", "answer", "pc"})
      /\ s.answer = r.answer /\ s.pc = "done" /\ Released(s)
  BY <1>7, EndedIs
<1> HIDE DEF s
<1>9. /\ s.handled = r.handled /\ s.fault = r.fault /\ s.accepted = r.accepted /\ s.mq = r.mq /\ s.status = r.status
  BY <1>5, <1>7, <1>8 DEF Keeps, Fields
<1>10. CallInv(s)
  BY <1>2, <1>8, <1>9 DEF CallInv, AtClose, AtDone, Streams, Settled, Well, Ill
<1> QED
  BY <1>1, <1>10, Becomes

-----------------------------------------------------------------------------
(* The theorems.                                                           *)

LEMMA InvInit == Init => IInv
<1> SUFFICES ASSUME Init PROVE IInv
  OBVIOUS
<1>1. call = [c \in Call |-> NoCall]
  BY DEF Init
<1>2. CallInv(NoCall)
  <2>1. NoCall.pc = "none"
    BY DEF NoCall
  <2> QED
    BY <2>1, NoCallIs DEF CallInv
<1> QED
  BY <1>1, <1>2 DEF IInv

LEMMA InvStep == IInv /\ [Next]_vars => IInv'
<1> SUFFICES ASSUME IInv, [Next]_vars PROVE IInv'
  OBVIOUS
<1>1. ASSUME NEW c \in Call, HandlerStep(c) PROVE IInv'
  BY <1>1, RefusedStreamStep, UnmarshalStep, HandleStep, RespondStep, StreamInitStep, LoopStep,
     UnsubscribeStep, CloseStep DEF HandlerStep
<1>2. ASSUME NEW c \in Call,
             Disconnect(c) \/ Stall(c) \/ Publish(c) \/ QueueCloses(c) \/ AuthTimerFires(c)
      PROVE  call' = call
  BY <1>2 DEF Disconnect, Stall, Publish, QueueCloses, AuthTimerFires
<1>3. Shutdown \/ ShutdownStep \/ ForceStop \/ UNCHANGED vars => call' = call
  BY DEF Shutdown, ShutdownStep, HttpStopped, Signal, GracefulStop, Drained, ForceStop, vars
<1>4. call' = call => IInv'
  BY DEF IInv
<1> QED
  BY <1>1, <1>2, <1>3, <1>4, ReceiveStep, LoopStep DEF Next, CallNext

LEMMA InvHolds == Spec => []IInv
BY InvInit, InvStep, PTL DEF Spec

(* EndedIsReleased, for handler.go and request.go: a call that ended has   *)
(* closed its request once, popped its trace, written its oplog and let    *)
(* its queue go, whatever ended it.                                        *)
THEOREM EndedCallIsReleased == Spec => []EndedIsReleased
<1>1. IInv => EndedIsReleased
  <2> SUFFICES ASSUME IInv, NEW c \in Call, call[c].pc = "done", ~Broken(call[c])
               PROVE  /\ call[c].closes = 1 /\ call[c].ctx.stack = <<>>
                      /\ call[c].ctx.written = call[c].recorded
                      /\ call[c].handled # "crash" => call[c].mq # "subscribed"
    BY DEF EndedIsReleased
  <2> QED
    BY InvAt DEF AtDone, Released
<1> QED
  BY <1>1, InvHolds, PTL

(* AnsweredAsHandled, for handler.go: only a call that was accepted and    *)
(* was handled without an error is answered as a success, but for a        *)
(* preprocessor that fails without an error code.                          *)
THEOREM AnswerIsAsHandled == Spec => []AnsweredAsHandled
<1>1. IInv => AnsweredAsHandled
  <2> SUFFICES ASSUME IInv, NEW c \in Call
               PROVE  /\ call[c].handled # "no" => call[c].accepted \/ call[c].fault = "decode"
                      /\ call[c].fault # "silent" /\ call[c].pc \in {"done", "init", "select", "send", "beat"} =>
                            Well(call[c]) \/ Ill(call[c])
    BY DEF AnsweredAsHandled, Well, Ill
  <2>1. call[c].pc = "none" => call[c].handled = "no"
    BY DEF IInv, CallInv, NoCall
  <2>2. CallInv(call[c])
    BY DEF IInv
  <2> QED
    BY <2>1, <2>2 DEF CallInv, AtDecode, AtHandle, Unserved, AtRespond, AtInit, AtLoop, AtUnsubscribe,
       AtClose, AtClosed, AtDone, Streams, Settled
<1> QED
  BY <1>1, InvHolds, PTL
=============================================================================
