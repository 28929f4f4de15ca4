----------------------------- MODULE OpContext ------------------------------
(***************************************************************************)
(* op_context/default_op_context/default_op_context.go: the context of one *)
(* operation.  It keeps the stack of the methods being traced, the stack   *)
(* of the first method that left with an error, the error the client will  *)
(* see, and the oplog records to be written.  A context belongs to one     *)
(* goroutine, so its methods are operators on a record.                    *)
(***************************************************************************)
EXTENDS Naturals, Sequences

NoError == "nil"

Frame(method) == [method |-> method, failed |-> FALSE]

NewContext ==
    [stack |-> <<>>, errorStack |-> <<>>, genericError |-> NoError, oplogs |-> 0,
     written |-> 0,       \* history: the oplog records written
     log |-> <<>>]        \* history: what DumpLog wrote

TraceIn(ctx, method) == [ctx EXCEPT !.stack = Append(@, Frame(method))]

(* CallContext.SetError of the frame that the given method pushed.         *)
SetError(ctx, method) ==
    [ctx EXCEPT !.stack = [i \in DOMAIN @ |->
        IF @[i].method = method THEN [@[i] EXCEPT !.failed = TRUE] ELSE @[i]]]

TraceOut(ctx) ==
    LET stack == ctx.stack
        n == Len(stack)
    IN  IF n = 0
        THEN ctx
        ELSE [ctx EXCEPT
                !.errorStack = IF stack[n].failed /\ @ = <<>> THEN stack ELSE @,
                !.stack = SubSeq(stack, 1, n - 1)]

(* The first error stays.                                                  *)
SetGenericErrorCode(ctx, code) ==
    [ctx EXCEPT !.genericError = IF @ = NoError THEN code ELSE @]

Oplog(ctx) == [ctx EXCEPT !.oplogs = @ + 1]

(* Close pops the frames nobody closed, which keeps the first error stack, *)
(* writes the oplog, and dumps the log, which clears the errors.           *)
FirstFailure(stack) ==
    LET failed == {i \in DOMAIN stack : stack[i].failed}
    IN  IF failed = {} THEN <<>> ELSE SubSeq(stack, 1, CHOOSE i \in failed : \A j \in failed : j <= i)

CloseContext(ctx) ==
    LET errorStack == IF ctx.errorStack = <<>> THEN FirstFailure(ctx.stack) ELSE ctx.errorStack
    IN  [ctx EXCEPT
           !.stack = <<>>,
           !.written = @ + ctx.oplogs,
           !.oplogs = 0,
           !.log = Append(@, IF errorStack = <<>> THEN "success" ELSE "error"),
           !.errorStack = <<>>,
           !.genericError = NoError]
=============================================================================
