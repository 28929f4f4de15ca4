------------------------------- MODULE FanIn --------------------------------
(***************************************************************************)
(* message_queue/fan_in.go: FanInBase merges input channels into one       *)
(* output channel of capacity 1.  Goroutines in Thread call AddInput,      *)
(* RemoveInput and Close; Run starts the goroutine Watcher, which closes   *)
(* the fan-in when its context is done; every AddInput starts a worker.    *)
(*                                                                         *)
(* A section under f.mu is one step.  A worker of the pool is used again   *)
(* once its goroutine is gone (it is Free) and nothing refers to it.       *)
(***************************************************************************)
EXTENDS Naturals, Sequences, FiniteSets

CONSTANTS
    Input,         \* the input channels
    Thread,        \* goroutines that call the fan-in
    Watcher,       \* the goroutine started by Run
    Worker,        \* bound: the pool of worker goroutines
    NoWorker, NoInput,
    MaxValues      \* bound: values sent to one input

ASSUME FanInAssumption ==
    /\ Watcher \notin Thread /\ NoWorker \notin Worker /\ NoInput \notin Input
    /\ IsFiniteSet(Worker) /\ IsFiniteSet(Input) /\ IsFiniteSet(Thread)
    /\ MaxValues \in Nat

VARIABLES
    started, fanInClosed,          \* guarded by f.mu
    workers,                  \* f.workers: the registered worker of an input
    ctxDone,                  \* f.ctx is done
    once,                     \* f.closeOnce
    out, outClosed, doneClosed,
    worker,                   \* the worker goroutines
    thread,                   \* the callers
    nextValue, lastValue, inputClosed,   \* the inputs: values nextValue..lastValue remain
    delivered,                \* what the reader of Output() received
    cut                       \* history: inputs that lost a worker to RemoveInput

base == <<started, fanInClosed, workers, ctxDone>>
output == <<once, out, outClosed, doneClosed>>
inputs == <<nextValue, lastValue, inputClosed>>
history == <<delivered, cut>>
fanInVars == <<base, output, worker, thread, inputs, history>>

Goroutine == Thread \cup {Watcher}

InputValue == [ch : Input, n : 1 .. MaxValues]

NoValue == [ch |-> NoInput, n |-> 0]

Free == [pc |-> "free", ch |-> NoInput, canceled |-> FALSE, value |-> NoValue]

At(pc, ch, w) == [pc |-> pc, ch |-> ch, w |-> w]

Idle == At("idle", NoInput, NoWorker)

FanInInit ==
    /\ started = FALSE /\ fanInClosed = FALSE /\ ctxDone = FALSE
    /\ workers = [ch \in Input |-> NoWorker]
    /\ once = "fresh"
    /\ out = <<>> /\ outClosed = FALSE /\ doneClosed = FALSE
    /\ worker = [w \in Worker |-> Free]
    /\ thread = [t \in Goroutine |-> IF t = Watcher THEN At("absent", NoInput, NoWorker) ELSE Idle]
    /\ nextValue = [ch \in Input |-> 1]
    /\ lastValue = [ch \in Input |-> MaxValues]
    /\ inputClosed = [ch \in Input |-> FALSE]
    /\ delivered = [ch \in Input |-> <<>>]
    /\ cut = {}

Go(t, pc) == thread' = [thread EXCEPT ![t].pc = pc]

-----------------------------------------------------------------------------
RunFanIn ==
    /\ ~started /\ ~fanInClosed
    /\ started' = TRUE
    /\ Go(Watcher, "watch")
    /\ UNCHANGED <<fanInClosed, workers, ctxDone, output, worker, inputs, history>>

(* The context given to Run is cancelled.                                  *)
CancelRun ==
    /\ started /\ ~ctxDone
    /\ ctxDone' = TRUE
    /\ UNCHANGED <<started, fanInClosed, workers, output, worker, thread, inputs, history>>

Watch ==
    /\ thread[Watcher].pc = "watch"
    /\ ctxDone
    /\ Go(Watcher, "once")
    /\ UNCHANGED <<base, output, worker, inputs, history>>

-----------------------------------------------------------------------------
Unused(w) ==
    /\ worker[w] = Free
    /\ \A ch \in Input : workers[ch] # w
    /\ \A t \in Goroutine : thread[t].w # w

(* Bound: AddInput waits for a free worker of the pool.                    *)
NewWorker == CHOOSE w \in Worker : Unused(w)

AddInput(t) ==
    /\ thread[t].pc = "add"
    /\ LET ch == thread[t].ch IN
       \/ /\ ~started \/ fanInClosed \/ workers[ch] # NoWorker
          /\ UNCHANGED <<worker, workers>>
       \/ /\ started /\ ~fanInClosed /\ workers[ch] = NoWorker
          /\ \E w \in Worker : Unused(w)
          /\ worker' = [worker EXCEPT ![NewWorker] = [Free EXCEPT !.pc = "select", !.ch = ch]]
          /\ workers' = [workers EXCEPT ![ch] = NewWorker]
    /\ Go(t, "returned")
    /\ UNCHANGED <<started, fanInClosed, ctxDone, output, inputs, history>>

WorkerStopped(w) == worker[w].canceled \/ ctxDone

WorkerReceive(w) ==
    /\ worker[w].pc = "select"
    /\ LET ch == worker[w].ch IN
       /\ nextValue[ch] <= lastValue[ch]
       /\ nextValue' = [nextValue EXCEPT ![ch] = @ + 1]
       /\ worker' = [worker EXCEPT ![w].pc = "send",
                                   ![w].value = [ch |-> ch, n |-> nextValue[ch]]]
    /\ UNCHANGED <<base, output, thread, lastValue, inputClosed, history>>

(* Faulty variant: the value is dropped when the output is full.           *)
WorkerTrySend(w) ==
    /\ worker[w].pc = "send"
    /\ out' = IF Len(out) < 1 THEN Append(out, worker[w].value) ELSE out
    /\ worker' = [worker EXCEPT ![w].pc = "select", ![w].value = NoValue]
    /\ UNCHANGED <<base, once, outClosed, doneClosed, thread, inputs, history>>

WorkerSend(w) ==
    /\ worker[w].pc = "send"
    /\ Len(out) < 1
    /\ out' = Append(out, worker[w].value)
    /\ worker' = [worker EXCEPT ![w].pc = "select", ![w].value = NoValue]
    /\ UNCHANGED <<base, once, outClosed, doneClosed, thread, inputs, history>>

(* The worker returns: close(done), the deferred call that runs first.     *)
WorkerReturn(w) ==
    /\ \/ worker[w].pc \in {"select", "send"} /\ WorkerStopped(w)
       \/ worker[w].pc = "select" /\ inputClosed[worker[w].ch]
             /\ nextValue[worker[w].ch] > lastValue[worker[w].ch]
    /\ worker' = [worker EXCEPT ![w].pc = "done", ![w].value = NoValue]
    /\ UNCHANGED <<base, output, thread, inputs, history>>

WorkerGone(w) ==
    /\ worker[w].pc = "done"
    /\ worker' = [worker EXCEPT ![w] = Free]
    /\ UNCHANGED <<base, output, thread, inputs, history>>

-----------------------------------------------------------------------------
RemoveLookup(t) ==
    /\ thread[t].pc = "remove"
    /\ LET ch == thread[t].ch IN
       \/ /\ workers[ch] = NoWorker
          /\ Go(t, "returned")
          /\ UNCHANGED <<workers, cut>>
       \/ /\ workers[ch] # NoWorker
          /\ workers' = [workers EXCEPT ![ch] = NoWorker]
          /\ thread' = [thread EXCEPT ![t] = At("cancel", ch, workers[ch])]
          /\ cut' = cut \cup {ch}
    /\ UNCHANGED <<started, fanInClosed, ctxDone, output, worker, inputs, delivered>>

(* Faulty variant: RemoveInput does not wait for the worker.               *)
RemoveAwaitNothing(t) ==
    /\ thread[t].pc = "await"
    /\ Go(t, "returned")
    /\ UNCHANGED <<base, output, worker, inputs, history>>

RemoveCancel(t) ==
    /\ thread[t].pc = "cancel"
    /\ worker' = [worker EXCEPT ![thread[t].w].canceled = @ \/ worker[thread[t].w] # Free]
    /\ Go(t, "await")
    /\ UNCHANGED <<base, output, inputs, history>>

RemoveAwait(t) ==
    /\ thread[t].pc = "await"
    /\ worker[thread[t].w].pc \in {"done", "free"}
    /\ Go(t, "returned")
    /\ UNCHANGED <<base, output, worker, inputs, history>>

-----------------------------------------------------------------------------
(* Close: sync.Once makes every other caller wait for the first one.       *)

CloseOnce(t) ==
    /\ thread[t].pc = "once"
    /\ \/ once = "fresh" /\ once' = "running" /\ Go(t, "lock")
       \/ once = "over" /\ Go(t, "returned") /\ UNCHANGED once
    /\ UNCHANGED <<base, out, outClosed, doneClosed, worker, inputs, history>>

CloseLock(t) ==
    /\ thread[t].pc = "lock"
    /\ fanInClosed' = TRUE
    /\ workers' = [ch \in Input |-> NoWorker]
    /\ Go(t, IF started THEN "cancelAll" ELSE "wait")
    /\ UNCHANGED <<started, ctxDone, output, worker, inputs, history>>

(* Faulty variant: Close waits for the workers without telling them.       *)
CloseForgetsCancel(t) ==
    /\ thread[t].pc = "cancelAll"
    /\ Go(t, "wait")
    /\ UNCHANGED <<base, output, worker, inputs, history>>

CloseCancel(t) ==
    /\ thread[t].pc = "cancelAll"
    /\ ctxDone' = TRUE
    /\ Go(t, "wait")
    /\ UNCHANGED <<started, fanInClosed, workers, output, worker, inputs, history>>

CloseWait(t) ==
    /\ thread[t].pc = "wait"
    /\ \A w \in Worker : worker[w] = Free
    /\ Go(t, "closeOut")
    /\ UNCHANGED <<base, output, worker, inputs, history>>

CloseOut(t) ==
    /\ thread[t].pc = "closeOut"
    /\ outClosed' = TRUE
    /\ Go(t, "closeDone")
    /\ UNCHANGED <<base, once, out, doneClosed, worker, inputs, history>>

CloseDone(t) ==
    /\ thread[t].pc = "closeDone"
    /\ doneClosed' = TRUE
    /\ once' = "over"
    /\ Go(t, "returned")
    /\ UNCHANGED <<base, out, outClosed, worker, inputs, history>>

-----------------------------------------------------------------------------
(* The environment.                                                        *)

ReadOutput ==
    /\ out # <<>>
    /\ out' = Tail(out)
    /\ delivered' = [delivered EXCEPT ![Head(out).ch] = Append(@, Head(out).n)]
    /\ UNCHANGED <<base, once, outClosed, doneClosed, worker, thread, inputs, cut>>

CloseInput(ch) ==
    /\ ~inputClosed[ch]
    /\ inputClosed' = [inputClosed EXCEPT ![ch] = TRUE]
    /\ \E n \in nextValue[ch] - 1 .. lastValue[ch] : lastValue' = [lastValue EXCEPT ![ch] = n]
    /\ UNCHANGED <<base, output, worker, thread, nextValue, history>>

Call(t, pc, ch) ==
    /\ thread[t] = Idle
    /\ thread' = [thread EXCEPT ![t] = At(pc, ch, NoWorker)]
    /\ UNCHANGED <<base, output, worker, inputs, history>>

CallReturns(t) ==
    /\ thread[t].pc = "returned"
    /\ thread' = [thread EXCEPT ![t] = Idle]
    /\ UNCHANGED <<base, output, worker, inputs, history>>

(* Everything but the calls: shared with the fan-ins built on this one.    *)
CallerStep(t) ==
    \/ AddInput(t)
    \/ RemoveLookup(t) \/ RemoveCancel(t) \/ RemoveAwait(t)
    \/ CloseOnce(t) \/ CloseLock(t) \/ CloseCancel(t) \/ CloseWait(t) \/ CloseOut(t)
    \/ CloseDone(t)

WorkerStep(w) == WorkerReceive(w) \/ WorkerSend(w) \/ WorkerReturn(w) \/ WorkerGone(w)

FanInStep ==
    \/ RunFanIn \/ CancelRun \/ Watch \/ ReadOutput
    \/ \E t \in Goroutine : CallerStep(t)
    \/ \E w \in Worker : WorkerStep(w)
    \/ \E ch \in Input : CloseInput(ch)

-----------------------------------------------------------------------------
Working(w) == worker[w].pc \in {"select", "send"}

(* The doc comments of RemoveInput and Close (fan_in.go:122-124, 146-147). *)
(* Once RemoveInput returns, no value read from the input, not even one in *)
(* flight, can reach the output through the worker it removed.  Once Close *)
(* returns to a caller, the one that lost the race for closeOnce and the   *)
(* watcher included, Output() and Done() are closed.  Nothing is sent on   *)
(* the closed output, which would panic: it is closed after the last       *)
(* worker left and no AddInput starts one after that (fan_in.go:84-97).    *)
ReturnIsBarrier ==
    /\ \A t \in Goroutine : thread[t].pc = "returned" =>
          /\ thread[t].w # NoWorker => ~Working(thread[t].w)
          /\ thread[t].ch = NoInput => outClosed /\ doneClosed /\ fanInClosed
    /\ outClosed => \A w \in Worker : ~Working(w)

InHandOf(ch) == {w \in Worker : worker[w].value.ch = ch}

(* What the output channel, which has room for one value, holds of an      *)
(* input.                                                                  *)
InOut(ch) == IF out # <<>> /\ Head(out).ch = ch THEN <<Head(out).n>> ELSE <<>>

(* A value read from an input that is neither removed nor shut down is     *)
(* delivered exactly once and in order: what the reader received, what is  *)
(* in the output channel and what a worker holds make up all the values    *)
(* read from it so far (fan_in.go:105-119).                                *)
NothingLost ==
    \A ch \in Input \ cut :
       ~ctxDone =>
         LET got == delivered[ch] \o InOut(ch)
         IN  /\ Cardinality(InHandOf(ch)) <= 1
             /\ Len(out) <= 1
             /\ \A i \in DOMAIN got : got[i] = i
             /\ Len(got) + Cardinality(InHandOf(ch)) = nextValue[ch] - 1

=============================================================================
