------------------------------ MODULE Consumer ------------------------------
(***************************************************************************)
(* message_queue/consumer.go and feeder.go: a ConsumerBase with its        *)
(* default feeder and ReplacingQueue, the goroutines that call Consume and *)
(* Close, and the one reader of the feeder's channel, which calls Next     *)
(* after every message it received (grpc_api_server/handler.go:412-425).   *)
(*                                                                         *)
(* A step is what a goroutine does between two accesses to state it shares *)
(* with another one.  queue, wrapper and feederReady belong to the process *)
(* goroutine alone.  A select takes any of its ready cases.                *)
(***************************************************************************)
EXTENDS KeyedSeq

CONSTANTS
    Key,
    NoKey,                   \* the key of a wrapper that has no message
    Publisher,               \* goroutines that call Consume
    Reader,                  \* the goroutine that reads Channel()
    Closer,                  \* goroutines that call Close
    MAX_QUEUE_DEPTH,         \* 0: the backlog is not bounded
    WORK_CHANNEL_DEPTH,
    FEEDER_CHANNEL_DEPTH,
    MaxMessages              \* bound: calls of Consume

ASSUME ConsumerAssumption ==
    /\ NoKey \notin Key
    /\ Reader \notin Publisher
    /\ MAX_QUEUE_DEPTH \in Nat
    /\ WORK_CHANNEL_DEPTH \in Nat \ {0}
    /\ FEEDER_CHANNEL_DEPTH \in Nat \ {0}
    /\ MaxMessages \in Nat

VARIABLES
    pc,             \* where process() is
    wrapper,        \* the wrapper process() took from the work channel
    feederReady,
    queue,          \* the backlog, oldest first
    work,           \* contents of workChannel
    feeder,         \* contents of the feeder's channel
    feederClosed,
    closed,         \* the atomic flag
    closeChannel,   \* TRUE once closed
    doneChannel,    \* TRUE once closed
    canceled,       \* the context given to Run is done
    sender,         \* where a goroutine is in tryNext, and which context it watches
    outgoing,       \* the key of the message a caller of tryNext is sending
    reader,
    closer,
    calls,          \* calls of Consume so far
    accepted,       \* messages put into workChannel so far
    received        \* received[k]: id of the last message of key k received

process == <<pc, wrapper, feederReady, queue>>
shutdown == <<closed, closeChannel, doneChannel, canceled, closer>>
vars == <<process, work, feeder, feederClosed, shutdown, sender, outgoing, reader,
          calls, accepted, received>>

Message == [key : Key, id : Nat \ {0}]

(* messageWrapper{} without a message: "try next".                         *)
Tick == [key |-> NoKey, id |-> 0]

hasMessage(w) == w # Tick

Caller == Publisher \cup {Reader}

Init ==
    /\ pc = "notStarted"
    /\ wrapper = Tick
    /\ feederReady = TRUE
    /\ queue = <<>>
    /\ work = <<>>
    /\ feeder = <<>>
    /\ feederClosed = FALSE
    /\ closed = FALSE
    /\ closeChannel = FALSE
    /\ doneChannel = FALSE
    /\ canceled = FALSE
    /\ sender = [s \in Caller |-> "idle"]
    /\ outgoing = [s \in Caller |-> NoKey]
    /\ reader = "receive"
    /\ closer = [c \in Closer |-> "idle"]
    /\ calls = 0
    /\ accepted = 0
    /\ received = [k \in Key |-> 0]

-----------------------------------------------------------------------------
(* The owner of the consumer.                                              *)

Run ==
    /\ pc = "notStarted"
    /\ pc' = "select"
    /\ UNCHANGED <<wrapper, feederReady, queue, work, feeder, feederClosed, shutdown,
                   sender, outgoing, reader, calls, accepted, received>>

Cancel ==
    /\ ~canceled
    /\ canceled' = TRUE
    /\ UNCHANGED <<process, work, feeder, feederClosed, closed, closeChannel, doneChannel,
                   closer, sender, outgoing, reader, calls, accepted, received>>

-----------------------------------------------------------------------------
(* tryNext: a select over the work channel, s.ctx and the close channel.   *)
(* s.ctx is read once, on entry: the background context before Run.        *)

EnterTryNext(s) ==
    /\ sender[s] = "idle"
    /\ sender' = [sender EXCEPT ![s] = IF pc = "notStarted" THEN "background" ELSE "run"]

LeaveTryNext(s) ==
    /\ sender' = [sender EXCEPT ![s] = "idle"]
    /\ outgoing' = [outgoing EXCEPT ![s] = NoKey]
    /\ reader' = IF s = Reader THEN "receive" ELSE reader

Send(s) ==
    /\ sender[s] # "idle"
    /\ Len(work) < WORK_CHANNEL_DEPTH
    /\ IF s = Reader
       THEN /\ work' = Append(work, Tick)
            /\ UNCHANGED accepted
       ELSE /\ work' = Append(work, [key |-> outgoing[s], id |-> accepted + 1])
            /\ accepted' = accepted + 1
    /\ LeaveTryNext(s)
    /\ UNCHANGED <<process, feeder, feederClosed, shutdown, calls, received>>

(* Faulty variant: the close channel is not watched.                       *)
GiveUpOnCancel(s) ==
    /\ sender[s] = "run"
    /\ canceled
    /\ LeaveTryNext(s)
    /\ UNCHANGED <<process, work, feeder, feederClosed, shutdown, calls, accepted, received>>

GiveUp(s) ==
    /\ sender[s] # "idle"
    /\ closeChannel \/ (canceled /\ sender[s] = "run")
    /\ LeaveTryNext(s)
    /\ UNCHANGED <<process, work, feeder, feederClosed, shutdown, calls, accepted, received>>

Consume(p, k) ==
    /\ calls < MaxMessages
    /\ calls' = calls + 1
    /\ EnterTryNext(p)
    /\ outgoing' = [outgoing EXCEPT ![p] = k]
    /\ UNCHANGED <<process, work, feeder, feederClosed, shutdown, reader, accepted, received>>

-----------------------------------------------------------------------------
(* The reader: receive from the feeder's channel, handle, call Next.       *)

Receive ==
    /\ reader = "receive"
    /\ feeder # <<>>
    /\ feeder' = Tail(feeder)
    /\ received' = [received EXCEPT ![Head(feeder).key] = Head(feeder).id]
    /\ reader' = "handling"
    /\ UNCHANGED <<process, work, feederClosed, shutdown, sender, outgoing, calls, accepted>>

ReceiveClosed ==
    /\ reader = "receive"
    /\ feeder = <<>> /\ feederClosed
    /\ reader' = "gone"
    /\ UNCHANGED <<process, work, feeder, feederClosed, shutdown, sender, outgoing, calls,
                   accepted, received>>

CallNext ==
    /\ reader = "handling"
    /\ reader' = "next"
    /\ EnterTryNext(Reader)
    /\ UNCHANGED <<process, work, feeder, feederClosed, shutdown, outgoing, calls, accepted,
                   received>>

-----------------------------------------------------------------------------
(* The process goroutine.                                                  *)

(* FeederBase.Push: a send that never blocks.                              *)
PushAccepted(m) ==
    /\ Len(feeder) < FEEDER_CHANNEL_DEPTH
    /\ feeder' = Append(feeder, m)

PushRefused ==
    /\ Len(feeder) >= FEEDER_CHANNEL_DEPTH
    /\ UNCHANGED feeder

(* Faulty variant: the context is not watched.                             *)
SelectCloseOnly ==
    /\ pc = "select"
    /\ closeChannel
    /\ pc' = "exit"
    /\ UNCHANGED <<wrapper, feederReady, queue, work, feeder, feederClosed>>

SelectStop ==
    /\ pc = "select"
    /\ canceled \/ closeChannel
    /\ pc' = "exit"
    /\ UNCHANGED <<wrapper, feederReady, queue, work, feeder, feederClosed>>

(* Faulty variant: a wrapper without a message is not worth a drain.       *)
SelectIgnoresTick ==
    /\ pc = "select"
    /\ work # <<>>
    /\ work' = Tail(work)
    /\ feederReady' = TRUE
    /\ IF hasMessage(Head(work))
       THEN wrapper' = Head(work) /\ pc' = "drain"
       ELSE UNCHANGED <<wrapper, pc>>
    /\ UNCHANGED <<queue, feeder, feederClosed>>

SelectWork ==
    /\ pc = "select"
    /\ work # <<>>
    /\ wrapper' = Head(work)
    /\ work' = Tail(work)
    /\ feederReady' = TRUE
    /\ pc' = "drain"
    /\ UNCHANGED <<queue, feeder, feederClosed>>

(* for !s.closed.Load()                                                    *)
DrainTest ==
    /\ pc = "drain"
    /\ pc' = IF closed THEN "check" ELSE "push"
    /\ UNCHANGED <<wrapper, feederReady, queue, work, feeder, feederClosed>>

DrainPush ==
    /\ pc = "push"
    /\ \/ /\ queue = <<>>
          /\ pc' = "check"
          /\ UNCHANGED <<feederReady, queue, feeder>>
       \/ /\ queue # <<>>
          /\ PushAccepted(Head(queue))
          /\ queue' = Tail(queue)
          /\ pc' = "drain"
          /\ UNCHANGED feederReady
       \/ /\ queue # <<>>
          /\ PushRefused
          /\ feederReady' = FALSE
          /\ pc' = "check"
          /\ UNCHANGED queue
    /\ UNCHANGED <<wrapper, work, feederClosed>>

(* tryNext returns to the select; its locals are gone.                     *)
Return ==
    /\ pc' = "select"
    /\ wrapper' = Tick
    /\ feederReady' = TRUE

Check ==
    /\ pc = "check"
    /\ \/ /\ ~hasMessage(wrapper) \/ closed
          /\ Return
       \/ /\ hasMessage(wrapper) /\ ~closed
          /\ pc' = "offer"
          /\ UNCHANGED <<wrapper, feederReady>>
    /\ UNCHANGED <<queue, work, feeder, feederClosed>>

(* Faulty variant: a full backlog gives up its newest message.             *)
TrimmedAtBack ==
    IF MAX_QUEUE_DEPTH # 0 /\ Len(queue) >= MAX_QUEUE_DEPTH
    THEN SubSeq(queue, 1, Len(queue) - 1) ELSE queue

(* The backlog takes a message the feeder has no room for.                 *)
Trimmed ==
    IF MAX_QUEUE_DEPTH # 0 /\ Len(queue) >= MAX_QUEUE_DEPTH THEN DropHead(queue) ELSE queue

(* Faulty variant: the new message is pushed although the backlog was not. *)
OfferOvertakes ==
    /\ pc = "offer"
    /\ \/ PushAccepted(wrapper) /\ UNCHANGED queue
       \/ PushRefused /\ queue' = Put(Trimmed, wrapper)
    /\ Return
    /\ UNCHANGED <<work, feederClosed>>

Offer ==
    /\ pc = "offer"
    /\ \/ feederReady /\ PushAccepted(wrapper) /\ UNCHANGED queue
       \/ feederReady /\ PushRefused /\ queue' = Put(Trimmed, wrapper)
       \/ ~feederReady /\ queue' = Put(Trimmed, wrapper) /\ UNCHANGED feeder
    /\ Return
    /\ UNCHANGED <<work, feederClosed>>

(* Faulty variant: the backlog is kept.                                    *)
ExitKeepsQueue ==
    /\ pc = "exit"
    /\ pc' = "cleared"
    /\ feederClosed' = TRUE
    /\ UNCHANGED <<wrapper, feederReady, queue, work, feeder>>

(* The deferred function.                                                  *)
ExitClear ==
    /\ pc = "exit"
    /\ pc' = "cleared"
    /\ queue' = <<>>
    /\ feederClosed' = TRUE
    /\ UNCHANGED <<wrapper, feederReady, work, feeder>>

Process ==
    /\ SelectStop \/ SelectWork \/ DrainTest \/ DrainPush \/ Check \/ Offer \/ ExitClear
    /\ UNCHANGED <<shutdown, sender, outgoing, reader, calls, accepted, received>>

ExitDone ==
    /\ pc = "cleared"
    /\ pc' = "done"
    /\ doneChannel' = TRUE
    /\ UNCHANGED <<wrapper, feederReady, queue, work, feeder, feederClosed, closed,
                   closeChannel, canceled, closer, sender, outgoing, reader, calls, accepted,
                   received>>

-----------------------------------------------------------------------------
(* Close: one caller wins the compare-and-swap, closes the close channel   *)
(* and waits for the process goroutine or the deadline.                    *)

CloseSwap(c) ==
    /\ closer[c] = "idle"
    /\ closed' = TRUE
    /\ closer' = [closer EXCEPT ![c] = IF closed THEN "lost" ELSE "won"]
    /\ UNCHANGED <<closeChannel, doneChannel, canceled>>

CloseSignal(c) ==
    /\ closer[c] = "won"
    /\ closeChannel' = TRUE
    /\ closer' = [closer EXCEPT ![c] = "waiting"]
    /\ UNCHANGED <<closed, doneChannel, canceled>>

CloseReturn(c) ==
    /\ closer[c] = "waiting"
    /\ \/ doneChannel /\ closer' = [closer EXCEPT ![c] = "clean"]
       \/ closer' = [closer EXCEPT ![c] = "deadline"]
    /\ UNCHANGED <<closed, closeChannel, doneChannel, canceled>>

Close(c) ==
    /\ CloseSwap(c) \/ CloseSignal(c) \/ CloseReturn(c)
    /\ UNCHANGED <<process, work, feeder, feederClosed, sender, outgoing, reader, calls,
                   accepted, received>>

Next ==
    \/ Run \/ Cancel
    \/ \E p \in Publisher, k \in Key : Consume(p, k)
    \/ \E s \in Caller : Send(s) \/ GiveUp(s)
    \/ Receive \/ ReceiveClosed \/ CallNext
    \/ Process \/ ExitDone
    \/ \E c \in Closer : Close(c)

Spec == Init /\ [][Next]_vars

(* Every goroutine that can run does run.  A blocked channel send is       *)
(* served in turn (the runtime queues blocked senders), so a send that is  *)
(* possible again and again happens.  Nothing is assumed of the reader.    *)
Fairness ==
    /\ WF_vars(Process) /\ WF_vars(ExitDone)
    /\ \A s \in Caller : SF_vars(Send(s) \/ GiveUp(s))
    /\ \A c \in Closer : WF_vars(closer[c] # "idle" /\ Close(c))

FairSpec == Spec /\ Fairness

(* A reader that keeps reading and calling Next.                           *)
ActiveReader == WF_vars(Receive \/ ReceiveClosed \/ CallNext)

-----------------------------------------------------------------------------
ChannelItem == Message \cup {Tick}

TypeOK ==
    /\ pc \in {"notStarted", "select", "drain", "push", "check", "offer", "exit", "cleared",
               "done"}
    /\ wrapper \in ChannelItem
    /\ feederReady \in BOOLEAN
    /\ queue \in Seq(Message)
    /\ work \in Seq(ChannelItem)
    /\ feeder \in Seq(Message)
    /\ feederClosed \in BOOLEAN
    /\ closed \in BOOLEAN
    /\ closeChannel \in BOOLEAN
    /\ doneChannel \in BOOLEAN
    /\ canceled \in BOOLEAN
    /\ sender \in [Caller -> {"idle", "background", "run"}]
    /\ outgoing \in [Caller -> Key \cup {NoKey}]
    /\ reader \in {"receive", "handling", "next", "gone"}
    /\ closer \in [Closer -> {"idle", "won", "lost", "waiting", "clean", "deadline"}]
    /\ calls \in Nat
    /\ accepted \in Nat
    /\ received \in [Key -> Nat]

InHand == IF hasMessage(wrapper) THEN <<wrapper>> ELSE <<>>

(* The messages of a channel, without the wrappers that have none.         *)
Messages(channel) ==
    LET kept[i \in 0 .. Len(channel)] ==
            IF i = 0 THEN <<>>
            ELSE IF hasMessage(channel[i]) THEN Append(kept[i - 1], channel[i])
            ELSE kept[i - 1]
    IN  kept[Len(channel)]

(* All messages between Consume and the reader, the next one to be         *)
(* received first.                                                         *)
Pipeline == feeder \o queue \o InHand \o Messages(work)

Stopping == closed \/ canceled

Running == pc \notin {"notStarted", "exit", "cleared", "done"}

(* Messages of one key are received in the order in which the work channel *)
(* accepted them: process() pushes a new message to the feeder only once   *)
(* the backlog went first (consumer.go:135-157), and a message that        *)
(* replaces a queued one is always newer (consumer.go:169).                *)
PerKeyOrder ==
    \A i \in DOMAIN Pipeline :
       /\ received[Pipeline[i].key] < Pipeline[i].id
       /\ \A j \in 1 .. i - 1 :
            Pipeline[j].key = Pipeline[i].key => Pipeline[j].id < Pipeline[i].id

(* The backlog never holds two messages of one key nor more than           *)
(* MAX_QUEUE_DEPTH messages (consumer.go:166-169).                         *)
BacklogBounded ==
    /\ KeysDistinct(queue)
    /\ MAX_QUEUE_DEPTH # 0 => Len(queue) <= MAX_QUEUE_DEPTH

(* No lost wakeup: while a backlog waits and process() is idle, something  *)
(* will wake it up: a wrapper in the work channel, or a message the reader *)
(* can receive or is handling, after which it calls Next                   *)
(* (consumer.go:158-189; the feeder is never left empty with a backlog     *)
(* and no Next on its way).                                                *)
NoLostWakeup ==
    pc = "select" /\ queue # <<>> /\ ~Stopping
      => work # <<>> \/ feeder # <<>> \/ reader \in {"handling", "next"}

(* A Close that was not cut off by its deadline returns to a consumer that *)
(* holds nothing back: the goroutine is gone, the feeder's channel is      *)
(* closed and the backlog is empty (consumer.go:122-126, 236-242).         *)
CloseIsSynchronous ==
    \A c \in Closer :
       closer[c] = "clean" => feederClosed /\ queue = <<>> /\ pc = "done"

(* Once the closed flag is set at most the one push that was already past  *)
(* its test of the flag still reaches the reader (consumer.go:136, 149).   *)
NoPushAfterClose ==
    [][closed /\ pc \notin {"push", "offer"} => pc' \notin {"push", "offer"}]_vars

(* The mailbox that the consumer is: what is pending once it has stopped   *)
(* is what the feeder's channel still holds.                               *)
Stopped == pc \in {"cleared", "done"}

Abstract == INSTANCE Mailbox WITH
               Message <- [key : Key, id : 1 .. MaxMessages],
               MaxDepth <- MAX_QUEUE_DEPTH,
               pending <- IF Stopped THEN feeder ELSE Pipeline,
               handed <- Len(feeder),
               closing <- Stopping,
               stopped <- Stopped

(* Loss, duplication and reordering happen only as the mailbox allows: by  *)
(* conflation in place (consumer.go:169), by dropping the oldest message   *)
(* of a full backlog and no other (consumer.go:166-168,                    *)
(* replacing_queue.go:115-124), by shutdown (consumer.go:122-126).         *)
ImplementsMailbox == Abstract!Spec

(* A publisher is never blocked for good once the consumer was started,    *)
(* however slow the reader is: process() never blocks on the feeder        *)
(* (feeder.go:57-77), and Cancel and Close release it (consumer.go:195-215).*)
ConsumeReturns == \A p \in Publisher : sender[p] = "run" ~> sender[p] # "run"

(* Shutdown needs nobody's help: after Cancel or Close a started consumer  *)
(* stops although nobody reads its channel (consumer.go:173-192).          *)
ShutdownCompletes == (closeChannel \/ canceled) /\ pc # "notStarted" ~> doneChannel

(* While the reader keeps reading, no accepted message stays in the        *)
(* consumer for good: it or a newer one of its key is received, or a newer *)
(* one replaces it, or a full backlog drops it, which ImplementsMailbox    *)
(* says are the only ways out.  After shutdown the reader finds its        *)
(* channel closed (consumer.go:124, 135-170).                              *)
EventuallyReceived ==
    ActiveReader =>
      /\ \A k \in Key, n \in 1 .. MaxMessages :
           (\E i \in DOMAIN Pipeline : Pipeline[i] = [key |-> k, id |-> n]) /\ Running
             ~> \/ received[k] >= n \/ Stopping
                \/ \A i \in DOMAIN Pipeline : Pipeline[i] # [key |-> k, id |-> n]
      /\ Stopping /\ pc # "notStarted" ~> reader = "gone"
=============================================================================
