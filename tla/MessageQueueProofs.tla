------------------------- MODULE MessageQueueProofs -------------------------
(***************************************************************************)
(* Theorems about the message queue package: Consumer for every number of  *)
(* publishers, closers, keys and messages and every channel and queue      *)
(* depth; the queue that it keeps its backlog in, as that queue is stored; *)
(* the fan-in and the two fan-ins built on it, for any number of inputs,   *)
(* callers, workers and values.                                            *)
(***************************************************************************)
EXTENDS Consumer, FeederFanIn, SubscriberFanIn, FiniteSetTheorems, SequenceTheorems, WellFoundedInduction, TLAPS


-----------------------------------------------------------------------------
(* The queue operators.                                                    *)

LEMMA AppendType ==
    ASSUME NEW S, NEW q \in Seq(S), NEW m \in S
    PROVE  Append(q, m) \in Seq(S)
OBVIOUS

(* A queued message is replaced in place, any other goes to the back, so   *)
(* Put stays within the messages and never adds more than one.             *)
LEMMA PutType ==
    ASSUME NEW S, NEW q \in Seq(S), NEW m \in S
    PROVE  /\ Put(q, m) \in Seq(S)
           /\ HasKey(q, m.key) => Len(Put(q, m)) = Len(q)
           /\ ~HasKey(q, m.key) => Put(q, m) = Append(q, m)
           /\ Len(Put(q, m)) <= Len(q) + 1
<1>1. CASE HasKey(q, m.key)
  <2> DEFINE r == [i \in DOMAIN q |-> IF q[i].key = m.key THEN m ELSE q[i]]
  <2>1. Put(q, m) = r
    BY <1>1 DEF Put
  <2>2. r \in Seq(S) /\ Len(r) = Len(q)
    OBVIOUS
  <2> QED
    BY <1>1, <2>1, <2>2
<1>2. CASE ~HasKey(q, m.key)
  BY <1>2 DEF Put
<1> QED
  BY <1>1, <1>2

(* Put keeps the keys of a queue distinct.                                 *)
LEMMA PutDistinct ==
    ASSUME NEW S, NEW q \in Seq(S), NEW m \in S, KeysDistinct(q)
    PROVE  KeysDistinct(Put(q, m))
<1>1. CASE HasKey(q, m.key)
  <2> DEFINE r == [i \in DOMAIN q |-> IF q[i].key = m.key THEN m ELSE q[i]]
  <2>1. Put(q, m) = r
    BY <1>1 DEF Put
  <2>2. \A i \in DOMAIN q : r[i].key = q[i].key
    OBVIOUS
  <2>3. DOMAIN r = DOMAIN q
    OBVIOUS
  <2> QED
    BY <2>1, <2>2, <2>3 DEF KeysDistinct
<1>2. CASE ~HasKey(q, m.key)
  <2>1. Put(q, m) = Append(q, m)
    BY <1>2 DEF Put
  <2>2. \A i \in DOMAIN q : q[i].key # m.key
    BY <1>2 DEF HasKey
  <2>3. /\ DOMAIN Append(q, m) = 1 .. Len(q) + 1
        /\ DOMAIN q = 1 .. Len(q)
        /\ \A i \in 1 .. Len(q) : Append(q, m)[i] = q[i]
        /\ Append(q, m)[Len(q) + 1] = m
        /\ Len(q) \in Nat
    OBVIOUS
  <2> QED
    BY <2>1, <2>2, <2>3 DEF KeysDistinct
<1> QED
  BY <1>1, <1>2

(* Dropping the front message keeps the type and the distinct keys.        *)
LEMMA DropHeadProperties ==
    ASSUME NEW S, NEW q \in Seq(S)
    PROVE  /\ DropHead(q) \in Seq(S)
           /\ q # <<>> => Len(DropHead(q)) = Len(q) - 1
           /\ KeysDistinct(q) => KeysDistinct(DropHead(q))
<1>1. CASE q = <<>>
  BY <1>1 DEF DropHead
<1>2. CASE q # <<>>
  <2>1. /\ DropHead(q) = Tail(q) /\ Tail(q) \in Seq(S) /\ Len(Tail(q)) = Len(q) - 1
        /\ DOMAIN q = 1 .. Len(q) /\ DOMAIN Tail(q) = 1 .. Len(q) - 1 /\ Len(q) \in Nat
        /\ \A i \in 1 .. Len(q) - 1 : Tail(q)[i] = q[i + 1]
    BY <1>2 DEF DropHead
  <2> QED
    BY <2>1 DEF KeysDistinct
<1> QED
  BY <1>1, <1>2

-----------------------------------------------------------------------------
(* Type correctness.                                                       *)

LEMMA ItemTypes ==
    /\ Tick \in ChannelItem /\ Tick \notin Message
    /\ \A m \in ChannelItem : hasMessage(m) => m \in Message
    /\ Message \subseteq ChannelItem
BY ConsumerAssumption DEF Tick, ChannelItem, Message, hasMessage

(* The types hold together with two facts about goroutines in the middle   *)
(* of a call: process() offers only messages, a publisher sends one.       *)
OfferHasMessage == pc = "offer" => wrapper \in Message

SenderHasKey == \A p \in Publisher : sender[p] # "idle" => outgoing[p] \in Key

TypeInv == TypeOK /\ OfferHasMessage /\ SenderHasKey

LEMMA TypeInit == Init => TypeInv
<1> SUFFICES ASSUME Init PROVE TypeInv
  OBVIOUS
<1>1. /\ wrapper \in ChannelItem
      /\ queue \in Seq(Message) /\ work \in Seq(ChannelItem) /\ feeder \in Seq(Message)
  BY ItemTypes DEF Init
<1>2. /\ sender \in [Caller -> {"idle", "background", "run"}]
      /\ outgoing \in [Caller -> Key \cup {NoKey}]
      /\ closer \in [Closer -> {"idle", "won", "lost", "waiting", "clean", "deadline"}]
      /\ received \in [Key -> Nat]
      /\ calls \in Nat /\ accepted \in Nat
  BY DEF Init
<1>3. /\ feederReady \in BOOLEAN /\ feederClosed \in BOOLEAN /\ closed \in BOOLEAN
      /\ closeChannel \in BOOLEAN /\ doneChannel \in BOOLEAN /\ canceled \in BOOLEAN
  BY Zenon DEF Init
<1>4. SenderHasKey
  BY DEF Init, SenderHasKey, Caller
<1>5. pc = "notStarted" /\ reader = "receive"
  BY DEF Init
<1> QED
  BY <1>1, <1>2, <1>3, <1>4, <1>5 DEF TypeInv, TypeOK, OfferHasMessage

(* A call of tryNext only moves its caller.                                *)
LEMMA TryNextType ==
    ASSUME TypeInv, NEW s \in Caller
    PROVE  /\ EnterTryNext(s) => sender' \in [Caller -> {"idle", "background", "run"}]
           /\ LeaveTryNext(s) => /\ sender' \in [Caller -> {"idle", "background", "run"}]
                                 /\ outgoing' \in [Caller -> Key \cup {NoKey}]
                                 /\ reader' \in {"receive", "handling", "next", "gone"}
                                 /\ SenderHasKey'
BY DEF TypeInv, TypeOK, EnterTryNext, LeaveTryNext, SenderHasKey, Caller

LEMMA TypeStep == TypeInv /\ [Next]_vars => TypeInv'
<1> SUFFICES ASSUME TypeInv, [Next]_vars PROVE TypeInv'
  OBVIOUS
<1> USE DEF TypeInv, TypeOK, OfferHasMessage
<1>1. CASE Run
  BY <1>1 DEF Run, SenderHasKey, shutdown
<1>2. CASE Cancel
  BY <1>2 DEF Cancel, SenderHasKey, process
<1>3. ASSUME NEW p \in Publisher, NEW k \in Key, Consume(p, k) PROVE TypeInv'
  <2>1. SenderHasKey'
    BY <1>3 DEF Consume, EnterTryNext, SenderHasKey, Caller
  <2>2. outgoing' \in [Caller -> Key \cup {NoKey}] /\ calls' \in Nat
    BY <1>3 DEF Consume, Caller
  <2>3. p \in Caller
    BY DEF Caller
  <2> QED
    BY <1>3, <2>1, <2>2, <2>3, TryNextType DEF Consume, process, shutdown
<1>4. ASSUME NEW s \in Caller, Send(s) PROVE TypeInv'
  <2>1. work' \in Seq(ChannelItem) /\ accepted' \in Nat
    <3>1. CASE s = Reader
      <4>1. Append(work, Tick) \in Seq(ChannelItem)
        BY ItemTypes, AppendType
      <4> QED
        BY <1>4, <3>1, <4>1 DEF Send
    <3>2. CASE s # Reader
      <4>1. [key |-> outgoing[s], id |-> accepted + 1] \in Message
        BY <1>4, <3>2 DEF Send, SenderHasKey, Message, Caller
      <4>2. Append(work, [key |-> outgoing[s], id |-> accepted + 1]) \in Seq(ChannelItem)
        BY <4>1, ItemTypes, AppendType
      <4>3. /\ work' = Append(work, [key |-> outgoing[s], id |-> accepted + 1])
            /\ accepted' = accepted + 1
        BY <1>4, <3>2, Zenon DEF Send
      <4> QED
        BY <4>2, <4>3
    <3> QED
      BY <3>1, <3>2
  <2> QED
    BY <1>4, <2>1, TryNextType DEF Send, process, shutdown
<1>5. ASSUME NEW s \in Caller, GiveUp(s) PROVE TypeInv'
  BY <1>5, TryNextType DEF GiveUp, process, shutdown
<1>6. CASE Receive
  <2>1. feeder' \in Seq(Message) /\ Head(feeder) \in Message
    BY <1>6 DEF Receive
  <2>2. received' \in [Key -> Nat]
    BY <1>6, <2>1 DEF Receive, Message
  <2> QED
    BY <1>6, <2>1, <2>2 DEF Receive, SenderHasKey, process, shutdown
<1>7. CASE ReceiveClosed
  BY <1>7 DEF ReceiveClosed, SenderHasKey, process, shutdown
<1>8. CASE CallNext
  <2>1. SenderHasKey'
    BY <1>8, ConsumerAssumption DEF CallNext, EnterTryNext, SenderHasKey, Caller
  <2>2. Reader \in Caller
    BY DEF Caller
  <2> QED
    BY <1>8, <2>1, <2>2, TryNextType DEF CallNext, process, shutdown
<1>9. CASE Process
  <2>1. UNCHANGED <<shutdown, sender, outgoing, reader, calls, accepted, received>>
    BY <1>9 DEF Process
  <2>2. SenderHasKey'
    BY <2>1 DEF SenderHasKey
  <2> USE <2>1, <2>2 DEF shutdown
  <2>3. CASE SelectStop
    BY <2>3 DEF SelectStop
  <2>4. CASE SelectWork
    <3>1. Head(work) \in ChannelItem /\ Tail(work) \in Seq(ChannelItem)
      BY <2>4 DEF SelectWork
    <3> QED
      BY <2>4, <3>1 DEF SelectWork
  <2>5. CASE DrainTest
    BY <2>5 DEF DrainTest
  <2>6. CASE DrainPush
    <3>1. queue # <<>> => Head(queue) \in Message /\ Tail(queue) \in Seq(Message)
      OBVIOUS
    <3>2. queue # <<>> => Append(feeder, Head(queue)) \in Seq(Message)
      BY <3>1, AppendType
    <3> QED
      BY <2>6, <3>1, <3>2 DEF DrainPush, PushAccepted, PushRefused
  <2>7. CASE Check
    <3>1. hasMessage(wrapper) => wrapper \in Message
      BY ItemTypes
    <3> QED
      BY <2>7, <3>1, ItemTypes DEF Check, Return
  <2>8. CASE Offer
    <3>1. Trimmed \in Seq(Message)
      BY DropHeadProperties DEF Trimmed
    <3>2. wrapper \in Message
      BY <2>8 DEF Offer
    <3>3. Put(Trimmed, wrapper) \in Seq(Message)
      BY <3>1, <3>2, PutType
    <3>4. Append(feeder, wrapper) \in Seq(Message)
      BY <3>2, AppendType
    <3> QED
      BY <2>8, <3>3, <3>4, ItemTypes DEF Offer, Return, PushAccepted, PushRefused
  <2>9. CASE ExitClear
    BY <2>9 DEF ExitClear
  <2> QED
    BY <1>9, <2>3, <2>4, <2>5, <2>6, <2>7, <2>8, <2>9 DEF Process
<1>10. CASE ExitDone
  BY <1>10 DEF ExitDone, SenderHasKey
<1>11. ASSUME NEW c \in Closer, Close(c) PROVE TypeInv'
  <2>1. closer' \in [Closer -> {"idle", "won", "lost", "waiting", "clean", "deadline"}]
    BY <1>11 DEF Close, CloseSwap, CloseSignal, CloseReturn
  <2>2. /\ closed' \in BOOLEAN /\ closeChannel' \in BOOLEAN
        /\ UNCHANGED <<doneChannel, canceled>>
    BY <1>11 DEF Close, CloseSwap, CloseSignal, CloseReturn
  <2> QED
    BY <1>11, <2>1, <2>2 DEF Close, SenderHasKey, process
<1>12. CASE UNCHANGED vars
  BY <1>12 DEF vars, process, shutdown, SenderHasKey
<1> QED
  BY <1>1, <1>2, <1>3, <1>4, <1>5, <1>6, <1>7, <1>8, <1>9, <1>10, <1>11, <1>12 DEF Next

(* Every reachable state has the types the code's declarations give it,    *)
(* for any number of goroutines and any depth: in particular the backlog   *)
(* and the feeder only ever hold real messages (consumer.go:159-169).      *)
THEOREM TypeCorrect == Spec => []TypeOK
<1>1. TypeInv => TypeOK
  BY DEF TypeInv
<1> QED
  BY <1>1, TypeInit, TypeStep, PTL DEF Spec

-----------------------------------------------------------------------------
(* The backlog.                                                            *)

LEMMA BacklogStep == TypeInv /\ BacklogBounded /\ [Next]_vars => BacklogBounded'
<1> SUFFICES ASSUME TypeInv, BacklogBounded, [Next]_vars PROVE BacklogBounded'
  OBVIOUS
<1> queue \in Seq(Message)
  BY DEF TypeInv, TypeOK
<1>1. CASE UNCHANGED queue
  BY <1>1 DEF BacklogBounded, KeysDistinct
<1>2. CASE queue' = <<>>
  BY <1>2, ConsumerAssumption DEF BacklogBounded, KeysDistinct
<1>3. CASE queue # <<>> /\ queue' = Tail(queue)
  <2>1. queue' = DropHead(queue)
    BY <1>3 DEF DropHead
  <2>2. KeysDistinct(DropHead(queue)) /\ Len(DropHead(queue)) = Len(queue) - 1
    BY <1>3, DropHeadProperties DEF BacklogBounded
  <2> QED
    BY <2>1, <2>2, ConsumerAssumption DEF BacklogBounded
<1>4. CASE pc = "offer" /\ queue' = Put(Trimmed, wrapper)
  <2>1. wrapper \in Message
    BY <1>4 DEF TypeInv, OfferHasMessage
  <2>2. Trimmed \in Seq(Message) /\ KeysDistinct(Trimmed)
    BY DropHeadProperties DEF Trimmed, BacklogBounded
  <2>3. MAX_QUEUE_DEPTH # 0 => Len(Trimmed) < MAX_QUEUE_DEPTH
    <3>1. MAX_QUEUE_DEPTH # 0 /\ Len(queue) >= MAX_QUEUE_DEPTH => queue # <<>>
      BY ConsumerAssumption
    <3> QED
      BY <3>1, ConsumerAssumption, DropHeadProperties DEF Trimmed, BacklogBounded
  <2>4. KeysDistinct(Put(Trimmed, wrapper))
    BY <2>1, <2>2, PutDistinct
  <2>5. /\ Len(Put(Trimmed, wrapper)) <= Len(Trimmed) + 1
        /\ Put(Trimmed, wrapper) \in Seq(Message)
    BY <2>1, <2>2, PutType
  <2> QED
    BY <1>4, <2>2, <2>3, <2>4, <2>5, ConsumerAssumption DEF BacklogBounded
<1>5. \/ UNCHANGED queue \/ queue' = <<>> \/ (queue # <<>> /\ queue' = Tail(queue))
      \/ (pc = "offer" /\ queue' = Put(Trimmed, wrapper))
  <2>1. CASE Process
    BY <2>1 DEF Process, SelectStop, SelectWork, DrainTest, DrainPush, Check, Offer, ExitClear
  <2>2. CASE ~Process
    BY <2>2 DEF Next, vars, process, Run, Cancel, Consume, Send, GiveUp, Receive, ReceiveClosed,
       CallNext, ExitDone, Close
  <2> QED
    BY <2>1, <2>2
<1> QED
  BY <1>1, <1>2, <1>3, <1>4, <1>5

(* The backlog holds at most one message of a key and at most              *)
(* MAX_QUEUE_DEPTH messages, whatever the depths of the two channels.      *)
THEOREM BacklogIsBounded == Spec => []BacklogBounded
<1>1. Init => BacklogBounded
  BY ConsumerAssumption DEF Init, BacklogBounded, KeysDistinct
<1> QED
  BY <1>1, TypeInit, TypeStep, BacklogStep, PTL DEF Spec

-----------------------------------------------------------------------------
(* Wakeups.                                                                *)

WakeupComing == work # <<>> \/ feeder # <<>> \/ reader \in {"handling", "next"}

(* Close sets the flag before it closes the channel.                       *)
FlagFirst ==
    /\ closeChannel => closed
    /\ \A c \in Closer : closer[c] # "idle" => closed

(* What NoLostWakeup needs to be inductive: where process() is between two *)
(* selects.  A push that failed found a message for the reader to receive; *)
(* if none failed the backlog was emptied.                                 *)
WakeupInv ==
    /\ FlagFirst
    /\ pc = "notStarted" => queue = <<>>
    /\ pc \in {"drain", "push"} => feederReady
    /\ ~Stopping =>
         /\ pc = "select" /\ queue # <<>> => WakeupComing
         /\ pc \in {"check", "offer"} /\ ~feederReady => WakeupComing
         /\ pc \in {"check", "offer"} /\ feederReady => queue = <<>>

LEMMA WakeupInit == Init => WakeupInv
BY DEF Init, WakeupInv, FlagFirst

LEMMA FlagStep == TypeInv /\ FlagFirst /\ [Next]_vars => FlagFirst'
<1> SUFFICES ASSUME TypeInv, FlagFirst, [Next]_vars PROVE FlagFirst'
  OBVIOUS
<1>1. ASSUME NEW c \in Closer, Close(c) PROVE FlagFirst'
  BY <1>1 DEF Close, CloseSwap, CloseSignal, CloseReturn, FlagFirst, TypeInv, TypeOK
<1>2. CASE UNCHANGED <<closed, closeChannel, closer>>
  BY <1>2 DEF FlagFirst
<1>3. (\E c \in Closer : Close(c)) \/ UNCHANGED <<closed, closeChannel, closer>>
  BY DEF Next, vars, shutdown, Run, Cancel, Consume, Send, GiveUp, Receive, ReceiveClosed,
     CallNext, Process, ExitDone
<1> QED
  BY <1>1, <1>2, <1>3

LEMMA WakeupStep == TypeInv /\ WakeupInv /\ [Next]_vars => WakeupInv'
<1> SUFFICES ASSUME TypeInv, WakeupInv, [Next]_vars PROVE WakeupInv'
  OBVIOUS
<1>0. FlagFirst' /\ FlagFirst
  BY FlagStep DEF WakeupInv
<1> USE <1>0 DEF WakeupInv, Stopping
<1>1. CASE Run
  BY <1>1 DEF Run, shutdown
<1>2. CASE Cancel
  BY <1>2 DEF Cancel, process
<1>3. ASSUME NEW p \in Publisher, NEW k \in Key, Consume(p, k) PROVE WakeupInv'
  BY <1>3 DEF Consume, process, shutdown, WakeupComing
<1>4. ASSUME NEW s \in Caller, Send(s) PROVE WakeupInv'
  <2>1. work \in Seq(ChannelItem)
    BY DEF TypeInv, TypeOK
  <2>2. work' # <<>>
    BY <1>4, <2>1 DEF Send
  <2>3. UNCHANGED <<process, shutdown>>
    BY <1>4 DEF Send
  <2> QED
    BY <2>2, <2>3 DEF process, shutdown, WakeupComing
<1>5. ASSUME NEW s \in Caller, GiveUp(s) PROVE WakeupInv'
  <2>1. Stopping /\ UNCHANGED <<process, shutdown>>
    BY <1>5 DEF GiveUp, FlagFirst
  <2> QED
    BY <2>1 DEF process, shutdown
<1>6. CASE Receive
  BY <1>6 DEF Receive, process, shutdown, WakeupComing
<1>7. CASE ReceiveClosed
  BY <1>7 DEF ReceiveClosed, process, shutdown, WakeupComing
<1>8. CASE CallNext
  BY <1>8 DEF CallNext, process, shutdown, WakeupComing
<1>9. CASE Process
  <2>1. UNCHANGED <<closed, canceled, closeChannel, closer, reader>>
    BY <1>9 DEF Process, shutdown
  <2> USE <2>1
  <2>2. Len(feeder) >= FEEDER_CHANNEL_DEPTH => feeder # <<>>
    BY ConsumerAssumption DEF TypeInv, TypeOK
  <2>3. CASE SelectStop
    BY <2>3 DEF SelectStop
  <2>4. CASE SelectWork
    BY <2>4 DEF SelectWork
  <2>5. CASE DrainTest
    BY <2>5 DEF DrainTest
  <2>6. CASE DrainPush
    BY <2>2, <2>6 DEF DrainPush, PushAccepted, PushRefused, WakeupComing
  <2>7. CASE Check
    BY <2>7 DEF Check, Return, WakeupComing
  <2>8. CASE Offer
    BY <2>2, <2>8 DEF Offer, Return, PushAccepted, PushRefused, WakeupComing
  <2>9. CASE ExitClear
    BY <2>9 DEF ExitClear
  <2> QED
    BY <1>9, <2>3, <2>4, <2>5, <2>6, <2>7, <2>8, <2>9 DEF Process
<1>10. CASE ExitDone
  BY <1>10 DEF ExitDone
<1>11. ASSUME NEW c \in Closer, Close(c) PROVE WakeupInv'
  BY <1>11 DEF Close, CloseSwap, CloseSignal, CloseReturn, process, WakeupComing
<1>12. CASE UNCHANGED vars
  BY <1>12 DEF vars, process, shutdown, WakeupComing
<1> QED
  BY <1>1, <1>2, <1>3, <1>4, <1>5, <1>6, <1>7, <1>8, <1>9, <1>10, <1>11, <1>12 DEF Next

(* No wakeup is lost for any depth of the two channels (at least one) and  *)
(* any number of publishers: a consumer never sleeps on a backlog that     *)
(* nothing will make it look at again.                                     *)
THEOREM NoWakeupIsLost == Spec => []NoLostWakeup
<1>1. WakeupInv => NoLostWakeup
  BY DEF WakeupInv, NoLostWakeup, WakeupComing
<1> QED
  BY <1>1, TypeInit, TypeStep, WakeupInit, WakeupStep, PTL DEF Spec

-----------------------------------------------------------------------------
(* Shutdown.                                                               *)

(* What CloseIsSynchronous needs to be inductive: the order of the         *)
(* deferred calls.                                                         *)
ShutdownInv ==
    /\ pc \in {"cleared", "done"} => feederClosed /\ queue = <<>>
    /\ doneChannel => pc = "done"
    /\ CloseIsSynchronous

LEMMA ShutdownStep == TypeInv /\ ShutdownInv /\ [Next]_vars => ShutdownInv'
<1> SUFFICES ASSUME TypeInv, ShutdownInv, [Next]_vars PROVE ShutdownInv'
  OBVIOUS
<1> USE DEF ShutdownInv, CloseIsSynchronous
<1>1. CASE Process
  BY <1>1 DEF Process, SelectStop, SelectWork, DrainTest, DrainPush, Check, Return, Offer,
     ExitClear, shutdown
<1>2. CASE ExitDone
  BY <1>2 DEF ExitDone
<1>3. ASSUME NEW c \in Closer, Close(c) PROVE ShutdownInv'
  BY <1>3 DEF Close, CloseSwap, CloseSignal, CloseReturn, process, TypeInv, TypeOK
<1>4. CASE Run
  BY <1>4 DEF Run, shutdown
<1>5. CASE UNCHANGED <<process, feederClosed, doneChannel, closer>>
  BY <1>5 DEF process
<1>6. \/ Process \/ ExitDone \/ Run \/ (\E c \in Closer : Close(c))
      \/ UNCHANGED <<process, feederClosed, doneChannel, closer>>
  BY DEF Next, vars, shutdown, Cancel, Consume, Send, GiveUp, Receive, ReceiveClosed, CallNext
<1> QED
  BY <1>1, <1>2, <1>3, <1>4, <1>5, <1>6

(* A Close that returns before its deadline finds the process goroutine    *)
(* gone, the feeder closed and the backlog empty, for any number of        *)
(* concurrent callers of Close.                                            *)
THEOREM CloseSynchronous == Spec => []CloseIsSynchronous
<1>1. Init => ShutdownInv
  BY DEF Init, ShutdownInv, CloseIsSynchronous
<1>2. ShutdownInv => CloseIsSynchronous
  BY DEF ShutdownInv
<1> QED
  BY <1>1, <1>2, TypeInit, TypeStep, ShutdownStep, PTL DEF Spec

(* After the closed flag is set no push begins.                            *)
THEOREM PushesStop == Spec => NoPushAfterClose
<1>1. ASSUME [Next]_vars
      PROVE  closed /\ pc \notin {"push", "offer"} => pc' \notin {"push", "offer"}
  BY <1>1 DEF Next, vars, process, Run, Cancel, Consume, Send, GiveUp, Receive, ReceiveClosed,
     CallNext, Process, SelectStop, SelectWork, DrainTest, DrainPush, Check, Return, Offer,
     ExitClear, ExitDone, Close
<1> QED
  BY <1>1, PTL DEF Spec, NoPushAfterClose

-----------------------------------------------------------------------------
(* The consumer implements Mailbox and keeps the order of every key.       *)

(* A set of naturals that is not empty has a least element.                *)
LEMMA LeastNatural ==
    ASSUME NEW T \in SUBSET Nat, T # {}
    PROVE  \E n \in T : \A m \in T : n <= m
<1>1. PICK n \in T : \A m \in T : ~ (<<m, n>> \in OpToRel(<, Nat))
  BY NatLessThanWellFounded, WFMin
<1>2. ASSUME NEW m \in T PROVE n <= m
  <2>1. m \in Nat /\ n \in Nat
    OBVIOUS
  <2>2. ~ (<<m, n>> \in {p \in Nat \X Nat : p[1] < p[2]})
    BY <1>1 DEF OpToRel
  <2>3. ~ (m < n)
    BY <2>1, <2>2
  <2> QED
    BY <2>1, <2>3
<1> QED
  BY <1>2

-----------------------------------------------------------------------------
(* The messages of the work channel.                                       *)

(* What Messages has kept of the first i wrappers of a channel.            *)
Keep(f, channel, i) ==
    IF i = 0 THEN <<>>
    ELSE IF hasMessage(channel[i]) THEN Append(f[i - 1], channel[i]) ELSE f[i - 1]

KeepsUpTo(f, channel, n) == \A i \in 0 .. n : f[i] = Keep(f, channel, i)

SameUpTo(q, t, n) == \A i \in 1 .. n : q[i] = t[i]

IsKept(f, channel) ==
    /\ f \in [0 .. Len(channel) -> Seq(Message)]
    /\ KeepsUpTo(f, channel, Len(channel))

(* The function that Messages defines exists, step by step.                *)
LEMMA KeptExists ==
    ASSUME NEW q \in Seq(ChannelItem)
    PROVE  \E f : IsKept(f, q)
<1> DEFINE Good(n) == \E f \in [0 .. n -> Seq(Message)] : \A i \in 0 .. n : f[i] = Keep(f, q, i)
<1> DEFINE Bad == {n \in 0 .. Len(q) : ~Good(n)}
<1>0. Len(q) \in Nat /\ \A i \in 1 .. Len(q) : hasMessage(q[i]) => q[i] \in Message
  BY ItemTypes
<1>2. Bad = {}
  <2> SUFFICES ASSUME Bad # {} PROVE FALSE
    OBVIOUS
  <2>1. PICK n \in Bad : \A m \in Bad : n <= m
    <3>1. Bad \in SUBSET Nat
      BY <1>0
    <3> HIDE DEF Bad
    <3> QED
      BY <3>1, LeastNatural
  <2>2. CASE n = 0
    <3> DEFINE f == [i \in 0 .. 0 |-> <<>>]
    <3>1. f \in [0 .. 0 -> Seq(Message)] /\ \A i \in 0 .. 0 : f[i] = Keep(f, q, i)
      BY DEF Keep
    <3> HIDE DEF f
    <3>2. Good(0)
      BY <3>1
    <3> QED
      BY <2>1, <2>2, <3>2
  <2>3. CASE n # 0
    <3>0. n \in 0 .. Len(q)
      BY <2>1
    <3>1. n \in 1 .. Len(q) /\ n - 1 \in 0 .. Len(q)
      BY <1>0, <2>3, <3>0
    <3>9. n - 1 \notin Bad
      <4> HIDE DEF Bad
      <4> QED
        BY <1>0, <2>1, <3>1
    <3>10. Good(n - 1)
      <4> HIDE DEF Good
      <4> QED
        BY <3>1, <3>9
    <3>2. PICK f \in [0 .. n - 1 -> Seq(Message)] : \A i \in 0 .. n - 1 : f[i] = Keep(f, q, i)
      BY <3>10
    <3> DEFINE v == Keep(f, q, n)
    <3>3. v \in Seq(Message)
      <4>1. f[n - 1] \in Seq(Message)
        BY <3>1, <3>2
      <4> QED
        BY <1>0, <2>3, <3>1, <4>1 DEF Keep
    <3> HIDE DEF v
    <3> DEFINE h == [i \in 0 .. n |-> IF i = n THEN v ELSE f[i]]
    <3>4. h \in [0 .. n -> Seq(Message)]
      BY <3>1, <3>2, <3>3
    <3>5. \A i \in 0 .. n - 1 : h[i] = f[i]
      BY <3>1
    <3>6. h[n] = v
      BY <3>1
    <3> HIDE DEF h
    <3>7. \A i \in 0 .. n : h[i] = Keep(h, q, i)
      <4>1. h[n] = Keep(h, q, n)
        BY <2>3, <3>1, <3>5, <3>6 DEF v, Keep
      <4>2. ASSUME NEW i \in 0 .. n - 1 PROVE h[i] = Keep(h, q, i)
        <5>1. i = 0 \/ i - 1 \in 0 .. n - 1
          BY <3>1, <4>2
        <5> QED
          BY <3>2, <3>5, <4>2, <5>1 DEF Keep
      <4>3. \A i \in 0 .. n : i = n \/ i \in 0 .. n - 1
        BY <3>1
      <4> QED
        BY <4>1, <4>2, <4>3
    <3>8. Good(n)
      BY <3>4, <3>7
    <3> QED
      BY <2>1, <3>8
  <2> QED
    BY <2>2, <2>3
<1>3. Good(Len(q))
  <2> HIDE DEF Good
  <2> QED
    BY <1>0, <1>2
<1> QED
  BY <1>3 DEF IsKept, KeepsUpTo

(* What is kept of the first n wrappers depends on these alone.            *)
LEMMA KeptIsUnique ==
    ASSUME NEW q, NEW t, NEW f, NEW g, NEW n \in Nat,
           KeepsUpTo(f, q, n), KeepsUpTo(g, t, n), SameUpTo(q, t, n)
    PROVE  f[n] = g[n]
<1> DEFINE Odd == {i \in 0 .. n : f[i] # g[i]}
<1> SUFFICES ASSUME Odd # {} PROVE FALSE
  OBVIOUS
<1>1. PICK i \in Odd : \A m \in Odd : i <= m
  <2>1. Odd \in SUBSET Nat
    OBVIOUS
  <2> HIDE DEF Odd
  <2> QED
    BY <2>1, LeastNatural
<1>2. f[i] = Keep(f, q, i) /\ g[i] = Keep(g, t, i) /\ i \in 0 .. n
  BY DEF KeepsUpTo
<1>3. i # 0 => f[i - 1] = g[i - 1] /\ q[i] = t[i]
  <2>1. i # 0 => i - 1 \in 0 .. n /\ i - 1 \notin Odd
    BY <1>1
  <2> QED
    BY <2>1, <1>2 DEF SameUpTo
<1>4. f[i] = g[i]
  BY <1>2, <1>3 DEF Keep
<1> QED
  BY <1>4

LEMMA MessagesIs ==
    ASSUME NEW q \in Seq(ChannelItem), NEW f, IsKept(f, q)
    PROVE  Messages(q) = f[Len(q)] /\ Messages(q) \in Seq(Message)
<1> DEFINE kept == CHOOSE g : g = [i \in 0 .. Len(q) |->
                IF i = 0 THEN <<>> ELSE IF hasMessage(q[i]) THEN Append(g[i - 1], q[i]) ELSE g[i - 1]]
<1>1. Messages(q) = kept[Len(q)]
  BY DEF Messages
<1>2. f = [i \in 0 .. Len(q) |-> IF i = 0 THEN <<>>
                  ELSE IF hasMessage(q[i]) THEN Append(f[i - 1], q[i]) ELSE f[i - 1]]
  BY DEF IsKept, KeepsUpTo, Keep
<1>3. kept = [i \in 0 .. Len(q) |-> IF i = 0 THEN <<>>
                  ELSE IF hasMessage(q[i]) THEN Append(kept[i - 1], q[i]) ELSE kept[i - 1]]
  BY <1>2
<1> HIDE DEF kept
<1>4. \A i \in 0 .. Len(q) : kept[i] = Keep(kept, q, i)
  BY <1>3 DEF Keep
<1>5. kept[Len(q)] = f[Len(q)]
  <2>1. Len(q) \in Nat
    OBVIOUS
  <2>2. KeepsUpTo(kept, q, Len(q)) /\ KeepsUpTo(f, q, Len(q))
    BY <1>4 DEF IsKept, KeepsUpTo
  <2>3. SameUpTo(q, q, Len(q))
    BY DEF SameUpTo
  <2> QED
    BY <2>1, <2>2, <2>3, KeptIsUnique
<1> QED
  BY <1>1, <1>5 DEF IsKept

LEMMA KeptAt ==
    ASSUME NEW q \in Seq(ChannelItem), NEW f, IsKept(f, q)
    PROVE  /\ f[0] = <<>>
           /\ \A i \in 1 .. Len(q) :
                /\ f[i - 1] \in Seq(Message)
                /\ f[i] = IF hasMessage(q[i]) THEN Append(f[i - 1], q[i]) ELSE f[i - 1]
<1>1. Len(q) \in Nat /\ 0 \in 0 .. Len(q)
  OBVIOUS
<1>2. f[0] = <<>>
  BY <1>1 DEF IsKept, KeepsUpTo, Keep
<1>3. ASSUME NEW i \in 1 .. Len(q)
      PROVE  /\ f[i - 1] \in Seq(Message)
             /\ f[i] = IF hasMessage(q[i]) THEN Append(f[i - 1], q[i]) ELSE f[i - 1]
  <2>1. i \in 0 .. Len(q) /\ i # 0 /\ i - 1 \in 0 .. Len(q)
    BY <1>1
  <2> QED
    BY <2>1 DEF IsKept, KeepsUpTo, Keep
<1> QED
  BY <1>2, <1>3

LEMMA MessagesType ==
    ASSUME NEW q \in Seq(ChannelItem)
    PROVE  Messages(q) \in Seq(Message)
BY KeptExists, MessagesIs

LEMMA MessagesEmpty == Messages(<<>>) = <<>>
<1>1. <<>> \in Seq(ChannelItem) /\ Len(<<>>) = 0
  OBVIOUS
<1>2. PICK f : IsKept(f, <<>>)
  BY <1>1, KeptExists
<1> QED
  BY <1>1, <1>2, MessagesIs DEF IsKept, KeepsUpTo, Keep

LEMMA MessagesAppend ==
    ASSUME NEW q \in Seq(ChannelItem), NEW m \in ChannelItem
    PROVE  Messages(Append(q, m)) =
              IF hasMessage(m) THEN Append(Messages(q), m) ELSE Messages(q)
<1> DEFINE t == Append(q, m)
<1>1. /\ t \in Seq(ChannelItem) /\ Len(t) = Len(q) + 1 /\ Len(q) \in Nat
      /\ t[Len(q) + 1] = m /\ \A i \in 1 .. Len(q) : q[i] = t[i]
  OBVIOUS
<1> HIDE DEF t
<1>2. PICK f : IsKept(f, q)
  BY KeptExists
<1>3. PICK g : IsKept(g, t)
  BY <1>1, KeptExists
<1>4. f[Len(q)] = g[Len(q)]
  <2>1. KeepsUpTo(f, q, Len(q))
    BY <1>2 DEF IsKept
  <2>2. KeepsUpTo(g, t, Len(q))
    BY <1>1, <1>3 DEF IsKept, KeepsUpTo
  <2>3. SameUpTo(q, t, Len(q))
    BY <1>1 DEF SameUpTo
  <2> QED
    BY <1>1, <2>1, <2>2, <2>3, KeptIsUnique
<1>5. g[Len(q) + 1] = IF hasMessage(m) THEN Append(g[Len(q)], m) ELSE g[Len(q)]
  <2>1. Len(q) + 1 \in 1 .. Len(t) /\ Len(q) + 1 - 1 = Len(q)
    BY <1>1
  <2> QED
    BY <1>1, <1>3, <2>1, KeptAt
<1>6. Messages(q) = f[Len(q)] /\ Messages(t) = g[Len(q) + 1]
  BY <1>1, <1>2, <1>3, MessagesIs
<1> QED
  BY <1>4, <1>5, <1>6 DEF t

LEMMA ConcatAppend ==
    ASSUME NEW S, NEW s \in Seq(S), NEW t \in Seq(S), NEW m \in S
    PROVE  s \o Append(t, m) = Append(s \o t, m)
<1>1. /\ s \o t \in Seq(S) /\ Append(t, m) \in Seq(S) /\ s \o Append(t, m) \in Seq(S)
      /\ Append(s \o t, m) \in Seq(S)
  BY ConcatProperties
<1>2. \A i \in 1 .. Len(s) + Len(t) : (s \o t)[i] = IF i <= Len(s) THEN s[i] ELSE t[i - Len(s)]
  BY ConcatProperties
<1>3. Len(s \o t) = Len(s) + Len(t) /\ Len(s) \in Nat /\ Len(t) \in Nat /\ Len(Append(t, m)) = Len(t) + 1
  BY ConcatProperties
<1>4. Len(s \o Append(t, m)) = Len(s) + Len(t) + 1 /\ Len(Append(s \o t, m)) = Len(s) + Len(t) + 1
  BY <1>1, <1>3, ConcatProperties
<1>5. \A i \in 1 .. Len(s) + Len(t) + 1 :
         (s \o Append(t, m))[i] = IF i <= Len(s) THEN s[i] ELSE Append(t, m)[i - Len(s)]
  <2>1. \A i \in 1 .. Len(s) + Len(Append(t, m)) :
         (s \o Append(t, m))[i] = IF i <= Len(s) THEN s[i] ELSE Append(t, m)[i - Len(s)]
    BY <1>1, ConcatProperties
  <2>2. Len(s) + Len(Append(t, m)) = Len(s) + Len(t) + 1
    BY <1>3
  <2> QED
    BY <2>1, <2>2, Zenon
<1>6. \A i \in 1 .. Len(s) + Len(t) + 1 : (s \o Append(t, m))[i] = Append(s \o t, m)[i]
  <2> TAKE i \in 1 .. Len(s) + Len(t) + 1
  <2>1. CASE i <= Len(s)
    BY <1>1, <1>2, <1>3, <1>5, <2>1
  <2>2. CASE i > Len(s) /\ i <= Len(s) + Len(t)
    <3>1. i - Len(s) \in 1 .. Len(t) /\ i \in 1 .. Len(s \o t)
      BY <1>3, <2>2
    <3>2. Append(t, m)[i - Len(s)] = t[i - Len(s)] /\ Append(s \o t, m)[i] = (s \o t)[i]
      BY <1>1, <3>1
    <3> QED
      BY <1>2, <1>3, <1>5, <2>2, <3>1, <3>2
  <2>3. CASE i = Len(s) + Len(t) + 1
    <3>1. Append(s \o t, m)[i] = m
      BY <1>1, <1>3, <2>3
    <3>2. i - Len(s) = Len(t) + 1 /\ ~(i <= Len(s))
      BY <1>3, <2>3
    <3> QED
      BY <1>5, <3>1, <3>2
  <2> QED
    BY <1>3, <2>1, <2>2, <2>3
<1> QED
  BY <1>1, <1>4, <1>6, SeqEqual

(* The first wrapper of a channel is taken.                                *)
LEMMA MessagesTail ==
    ASSUME NEW q \in Seq(ChannelItem), q # <<>>
    PROVE  Messages(q) = (IF hasMessage(Head(q)) THEN <<Head(q)>> ELSE <<>>) \o Messages(Tail(q))
<1> DEFINE t == Tail(q)
<1> DEFINE first == IF hasMessage(Head(q)) THEN <<Head(q)>> ELSE <<>>
<1>1. /\ t \in Seq(ChannelItem) /\ Len(q) = Len(t) + 1 /\ Len(t) \in Nat
      /\ Head(q) = q[1] /\ Head(q) \in ChannelItem
      /\ \A i \in 1 .. Len(t) : t[i] = q[i + 1] /\ t[i] \in ChannelItem
  BY HeadTailProperties
<1>2. first \in Seq(Message) /\ first \o <<>> = first
  BY <1>1, ItemTypes, ConcatEmptySeq
<1> HIDE DEF t
<1>3. PICK f : IsKept(f, q)
  BY KeptExists
<1>4. PICK g : IsKept(g, t)
  BY <1>1, KeptExists
<1>5. f[0] = <<>> /\ g[0] = <<>>
  BY <1>1, <1>3, <1>4, KeptAt
<1>6. f[1] = first
  <2>1. f[1] = IF hasMessage(q[1]) THEN Append(f[0], q[1]) ELSE f[0]
    <3>1. 1 \in 1 .. Len(q) /\ 1 - 1 = 0
      BY <1>1
    <3> QED
      BY <1>3, <3>1, KeptAt
  <2> QED
    BY <1>1, <1>5, <2>1 DEF first
<1> HIDE DEF first
<1>10. \A x, y \in Seq(Message) : \A m \in Message : x \o Append(y, m) = Append(x \o y, m)
  BY ConcatAppend
<1> DEFINE Odd == {i \in 0 .. Len(t) : f[i + 1] # first \o g[i]}
<1>7. Odd = {}
  <2> SUFFICES ASSUME Odd # {} PROVE FALSE
    OBVIOUS
  <2>1. PICK i \in Odd : \A m \in Odd : i <= m
    <3>1. Odd \in SUBSET Nat
      BY <1>1
    <3> HIDE DEF Odd
    <3> QED
      BY <3>1, LeastNatural
  <2>2. i \in 0 .. Len(t) /\ i \in Nat
    BY <1>1
  <2>3. i # 0
    BY <1>2, <1>5, <1>6
  <2>4. i - 1 \in 0 .. Len(t) /\ i - 1 \notin Odd
    <3>1. i - 1 \in 0 .. Len(t) /\ ~(i <= i - 1)
      BY <1>1, <2>2, <2>3
    <3> HIDE DEF Odd
    <3> QED
      BY <2>1, <3>1
  <2>5. f[i] = first \o g[i - 1]
    <3>1. i - 1 + 1 = i
      BY <2>2
    <3> QED
      BY <2>4, <3>1
  <2>6. f[i + 1] = IF hasMessage(q[i + 1]) THEN Append(f[i], q[i + 1]) ELSE f[i]
    <3>1. i + 1 \in 1 .. Len(q) /\ i + 1 - 1 = i
      BY <1>1, <2>2
    <3> QED
      BY <1>3, <3>1, KeptAt
  <2>7. g[i] = IF hasMessage(t[i]) THEN Append(g[i - 1], t[i]) ELSE g[i - 1]
    <3>1. i \in 1 .. Len(t)
      BY <2>2, <2>3
    <3> QED
      BY <1>1, <1>4, <3>1, KeptAt
  <2>8. t[i] = q[i + 1] /\ t[i] \in ChannelItem
    BY <1>1, <2>2, <2>3
  <2>9. g[i - 1] \in Seq(Message)
    BY <1>4, <2>4 DEF IsKept
  <2>10. hasMessage(t[i]) => Append(first \o g[i - 1], t[i]) = first \o Append(g[i - 1], t[i])
    <3>1. hasMessage(t[i]) => t[i] \in Message
      BY <2>8, ItemTypes
    <3>3. \A m \in Message : first \o Append(g[i - 1], m) = Append(first \o g[i - 1], m)
      BY <1>2, <1>10, <2>9
    <3> QED
      BY <3>1, <3>3, Zenon
  <2>11. f[i + 1] = first \o g[i]
    BY <2>5, <2>6, <2>7, <2>8, <2>10
  <2> QED
    BY <2>11
<1>8. f[Len(q)] = first \o g[Len(t)]
  BY <1>1, <1>7
<1>9. Messages(q) = f[Len(q)] /\ Messages(t) = g[Len(t)]
  BY <1>1, <1>3, <1>4, MessagesIs
<1> QED
  BY <1>8, <1>9 DEF t, first

-----------------------------------------------------------------------------
(* Sequences put together and cut.  The operators have names so that the   *)
(* provers see the facts below and not the definitions.                    *)

Cat(s, t) == s \o t

One(m) == <<m>>

Added(s, m) == Append(s, m)

Cut(s, i) == [x \in 1 .. Len(s) - 1 |-> IF x < i THEN s[x] ELSE s[x + 1]]

Replaced(s, i, m) == [s EXCEPT ![i] = m]

LEMMA CatProperties ==
    ASSUME NEW S, NEW s \in Seq(S), NEW t \in Seq(S)
    PROVE  /\ Cat(s, t) \in Seq(S)
           /\ Len(Cat(s, t)) = Len(s) + Len(t)
           /\ \A i \in 1 .. Len(s) + Len(t) :
                Cat(s, t)[i] = IF i <= Len(s) THEN s[i] ELSE t[i - Len(s)]
BY ConcatProperties DEF Cat

LEMMA CatAssociative ==
    ASSUME NEW S, NEW a \in Seq(S), NEW b \in Seq(S), NEW c \in Seq(S)
    PROVE  Cat(Cat(a, b), c) = Cat(a, Cat(b, c))
BY ConcatAssociative DEF Cat

LEMMA CatEmpty ==
    ASSUME NEW S, NEW a \in Seq(S)
    PROVE  Cat(a, <<>>) = a
BY ConcatEmptySeq DEF Cat

LEMMA OneProperties ==
    ASSUME NEW S, NEW m \in S
    PROVE  One(m) \in Seq(S) /\ Len(One(m)) = 1 /\ One(m)[1] = m
BY DEF One

LEMMA AppendIsCat ==
    ASSUME NEW S, NEW a \in Seq(S), NEW m \in S
    PROVE  Append(a, m) = Cat(a, One(m))
BY AppendIsConcat DEF Cat, One

LEMMA CatAppend ==
    ASSUME NEW S, NEW s \in Seq(S), NEW t \in Seq(S), NEW m \in S
    PROVE  Cat(s, Append(t, m)) = Append(Cat(s, t), m)
<1>1. Cat(s, t) \in Seq(S) /\ One(m) \in Seq(S)
  BY CatProperties, OneProperties
<1>2. Append(t, m) = Cat(t, One(m)) /\ Append(Cat(s, t), m) = Cat(Cat(s, t), One(m))
  BY <1>1, AppendIsCat
<1>3. Cat(Cat(s, t), One(m)) = Cat(s, Cat(t, One(m)))
  BY <1>1, CatAssociative
<1> QED
  BY <1>2, <1>3

(* A message and a sequence after it.                                      *)
LEMMA CatOne ==
    ASSUME NEW S, NEW m \in S, NEW b \in Seq(S)
    PROVE  /\ Cat(One(m), b) \in Seq(S) /\ Len(Cat(One(m), b)) = Len(b) + 1
           /\ Cat(One(m), b)[1] = m
           /\ \A i \in 1 .. Len(b) : Cat(One(m), b)[i + 1] = b[i]
           /\ Cat(One(m), b) # <<>>
           /\ Head(Cat(One(m), b)) = m
           /\ Tail(Cat(One(m), b)) = b
<1> DEFINE u == Cat(One(m), b)
<1>0. Len(b) \in Nat /\ One(m) \in Seq(S) /\ Len(One(m)) = 1 /\ One(m)[1] = m
  BY OneProperties
<1>1. /\ u \in Seq(S) /\ Len(u) = Len(One(m)) + Len(b)
      /\ \A i \in 1 .. Len(One(m)) + Len(b) :
            u[i] = IF i <= Len(One(m)) THEN One(m)[i] ELSE b[i - Len(One(m))]
  BY <1>0, CatProperties
<1> HIDE DEF u
<1>2. u[1] = m
  BY <1>0, <1>1
<1>3. ASSUME NEW i \in 1 .. Len(b) PROVE u[i + 1] = b[i]
  <2>1. i + 1 \in 1 .. Len(One(m)) + Len(b) /\ ~(i + 1 <= Len(One(m))) /\ i + 1 - Len(One(m)) = i
    BY <1>0
  <2> QED
    BY <1>1, <2>1
<1>4. u # <<>> /\ Len(u) = Len(b) + 1
  BY <1>0, <1>1
<1>5. Head(u) = m
  BY <1>1, <1>2, <1>4
<1>6. /\ Tail(u) \in Seq(S) /\ Len(Tail(u)) = Len(b)
      /\ \A i \in 1 .. Len(Tail(u)) : Tail(u)[i] = u[i + 1]
  BY <1>0, <1>1, <1>4, HeadTailProperties
<1>7. Tail(u) = b
  BY <1>3, <1>6, SeqEqual
<1> QED
  BY <1>1, <1>2, <1>3, <1>4, <1>5, <1>7 DEF u

LEMMA HeadAndTail ==
    ASSUME NEW S, NEW q \in Seq(S), q # <<>>
    PROVE  /\ Head(q) \in S /\ Tail(q) \in Seq(S)
           /\ q = Cat(One(Head(q)), Tail(q))
<1> DEFINE x == Head(q)
<1> DEFINE r == Tail(q)
<1>1. /\ x \in S /\ r \in Seq(S) /\ Len(r) = Len(q) - 1 /\ Len(q) \in Nat \ {0}
      /\ \A i \in 1 .. Len(r) : r[i] = q[i + 1]
      /\ x = q[1]
  BY HeadTailProperties
<1> HIDE DEF x, r
<1> DEFINE t == Cat(One(x), r)
<1>2. /\ t \in Seq(S) /\ Len(t) = Len(r) + 1 /\ t[1] = x
      /\ \A i \in 1 .. Len(r) : t[i + 1] = r[i]
  <2>1. x \in S /\ r \in Seq(S)
    BY <1>1
  <2> QED
    BY <2>1, CatOne
<1> HIDE DEF t
<1>3. ASSUME NEW i \in 1 .. Len(q) PROVE q[i] = t[i]
  <2>1. CASE i = 1
    BY <1>1, <1>2, <2>1
  <2>2. CASE i # 1
    <3>1. i - 1 \in 1 .. Len(r) /\ i - 1 + 1 = i
      BY <1>1, <2>2
    <3> QED
      BY <1>1, <1>2, <3>1
  <2> QED
    BY <2>1, <2>2
<1>4. q = t
  BY <1>1, <1>2, <1>3, SeqEqual
<1> QED
  BY <1>1, <1>4 DEF t, x, r

(* Cutting the message between two sequences joins them.                   *)
LEMMA CutMiddle ==
    ASSUME NEW S, NEW a \in Seq(S), NEW m \in S, NEW b \in Seq(S)
    PROVE  /\ Cut(Cat(a, Cat(One(m), b)), Len(a) + 1) = Cat(a, b)
           /\ Len(a) + 1 \in 1 .. Len(Cat(a, Cat(One(m), b)))
           /\ Cat(a, Cat(One(m), b))[Len(a) + 1] = m
<1> DEFINE u == Cat(One(m), b)
<1> DEFINE s == Cat(a, u)
<1> DEFINE t == Cat(a, b)
<1>0. Len(a) \in Nat /\ Len(b) \in Nat
  OBVIOUS
<1>1. /\ u \in Seq(S) /\ Len(u) = Len(b) + 1 /\ u[1] = m
      /\ \A i \in 1 .. Len(b) : u[i + 1] = b[i]
  BY CatOne
<1> HIDE DEF u
<1>2. /\ s \in Seq(S) /\ Len(s) = Len(a) + Len(u)
      /\ \A i \in 1 .. Len(a) + Len(u) : s[i] = IF i <= Len(a) THEN a[i] ELSE u[i - Len(a)]
  BY <1>1, CatProperties
<1>3. /\ t \in Seq(S) /\ Len(t) = Len(a) + Len(b)
      /\ \A i \in 1 .. Len(a) + Len(b) : t[i] = IF i <= Len(a) THEN a[i] ELSE b[i - Len(a)]
  BY CatProperties
<1> HIDE DEF s, t
<1> DEFINE c == Cut(s, Len(a) + 1)
<1>4. /\ Len(s) - 1 = Len(t) /\ Len(t) \in Nat
      /\ c = [x \in 1 .. Len(t) |-> IF x < Len(a) + 1 THEN s[x] ELSE s[x + 1]]
  BY <1>0, <1>1, <1>2, <1>3 DEF Cut
<1> HIDE DEF c
<1>5. ASSUME NEW i \in 1 .. Len(t) PROVE c[i] = t[i]
  <2>1. CASE i <= Len(a)
    <3>1. i < Len(a) + 1 /\ i \in 1 .. Len(a) + Len(u) /\ i \in 1 .. Len(a) + Len(b)
      BY <1>0, <1>1, <1>3, <2>1
    <3> QED
      BY <1>2, <1>3, <1>4, <2>1, <3>1
  <2>2. CASE ~(i <= Len(a))
    <3>1. /\ ~(i < Len(a) + 1) /\ i + 1 \in 1 .. Len(a) + Len(u) /\ ~(i + 1 <= Len(a))
          /\ i \in 1 .. Len(a) + Len(b) /\ i - Len(a) \in 1 .. Len(b)
          /\ i + 1 - Len(a) = i - Len(a) + 1
      BY <1>0, <1>1, <1>3, <2>2
    <3>2. c[i] = s[i + 1]
      BY <1>4, <3>1
    <3>3. s[i + 1] = u[i - Len(a) + 1]
      BY <1>2, <3>1
    <3>4. t[i] = b[i - Len(a)]
      BY <1>3, <2>2, <3>1
    <3> QED
      BY <1>1, <3>1, <3>2, <3>3, <3>4
  <2> QED
    BY <2>1, <2>2
<1>6. c = t
  <2>1. t = [x \in 1 .. Len(t) |-> t[x]]
    BY <1>3
  <2> QED
    BY <1>4, <1>5, <2>1
<1>7. Len(a) + 1 \in 1 .. Len(s) /\ s[Len(a) + 1] = m
  <2>1. Len(a) + 1 \in 1 .. Len(a) + Len(u) /\ ~(Len(a) + 1 <= Len(a)) /\ Len(a) + 1 - Len(a) = 1
    BY <1>0, <1>1
  <2> QED
    BY <1>1, <1>2, <2>1
<1> QED
  BY <1>6, <1>7 DEF c, s, t, u

(* An element of one of two sequences is replaced.                         *)
LEMMA ReplacedProperties ==
    ASSUME NEW S, NEW s \in Seq(S), NEW m \in S, NEW i \in 1 .. Len(s)
    PROVE  /\ Replaced(s, i, m) \in Seq(S) /\ Len(Replaced(s, i, m)) = Len(s)
           /\ \A j \in 1 .. Len(s) : Replaced(s, i, m)[j] = IF j = i THEN m ELSE s[j]
BY ExceptSeq DEF Replaced

LEMMA ReplacedInFirst ==
    ASSUME NEW S, NEW a \in Seq(S), NEW b \in Seq(S), NEW m \in S, NEW i \in 1 .. Len(a)
    PROVE  Replaced(Cat(a, b), i, m) = Cat(Replaced(a, i, m), b)
<1> DEFINE s == Cat(a, b)
<1> DEFINE c == Replaced(a, i, m)
<1> DEFINE d == Replaced(s, i, m)
<1>0. Len(a) \in Nat /\ Len(b) \in Nat
  OBVIOUS
<1>1. /\ s \in Seq(S) /\ Len(s) = Len(a) + Len(b)
      /\ \A j \in 1 .. Len(a) + Len(b) : s[j] = IF j <= Len(a) THEN a[j] ELSE b[j - Len(a)]
  BY CatProperties
<1> HIDE DEF s
<1>2. c \in Seq(S) /\ Len(c) = Len(a) /\ \A j \in 1 .. Len(a) : c[j] = IF j = i THEN m ELSE a[j]
  BY ReplacedProperties
<1>3. /\ d \in Seq(S) /\ Len(d) = Len(s) /\ i \in 1 .. Len(s)
      /\ \A j \in 1 .. Len(s) : d[j] = IF j = i THEN m ELSE s[j]
  <2>1. i \in 1 .. Len(s)
    BY <1>0, <1>1
  <2>2. s \in Seq(S)
    BY <1>1
  <2> QED
    BY <2>1, <2>2, ReplacedProperties
<1> HIDE DEF c, d
<1>4. /\ Cat(c, b) \in Seq(S) /\ Len(Cat(c, b)) = Len(c) + Len(b)
      /\ \A j \in 1 .. Len(c) + Len(b) : Cat(c, b)[j] = IF j <= Len(c) THEN c[j] ELSE b[j - Len(c)]
  BY <1>2, CatProperties
<1>5. ASSUME NEW j \in 1 .. Len(d) PROVE d[j] = Cat(c, b)[j]
  <2>1. CASE j <= Len(a)
    <3>1. j \in 1 .. Len(a) /\ j \in 1 .. Len(s) /\ j \in 1 .. Len(c) + Len(b) /\ j \in 1 .. Len(a) + Len(b)
      BY <1>0, <1>1, <1>2, <1>3, <2>1
    <3> QED
      BY <1>1, <1>2, <1>3, <1>4, <2>1, <3>1
  <2>2. CASE ~(j <= Len(a))
    <3>1. j # i /\ j \in 1 .. Len(s) /\ j \in 1 .. Len(c) + Len(b) /\ j \in 1 .. Len(a) + Len(b)
      BY <1>0, <1>1, <1>2, <1>3, <2>2
    <3> QED
      BY <1>1, <1>2, <1>3, <1>4, <2>2, <3>1
  <2> QED
    BY <2>1, <2>2
<1>6. d = Cat(c, b)
  BY <1>1, <1>2, <1>3, <1>4, <1>5, SeqEqual
<1> QED
  BY <1>6 DEF c, d, s

LEMMA ReplacedInSecond ==
    ASSUME NEW S, NEW a \in Seq(S), NEW b \in Seq(S), NEW m \in S, NEW i \in 1 .. Len(b)
    PROVE  Replaced(Cat(a, b), Len(a) + i, m) = Cat(a, Replaced(b, i, m))
<1> DEFINE s == Cat(a, b)
<1> DEFINE c == Replaced(b, i, m)
<1> DEFINE d == Replaced(s, Len(a) + i, m)
<1>0. Len(a) \in Nat /\ Len(b) \in Nat
  OBVIOUS
<1>1. /\ s \in Seq(S) /\ Len(s) = Len(a) + Len(b)
      /\ \A j \in 1 .. Len(a) + Len(b) : s[j] = IF j <= Len(a) THEN a[j] ELSE b[j - Len(a)]
  BY CatProperties
<1> HIDE DEF s
<1>2. c \in Seq(S) /\ Len(c) = Len(b) /\ \A j \in 1 .. Len(b) : c[j] = IF j = i THEN m ELSE b[j]
  BY ReplacedProperties
<1>3. /\ d \in Seq(S) /\ Len(d) = Len(s)
      /\ \A j \in 1 .. Len(s) : d[j] = IF j = Len(a) + i THEN m ELSE s[j]
  <2>1. Len(a) + i \in 1 .. Len(s)
    BY <1>0, <1>1
  <2>2. s \in Seq(S)
    BY <1>1
  <2> QED
    BY <2>1, <2>2, ReplacedProperties
<1> HIDE DEF c, d
<1>4. /\ Cat(a, c) \in Seq(S) /\ Len(Cat(a, c)) = Len(a) + Len(c)
      /\ \A j \in 1 .. Len(a) + Len(c) : Cat(a, c)[j] = IF j <= Len(a) THEN a[j] ELSE c[j - Len(a)]
  BY <1>2, CatProperties
<1>5. ASSUME NEW j \in 1 .. Len(d) PROVE d[j] = Cat(a, c)[j]
  <2>1. CASE j <= Len(a)
    <3>1. /\ j # Len(a) + i /\ j \in 1 .. Len(s) /\ j \in 1 .. Len(a) + Len(c)
          /\ j \in 1 .. Len(a) + Len(b)
      BY <1>0, <1>1, <1>2, <1>3, <2>1
    <3> QED
      BY <1>1, <1>3, <1>4, <2>1, <3>1
  <2>2. CASE ~(j <= Len(a))
    <3>1. /\ j \in 1 .. Len(s) /\ j \in 1 .. Len(a) + Len(c) /\ j \in 1 .. Len(a) + Len(b)
          /\ j - Len(a) \in 1 .. Len(b) /\ (j = Len(a) + i <=> j - Len(a) = i)
      BY <1>0, <1>1, <1>2, <1>3, <2>2
    <3> QED
      BY <1>1, <1>2, <1>3, <1>4, <2>2, <3>1
  <2> QED
    BY <2>1, <2>2
<1>6. d = Cat(a, c)
  BY <1>1, <1>2, <1>3, <1>4, <1>5, SeqEqual
<1> QED
  BY <1>6 DEF c, d, s

-----------------------------------------------------------------------------
(* What the steps of process() and of its callers do to the feeder f, the  *)
(* backlog q, the message in hand h and the messages w that are waiting,   *)
(* read as one sequence.                                                   *)

Joined(f, q, h, w) == Cat(Cat(Cat(f, q), h), w)

LEMMA JoinedType ==
    ASSUME NEW S, NEW f \in Seq(S), NEW q \in Seq(S), NEW h \in Seq(S), NEW w \in Seq(S)
    PROVE  /\ Joined(f, q, h, w) \in Seq(S)
           /\ Len(Joined(f, q, h, w)) = Len(f) + Len(q) + Len(h) + Len(w)
<1>1. Cat(f, q) \in Seq(S) /\ Len(Cat(f, q)) = Len(f) + Len(q)
  BY CatProperties
<1>2. Cat(Cat(f, q), h) \in Seq(S) /\ Len(Cat(Cat(f, q), h)) = Len(Cat(f, q)) + Len(h)
  BY <1>1, CatProperties
<1>3. Joined(f, q, h, w) \in Seq(S) /\ Len(Joined(f, q, h, w)) = Len(Cat(Cat(f, q), h)) + Len(w)
  BY <1>2, CatProperties DEF Joined
<1> QED
  BY <1>1, <1>2, <1>3

(* The front of the backlog goes to the feeder.                            *)
LEMMA JoinedPush ==
    ASSUME NEW S, NEW f \in Seq(S), NEW q \in Seq(S), NEW h, NEW w, q # <<>>
    PROVE  Joined(Append(f, Head(q)), Tail(q), h, w) = Joined(f, q, h, w)
<1> DEFINE x == Head(q)
<1> DEFINE r == Tail(q)
<1>1. x \in S /\ r \in Seq(S) /\ q = Cat(One(x), r)
  BY HeadAndTail
<1> HIDE DEF x, r
<1>2. One(x) \in Seq(S) /\ Append(f, x) = Cat(f, One(x))
  BY <1>1, OneProperties, AppendIsCat
<1>3. Cat(Cat(f, One(x)), r) = Cat(f, Cat(One(x), r))
  BY <1>1, <1>2, CatAssociative
<1>4. Cat(Append(f, x), r) = Cat(f, q)
  BY <1>1, <1>2, <1>3
<1> QED
  BY <1>4 DEF Joined, x, r

(* The message in hand goes to the feeder, past an empty backlog.          *)
LEMMA JoinedOffer ==
    ASSUME NEW S, NEW f \in Seq(S), NEW m \in S, NEW w
    PROVE  Joined(Append(f, m), <<>>, <<>>, w) = Joined(f, <<>>, One(m), w)
<1>1. Append(f, m) = Cat(f, One(m)) /\ Cat(f, <<>>) = f /\ Append(f, m) \in Seq(S)
  BY AppendIsCat, CatEmpty
<1>2. Cat(Append(f, m), <<>>) = Append(f, m)
  BY <1>1, CatEmpty
<1> QED
  BY <1>1, <1>2, Zenon DEF Joined

(* The message in hand goes to the back of the backlog.                    *)
LEMMA JoinedQueue ==
    ASSUME NEW S, NEW f \in Seq(S), NEW q \in Seq(S), NEW m \in S, NEW w
    PROVE  Joined(f, Append(q, m), <<>>, w) = Joined(f, q, One(m), w)
<1>1. One(m) \in Seq(S) /\ Append(q, m) = Cat(q, One(m)) /\ Append(q, m) \in Seq(S)
  BY OneProperties, AppendIsCat
<1>2. Cat(Cat(f, q), One(m)) = Cat(f, Cat(q, One(m)))
  BY <1>1, CatAssociative
<1> DEFINE a == Append(q, m)
<1>3. a \in Seq(S)
  BY <1>1
<1> HIDE DEF a
<1>4. Cat(f, a) \in Seq(S)
  BY <1>3, CatProperties
<1>5. Cat(Cat(f, a), <<>>) = Cat(f, a)
  BY <1>4, CatEmpty
<1> QED
  BY <1>1, <1>2, <1>5, Zenon DEF Joined, a

(* The first waiting message is taken in hand.                             *)
LEMMA JoinedTake ==
    ASSUME NEW S, NEW f \in Seq(S), NEW q \in Seq(S), NEW h \in Seq(S), NEW w \in Seq(S)
    PROVE  Joined(f, q, <<>>, Cat(h, w)) = Joined(f, q, h, w)
<1>1. Cat(f, q) \in Seq(S)
  BY CatProperties
<1>2. Cat(Cat(f, q), <<>>) = Cat(f, q)
  BY <1>1, CatEmpty
<1>3. Cat(Cat(Cat(f, q), h), w) = Cat(Cat(f, q), Cat(h, w))
  BY <1>1, CatAssociative
<1> QED
  BY <1>2, <1>3, Zenon DEF Joined

(* A message is accepted.                                                  *)
LEMMA JoinedAccept ==
    ASSUME NEW S, NEW f \in Seq(S), NEW q \in Seq(S), NEW h \in Seq(S), NEW w \in Seq(S),
           NEW m \in S
    PROVE  Joined(f, q, h, Added(w, m)) = Added(Joined(f, q, h, w), m)
<1>1. Cat(f, q) \in Seq(S)
  BY CatProperties
<1>2. Cat(Cat(f, q), h) \in Seq(S)
  BY <1>1, CatProperties
<1> QED
  BY <1>2, CatAppend DEF Joined, Added

(* The reader receives the first message.                                  *)
LEMMA JoinedReceive ==
    ASSUME NEW S, NEW f \in Seq(S), NEW q \in Seq(S), NEW h \in Seq(S), NEW w \in Seq(S),
           f # <<>>
    PROVE  /\ Joined(f, q, h, w) # <<>>
           /\ Head(Joined(f, q, h, w)) = Head(f)
           /\ Tail(Joined(f, q, h, w)) = Joined(Tail(f), q, h, w)
<1> DEFINE x == Head(f)
<1> DEFINE r == Tail(f)
<1>1. x \in S /\ r \in Seq(S) /\ f = Cat(One(x), r)
  BY HeadAndTail
<1> HIDE DEF x, r
<1>2. One(x) \in Seq(S)
  BY <1>1, OneProperties
<1>3. Cat(Cat(One(x), r), q) = Cat(One(x), Cat(r, q)) /\ Cat(r, q) \in Seq(S)
  BY <1>1, <1>2, CatAssociative, CatProperties
<1>4. /\ Cat(Cat(One(x), Cat(r, q)), h) = Cat(One(x), Cat(Cat(r, q), h))
      /\ Cat(Cat(r, q), h) \in Seq(S)
  BY <1>2, <1>3, CatAssociative, CatProperties
<1>5. /\ Cat(Cat(One(x), Cat(Cat(r, q), h)), w) = Cat(One(x), Joined(r, q, h, w))
      /\ Joined(r, q, h, w) \in Seq(S)
  BY <1>2, <1>4, CatAssociative, CatProperties DEF Joined
<1>6. Joined(f, q, h, w) = Cat(One(x), Joined(r, q, h, w))
  BY <1>1, <1>3, <1>4, <1>5, Zenon DEF Joined
<1> DEFINE t == Joined(r, q, h, w)
<1>7. t \in Seq(S) /\ Joined(f, q, h, w) = Cat(One(x), t)
  BY <1>5, <1>6
<1> HIDE DEF t
<1>8. Cat(One(x), t) # <<>> /\ Head(Cat(One(x), t)) = x /\ Tail(Cat(One(x), t)) = t
  <2>1. x \in S /\ t \in Seq(S)
    BY <1>1, <1>7
  <2> QED
    BY <2>1, CatOne
<1> QED
  BY <1>7, <1>8, Zenon DEF x, r, t

(* The message in hand is dropped.                                         *)
LEMMA JoinedDrop ==
    ASSUME NEW S, NEW f \in Seq(S), NEW q \in Seq(S), NEW m \in S, NEW w \in Seq(S)
    PROVE  /\ Cut(Joined(f, q, One(m), w), Len(f) + Len(q) + 1) = Joined(f, q, <<>>, w)
           /\ Len(f) + Len(q) + 1 \in 1 .. Len(Joined(f, q, One(m), w))
           /\ Joined(f, q, One(m), w)[Len(f) + Len(q) + 1] = m
<1> DEFINE a == Cat(f, q)
<1>1. a \in Seq(S) /\ Len(a) = Len(f) + Len(q)
  BY CatProperties
<1> HIDE DEF a
<1>2. One(m) \in Seq(S) /\ Cat(a, <<>>) = a
  BY <1>1, CatEmpty, OneProperties
<1>3. Cat(Cat(a, One(m)), w) = Cat(a, Cat(One(m), w))
  BY <1>1, <1>2, CatAssociative
<1>4. /\ Cut(Cat(a, Cat(One(m), w)), Len(a) + 1) = Cat(a, w)
      /\ Len(a) + 1 \in 1 .. Len(Cat(a, Cat(One(m), w)))
      /\ Cat(a, Cat(One(m), w))[Len(a) + 1] = m
  <2>1. a \in Seq(S)
    BY <1>1
  <2> QED
    BY <2>1, CutMiddle
<1>5. Joined(f, q, One(m), w) = Cat(a, Cat(One(m), w))
  BY <1>3 DEF Joined, a
<1>6. Joined(f, q, <<>>, w) = Cat(a, w)
  BY <1>2, Zenon DEF Joined, a
<1> QED
  BY <1>1, <1>4, <1>5, <1>6, Zenon

(* The front of the backlog is dropped.                                    *)
LEMMA JoinedTrim ==
    ASSUME NEW S, NEW f \in Seq(S), NEW q \in Seq(S), NEW h \in Seq(S), NEW w \in Seq(S),
           q # <<>>
    PROVE  /\ Cut(Joined(f, q, h, w), Len(f) + 1) = Joined(f, Tail(q), h, w)
           /\ Len(f) + 1 \in 1 .. Len(Joined(f, q, h, w))
<1> DEFINE x == Head(q)
<1> DEFINE r == Tail(q)
<1>1. x \in S /\ r \in Seq(S) /\ q = Cat(One(x), r)
  BY HeadAndTail
<1> HIDE DEF x, r
<1>2. One(x) \in Seq(S)
  BY <1>1, OneProperties
<1> DEFINE u == Cat(r, h)
<1> DEFINE t == Cat(u, w)
<1>3. u \in Seq(S)
  BY <1>1, CatProperties
<1>4. t \in Seq(S)
  BY <1>3, CatProperties
<1>5. Joined(f, r, h, w) = Cat(f, t)
  <2>1. Cat(Cat(f, r), h) = Cat(f, u)
    BY <1>1, CatAssociative
  <2>2. Cat(Cat(f, u), w) = Cat(f, t)
    BY <1>3, CatAssociative
  <2> QED
    BY <2>1, <2>2, Zenon DEF Joined
<1>6. Joined(f, q, h, w) = Cat(f, Cat(One(x), t))
  <2> HIDE DEF u, t
  <2>1. Cat(f, Cat(One(x), r)) = Cat(Cat(f, One(x)), r) /\ Cat(f, One(x)) \in Seq(S)
    BY <1>1, <1>2, CatAssociative, CatProperties
  <2>2. Cat(Cat(Cat(f, One(x)), r), h) = Cat(Cat(f, One(x)), u)
    BY <1>1, <2>1, CatAssociative DEF u
  <2>3. Cat(Cat(Cat(f, One(x)), u), w) = Cat(Cat(f, One(x)), t)
    BY <1>3, <2>1, CatAssociative DEF t
  <2>4. Cat(Cat(f, One(x)), t) = Cat(f, Cat(One(x), t))
    BY <1>2, <1>4, CatAssociative
  <2> QED
    BY <1>1, <2>1, <2>2, <2>3, <2>4, Zenon DEF Joined
<1> HIDE DEF t
<1>7. /\ Cut(Cat(f, Cat(One(x), t)), Len(f) + 1) = Cat(f, t)
      /\ Len(f) + 1 \in 1 .. Len(Cat(f, Cat(One(x), t)))
  BY <1>1, <1>4, CutMiddle
<1> QED
  BY <1>5, <1>6, <1>7, Zenon DEF r

(* The message in hand takes the place of the i-th of the backlog.         *)
LEMMA JoinedReplace ==
    ASSUME NEW S, NEW f \in Seq(S), NEW q \in Seq(S), NEW m \in S, NEW w \in Seq(S),
           NEW i \in 1 .. Len(q)
    PROVE  Cut(Replaced(Joined(f, q, One(m), w), Len(f) + i, m), Len(f) + Len(q) + 1)
             = Joined(f, Replaced(q, i, m), <<>>, w)
<1> DEFINE r == Replaced(q, i, m)
<1> DEFINE a == Cat(f, q)
<1> DEFINE b == Cat(a, One(m))
<1>0. Len(f) \in Nat /\ Len(q) \in Nat /\ One(m) \in Seq(S) /\ Len(One(m)) = 1
  BY OneProperties
<1>1. r \in Seq(S) /\ Len(r) = Len(q)
  BY ReplacedProperties
<1>2. a \in Seq(S) /\ Len(a) = Len(f) + Len(q)
  BY CatProperties
<1>3. Replaced(a, Len(f) + i, m) = Cat(f, r)
  BY ReplacedInSecond
<1> HIDE DEF a, r
<1>5. b \in Seq(S) /\ Len(b) = Len(a) + Len(One(m))
  BY <1>0, <1>2, CatProperties
<1>6. Len(f) + i \in 1 .. Len(a) /\ Len(f) + i \in 1 .. Len(b)
  BY <1>0, <1>2, <1>5
<1>7. Replaced(b, Len(f) + i, m) = Cat(Replaced(a, Len(f) + i, m), One(m))
  BY <1>0, <1>2, <1>6, ReplacedInFirst
<1> HIDE DEF b
<1>8. Replaced(Cat(b, w), Len(f) + i, m) = Cat(Replaced(b, Len(f) + i, m), w)
  BY <1>5, <1>6, ReplacedInFirst
<1>9. Replaced(Joined(f, q, One(m), w), Len(f) + i, m) = Joined(f, r, One(m), w)
  BY <1>3, <1>7, <1>8, Zenon DEF Joined, a, b
<1>10. Cut(Joined(f, r, One(m), w), Len(f) + Len(r) + 1) = Joined(f, r, <<>>, w)
  <2>1. r \in Seq(S)
    BY <1>1
  <2> QED
    BY <2>1, JoinedDrop
<1> QED
  BY <1>1, <1>9, <1>10, Zenon DEF r

(* Where the messages of the backlog are.                                  *)
LEMMA JoinedAt ==
    ASSUME NEW S, NEW f \in Seq(S), NEW q \in Seq(S), NEW h \in Seq(S), NEW w \in Seq(S),
           NEW i \in 1 .. Len(q)
    PROVE  Joined(f, q, h, w)[Len(f) + i] = q[i]
<1> DEFINE a == Cat(f, q)
<1> DEFINE b == Cat(a, h)
<1> DEFINE j == Len(f) + i
<1>0. Len(f) \in Nat /\ Len(q) \in Nat /\ Len(h) \in Nat /\ Len(w) \in Nat
  OBVIOUS
<1>1. /\ a \in Seq(S) /\ Len(a) = Len(f) + Len(q)
      /\ \A x \in 1 .. Len(f) + Len(q) : a[x] = IF x <= Len(f) THEN f[x] ELSE q[x - Len(f)]
  BY CatProperties
<1> HIDE DEF a
<1>9. a \in Seq(S)
  BY <1>1
<1>2. /\ b \in Seq(S) /\ Len(b) = Len(a) + Len(h)
      /\ \A x \in 1 .. Len(a) + Len(h) : b[x] = IF x <= Len(a) THEN a[x] ELSE h[x - Len(a)]
  BY <1>9, CatProperties
<1> HIDE DEF b
<1>10. b \in Seq(S)
  BY <1>2
<1>3. \A x \in 1 .. Len(b) + Len(w) : Cat(b, w)[x] = IF x <= Len(b) THEN b[x] ELSE w[x - Len(b)]
  BY <1>10, CatProperties
<1>4. /\ j \in 1 .. Len(f) + Len(q) /\ ~(j <= Len(f)) /\ j - Len(f) = i
      /\ j \in 1 .. Len(a) + Len(h) /\ j <= Len(a) /\ j \in 1 .. Len(b) + Len(w) /\ j <= Len(b)
  BY <1>0, <1>1, <1>2
<1> HIDE DEF j
<1>5. a[j] = q[i]
  BY <1>1, <1>4
<1>6. b[j] = a[j]
  BY <1>2, <1>4
<1>7. Cat(b, w)[j] = b[j]
  BY <1>3, <1>4
<1>8. Joined(f, q, h, w) = Cat(b, w)
  BY DEF Joined, a, b
<1> QED
  BY <1>5, <1>6, <1>7, <1>8, Zenon DEF j

-----------------------------------------------------------------------------
(* Where process() is and what it has in hand.                             *)

(* Between two selects process() holds a message; it offers one to the     *)
(* feeder only after the backlog went there; it leaves its loop only when  *)
(* it is told to.                                                          *)
HandInv ==
    /\ pc \in {"notStarted", "select", "exit", "cleared", "done"} => wrapper = Tick
    /\ pc \in {"drain", "push"} => feederReady
    /\ pc = "check" /\ feederReady => queue = <<>> \/ closed
    /\ pc = "offer" /\ feederReady => queue = <<>>
    /\ pc \in {"exit", "cleared", "done"} => Stopping

LEMMA HandInit == Init => HandInv
BY DEF Init, HandInv

LEMMA HandStep == TypeInv /\ FlagFirst /\ HandInv /\ [Next]_vars => HandInv'
<1> SUFFICES ASSUME TypeInv, FlagFirst, HandInv, [Next]_vars PROVE HandInv'
  OBVIOUS
<1> USE DEF HandInv, Stopping
<1>1. CASE Run
  BY <1>1 DEF Run, shutdown
<1>2. CASE Cancel
  BY <1>2 DEF Cancel, process
<1>3. CASE Process
  <2>1. UNCHANGED <<closed, canceled>>
    BY <1>3 DEF Process, shutdown
  <2>2. CASE SelectStop
    BY <2>1, <2>2 DEF SelectStop, FlagFirst
  <2>3. CASE SelectWork
    BY <2>1, <2>3 DEF SelectWork
  <2>4. CASE DrainTest
    BY <2>1, <2>4 DEF DrainTest, TypeInv, TypeOK
  <2>5. CASE DrainPush
    BY <2>1, <2>5 DEF DrainPush
  <2>6. CASE Check
    BY <2>1, <2>6 DEF Check, Return
  <2>7. CASE Offer
    BY <2>1, <2>7 DEF Offer, Return
  <2>8. CASE ExitClear
    BY <2>1, <2>8 DEF ExitClear
  <2> QED
    BY <1>3, <2>2, <2>3, <2>4, <2>5, <2>6, <2>7, <2>8 DEF Process
<1>4. CASE ExitDone
  BY <1>4 DEF ExitDone
<1>5. ASSUME NEW c \in Closer, Close(c) PROVE HandInv'
  BY <1>5 DEF Close, CloseSwap, CloseSignal, CloseReturn, process
<1>6. CASE UNCHANGED <<process, closed, canceled>>
  BY <1>6 DEF process
<1>7. \/ Run \/ Cancel \/ Process \/ ExitDone \/ (\E c \in Closer : Close(c))
      \/ UNCHANGED <<process, closed, canceled>>
  BY DEF Next, vars, shutdown, Consume, Send, GiveUp, Receive, ReceiveClosed, CallNext
<1> QED
  BY <1>1, <1>2, <1>3, <1>4, <1>5, <1>6, <1>7

-----------------------------------------------------------------------------
(* What a step does to the pipeline.                                       *)

Hand(c) == IF hasMessage(c) THEN One(c) ELSE <<>>

Line(f, q, c, channel) == Joined(f, q, Hand(c), Messages(channel))

LEMMA PipelineIsLine ==
    /\ Pipeline = Line(feeder, queue, wrapper, work)
    /\ Pipeline' = Line(feeder', queue', wrapper', work')
BY DEF Pipeline, Line, Joined, Cat, InHand, Hand, One

LEMMA HandType ==
    ASSUME NEW c \in ChannelItem
    PROVE  Hand(c) \in Seq(Message)
<1>1. hasMessage(c) => c \in Message
  BY ItemTypes
<1>2. hasMessage(c) => One(c) \in Seq(Message)
  BY <1>1, OneProperties
<1> QED
  BY <1>2 DEF Hand

LEMMA HandOfTick == Hand(Tick) = <<>>
BY DEF Hand, hasMessage

LEMMA LineType ==
    ASSUME NEW f \in Seq(Message), NEW q \in Seq(Message), NEW c \in ChannelItem,
           NEW channel \in Seq(ChannelItem)
    PROVE  /\ Hand(c) \in Seq(Message) /\ Messages(channel) \in Seq(Message)
           /\ Line(f, q, c, channel) \in Seq(Message)
<1>1. Hand(c) \in Seq(Message) /\ Messages(channel) \in Seq(Message)
  BY HandType, MessagesType
<1>2. Line(f, q, c, channel) \in Seq(Message)
  BY <1>1, JoinedType DEF Line
<1> QED
  BY <1>1, <1>2

LEMMA LineSend ==
    ASSUME NEW f \in Seq(Message), NEW q \in Seq(Message), NEW c \in ChannelItem,
           NEW channel \in Seq(ChannelItem), NEW m \in ChannelItem
    PROVE  Line(f, q, c, Append(channel, m)) =
             IF hasMessage(m) THEN Append(Line(f, q, c, channel), m) ELSE Line(f, q, c, channel)
<1>1. Hand(c) \in Seq(Message) /\ Messages(channel) \in Seq(Message)
  BY HandType, MessagesType
<1>2. Messages(Append(channel, m)) =
         IF hasMessage(m) THEN Append(Messages(channel), m) ELSE Messages(channel)
  BY MessagesAppend
<1>3. CASE hasMessage(m)
  <2>1. m \in Message
    BY <1>3, ItemTypes
  <2>2. Joined(f, q, Hand(c), Append(Messages(channel), m))
           = Append(Joined(f, q, Hand(c), Messages(channel)), m)
    <3> DEFINE h == Hand(c)
    <3> DEFINE w == Messages(channel)
    <3>1. h \in Seq(Message) /\ w \in Seq(Message)
      BY <1>1
    <3> HIDE DEF h, w
    <3>2. Joined(f, q, h, Added(w, m)) = Added(Joined(f, q, h, w), m)
      BY <2>1, <3>1, JoinedAccept
    <3> QED
      BY <3>2 DEF h, w, Added
  <2>3. Messages(Append(channel, m)) = Append(Messages(channel), m)
    BY <1>2, <1>3, Zenon
  <2> QED
    BY <1>3, <2>2, <2>3, Zenon DEF Line
<1>4. CASE ~hasMessage(m)
  <2>1. Messages(Append(channel, m)) = Messages(channel)
    BY <1>2, <1>4, Zenon
  <2> QED
    BY <1>4, <2>1, Zenon DEF Line
<1> QED
  BY <1>3, <1>4, Zenon

LEMMA LineReceive ==
    ASSUME NEW f \in Seq(Message), NEW q \in Seq(Message), NEW c \in ChannelItem,
           NEW channel \in Seq(ChannelItem), f # <<>>
    PROVE  /\ Line(f, q, c, channel) # <<>>
           /\ Head(Line(f, q, c, channel)) = Head(f)
           /\ Tail(Line(f, q, c, channel)) = Line(Tail(f), q, c, channel)
<1>1. Hand(c) \in Seq(Message) /\ Messages(channel) \in Seq(Message)
  BY HandType, MessagesType
<1> QED
  BY <1>1, JoinedReceive DEF Line

LEMMA LineSelect ==
    ASSUME NEW f \in Seq(Message), NEW q \in Seq(Message), NEW channel \in Seq(ChannelItem),
           channel # <<>>
    PROVE  Line(f, q, Head(channel), Tail(channel)) = Line(f, q, Tick, channel)
<1> DEFINE x == Head(channel)
<1> DEFINE r == Tail(channel)
<1>1. x \in ChannelItem /\ r \in Seq(ChannelItem)
  BY HeadTailProperties
<1>2. Messages(channel) = Cat(Hand(x), Messages(r))
  BY MessagesTail DEF Cat, Hand, One
<1> HIDE DEF x, r
<1>3. Hand(x) \in Seq(Message) /\ Messages(r) \in Seq(Message)
  BY <1>1, HandType, MessagesType
<1>4. Joined(f, q, <<>>, Cat(Hand(x), Messages(r))) = Joined(f, q, Hand(x), Messages(r))
  BY <1>3, JoinedTake
<1> QED
  BY <1>2, <1>4, HandOfTick, Zenon DEF Line, x, r

LEMMA LinePush ==
    ASSUME NEW f \in Seq(Message), NEW q \in Seq(Message), NEW c \in ChannelItem,
           NEW channel \in Seq(ChannelItem), q # <<>>
    PROVE  Line(Append(f, Head(q)), Tail(q), c, channel) = Line(f, q, c, channel)
BY JoinedPush DEF Line

LEMMA LineOffer ==
    ASSUME NEW f \in Seq(Message), NEW m \in Message, NEW channel \in Seq(ChannelItem)
    PROVE  Line(Append(f, m), <<>>, Tick, channel) = Line(f, <<>>, m, channel)
<1>1. Hand(m) = One(m)
  BY ItemTypes DEF Hand, hasMessage
<1>2. Joined(Append(f, m), <<>>, <<>>, Messages(channel)) = Joined(f, <<>>, One(m), Messages(channel))
  BY JoinedOffer
<1> QED
  BY <1>1, <1>2, HandOfTick, Zenon DEF Line

LEMMA LineDrop ==
    ASSUME NEW f \in Seq(Message), NEW q \in Seq(Message), NEW m \in Message,
           NEW channel \in Seq(ChannelItem)
    PROVE  /\ Line(f, q, Tick, channel) = Cut(Line(f, q, m, channel), Len(f) + Len(q) + 1)
           /\ Len(f) + Len(q) + 1 \in 1 .. Len(Line(f, q, m, channel))
           /\ Line(f, q, m, channel)[Len(f) + Len(q) + 1] = m
<1>1. Hand(m) = One(m)
  BY ItemTypes DEF Hand, hasMessage
<1>2. Messages(channel) \in Seq(Message)
  BY MessagesType
<1>3. /\ Cut(Joined(f, q, One(m), Messages(channel)), Len(f) + Len(q) + 1)
           = Joined(f, q, <<>>, Messages(channel))
      /\ Len(f) + Len(q) + 1 \in 1 .. Len(Joined(f, q, One(m), Messages(channel)))
      /\ Joined(f, q, One(m), Messages(channel))[Len(f) + Len(q) + 1] = m
  BY <1>2, JoinedDrop
<1> QED
  BY <1>1, <1>3, HandOfTick, Zenon DEF Line

LEMMA LineTrim ==
    ASSUME NEW f \in Seq(Message), NEW q \in Seq(Message), NEW c \in ChannelItem,
           NEW channel \in Seq(ChannelItem), q # <<>>
    PROVE  /\ Line(f, Tail(q), c, channel) = Cut(Line(f, q, c, channel), Len(f) + 1)
           /\ Len(f) + 1 \in 1 .. Len(Line(f, q, c, channel))
<1>1. Hand(c) \in Seq(Message) /\ Messages(channel) \in Seq(Message)
  BY HandType, MessagesType
<1> QED
  BY <1>1, JoinedTrim DEF Line

(* s[j] takes the place of the last earlier message with its key, which    *)
(* was not among the first n.                                              *)
Merges(n, s, t) ==
    \E i, j \in DOMAIN s :
       /\ n < i /\ i < j /\ s[i].key = s[j].key
       /\ \A x \in i + 1 .. j - 1 : s[x].key # s[i].key
       /\ t = Cut(Replaced(s, i, s[j]), j)

(* The message in hand goes to the backlog: to its end, or in the place of *)
(* the message that has its key.                                           *)
LEMMA LinePut ==
    ASSUME NEW f \in Seq(Message), NEW q \in Seq(Message), NEW m \in Message,
           NEW channel \in Seq(ChannelItem), KeysDistinct(q)
    PROVE  \/ Line(f, Put(q, m), Tick, channel) = Line(f, q, m, channel)
           \/ Merges(Len(f), Line(f, q, m, channel), Line(f, Put(q, m), Tick, channel))
<1> DEFINE w == Messages(channel)
<1>0. Hand(m) = One(m) /\ Hand(Tick) = <<>> /\ One(m) \in Seq(Message)
  BY ItemTypes, HandOfTick, OneProperties DEF Hand, hasMessage
<1>1. w \in Seq(Message)
  BY MessagesType
<1>2. /\ \A t : Line(f, t, m, channel) = Joined(f, t, One(m), w)
      /\ \A t : Line(f, t, Tick, channel) = Joined(f, t, <<>>, w)
  BY <1>0, Zenon DEF Line
<1> HIDE DEF w
<1>3. CASE ~HasKey(q, m.key)
  <2>1. Put(q, m) = Append(q, m)
    BY <1>3 DEF Put
  <2>2. Joined(f, Append(q, m), <<>>, w) = Joined(f, q, One(m), w)
    BY JoinedQueue
  <2> QED
    BY <1>2, <2>1, <2>2, Zenon
<1>4. CASE HasKey(q, m.key)
  <2>1. PICK i \in DOMAIN q : q[i].key = m.key
    BY <1>4 DEF HasKey
  <2>2. Len(q) \in Nat /\ Len(f) \in Nat /\ i \in 1 .. Len(q) /\ DOMAIN q = 1 .. Len(q)
    OBVIOUS
  <2>3. \A x \in 1 .. Len(q) : q[x].key = m.key <=> x = i
    BY <2>1, <2>2 DEF KeysDistinct
  <2>4. Put(q, m) = Replaced(q, i, m)
    BY <1>4, <2>2, <2>3 DEF Put, Replaced
  <2> DEFINE s == Joined(f, q, One(m), w)
  <2> DEFINE j == Len(f) + Len(q) + 1
  <2>5. s \in Seq(Message) /\ s[j] = m /\ j \in 1 .. Len(s)
    <3>1. s \in Seq(Message)
      BY <1>0, <1>1, JoinedType
    <3>2. s[j] = m /\ j \in 1 .. Len(s)
      BY <1>1, JoinedDrop
    <3> QED
      BY <3>1, <3>2
  <2>6. Joined(f, Put(q, m), <<>>, w) = Cut(Replaced(s, Len(f) + i, m), j)
    BY <1>1, <2>2, <2>4, JoinedReplace
  <2>7. \A x \in 1 .. Len(q) : s[Len(f) + x] = q[x]
    BY <1>0, <1>1, JoinedAt
  <2> HIDE DEF s
  <2>8. Len(f) < Len(f) + i /\ Len(f) + i < j /\ Len(f) + i \in 1 .. Len(s)
    BY <2>2, <2>5
  <2>9. s[Len(f) + i].key = s[j].key
    BY <2>1, <2>2, <2>5, <2>7
  <2>10. ASSUME NEW x \in Len(f) + i + 1 .. j - 1 PROVE s[x].key # s[Len(f) + i].key
    <3>1. x - Len(f) \in 1 .. Len(q) /\ x - Len(f) # i /\ Len(f) + (x - Len(f)) = x
      BY <2>2
    <3>2. s[x] = q[x - Len(f)]
      BY <2>7, <3>1
    <3> QED
      BY <2>1, <2>2, <2>3, <2>7, <3>1, <3>2
  <2>11. DOMAIN s = 1 .. Len(s)
    BY <2>5
  <2> HIDE DEF j
  <2>12. Merges(Len(f), s, Cut(Replaced(s, Len(f) + i, m), j))
    <3>1. Replaced(s, Len(f) + i, s[j]) = Replaced(s, Len(f) + i, m)
      BY <2>5
    <3>2. Len(f) + i \in DOMAIN s /\ j \in DOMAIN s
      BY <2>5, <2>8, <2>11
    <3> QED
      BY <2>8, <2>9, <2>10, <3>1, <3>2 DEF Merges
  <2> QED
    BY <1>2, <2>6, <2>12, Zenon DEF s
<1> QED
  BY <1>3, <1>4

Silent == UNCHANGED <<received, accepted, closed, canceled>>

(* The pipeline is left alone.                                             *)
Keeps == UNCHANGED <<Pipeline, received, accepted>> /\ Len(feeder') = Len(feeder)

(* The feeder's channel takes the first message that was not in it.        *)
Hands ==
    /\ Silent /\ UNCHANGED Pipeline
    /\ Len(feeder) < Len(Pipeline) /\ Len(feeder') = Len(feeder) + 1

(* The work channel accepts a message.                                     *)
Accepts ==
    \E p \in Publisher :
       /\ Send(p)
       /\ Pipeline' = Append(Pipeline, [key |-> outgoing[p], id |-> accepted + 1])
       /\ accepted' = accepted + 1 /\ UNCHANGED feeder

Receives ==
    /\ Len(feeder) > 0 /\ Len(feeder') = Len(feeder) - 1
    /\ Pipeline # <<>> /\ Head(Pipeline) = Head(feeder)
    /\ Pipeline' = Tail(Pipeline)
    /\ received' = [received EXCEPT ![Head(Pipeline).key] = Head(Pipeline).id]
    /\ UNCHANGED <<accepted, closed, canceled>>

Discards ==
    /\ Silent /\ closed /\ UNCHANGED feeder
    /\ \E i \in 1 .. Len(Pipeline) : Len(feeder) < i /\ Pipeline' = Cut(Pipeline, i)

Conflates == Silent /\ UNCHANGED feeder /\ Merges(Len(feeder), Pipeline, Pipeline')

Trims ==
    /\ Silent /\ UNCHANGED feeder
    /\ MAX_QUEUE_DEPTH # 0 /\ Len(Pipeline) - Len(feeder) > MAX_QUEUE_DEPTH
    /\ Len(feeder) + 1 \in 1 .. Len(Pipeline)
    /\ \/ Pipeline' = Cut(Pipeline, Len(feeder) + 1)
       \/ Merges(Len(feeder), Cut(Pipeline, Len(feeder) + 1), Pipeline')

Clears ==
    /\ Silent
    /\ Pipeline = Cat(Cat(feeder, queue), Messages(work))
    /\ Pipeline' = Cat(feeder, Messages(work))

LEMMA PipelineType ==
    /\ TypeInv => Pipeline \in Seq(Message)
    /\ TypeInv' => Pipeline' \in Seq(Message)
<1>1. TypeInv => Pipeline \in Seq(Message)
  BY PipelineIsLine, LineType DEF TypeInv, TypeOK
<1>2. TypeInv' => Pipeline' \in Seq(Message)
  <2> SUFFICES ASSUME TypeInv' PROVE Pipeline' \in Seq(Message)
    OBVIOUS
  <2>1. /\ feeder' \in Seq(Message) /\ queue' \in Seq(Message) /\ wrapper' \in ChannelItem
        /\ work' \in Seq(ChannelItem)
    BY DEF TypeInv, TypeOK, ChannelItem, Message, Tick
  <2>2. Line(feeder', queue', wrapper', work') \in Seq(Message)
    BY <2>1, LineType
  <2> QED
    BY <2>2, PipelineIsLine
<1> QED
  BY <1>1, <1>2

LEMMA PipelineNat ==
    ASSUME TypeInv
    PROVE  Len(Pipeline) \in Nat
<1> DEFINE s == Pipeline
<1>1. s \in Seq(Message)
  BY PipelineType
<1> HIDE DEF s
<1>2. Len(s) \in Nat
  BY <1>1
<1> QED
  BY <1>2 DEF s

LEMMA ClearIs ==
    ASSUME TypeInv, HandInv, ExitClear, Silent
    PROVE  Clears
<1> USE DEF TypeInv, TypeOK
<1>1. wrapper = Tick /\ wrapper' = Tick /\ queue' = <<>> /\ UNCHANGED <<feeder, work>>
  BY DEF ExitClear, HandInv
<1> DEFINE w == Messages(work)
<1>2. w \in Seq(Message) /\ Cat(feeder, queue) \in Seq(Message) /\ Cat(feeder, <<>>) = feeder
  BY MessagesType, CatProperties, CatEmpty
<1>3. Cat(Cat(feeder, queue), <<>>) = Cat(feeder, queue)
  BY <1>2, CatEmpty
<1>4. Pipeline = Line(feeder, queue, Tick, work) /\ Pipeline' = Line(feeder, <<>>, Tick, work)
  BY <1>1, PipelineIsLine
<1> QED
  BY <1>2, <1>3, <1>4, HandOfTick, Zenon DEF Clears, Line, Joined

LEMMA OfferIs ==
    ASSUME TypeInv, TypeInv', HandInv, BacklogBounded, Offer, Silent
    PROVE  Keeps \/ Hands \/ Conflates \/ Trims
<1> USE DEF TypeInv, TypeOK
<1>1. wrapper \in Message /\ wrapper' = Tick /\ UNCHANGED work
  BY DEF Offer, Return, OfferHasMessage
<1>2. /\ queue \in Seq(Message) /\ feeder \in Seq(Message) /\ work \in Seq(ChannelItem)
      /\ KeysDistinct(queue)
  BY DEF BacklogBounded
<1>3. /\ Pipeline = Line(feeder, queue, wrapper, work)
      /\ Pipeline' = Line(feeder', queue', Tick, work)
  BY <1>1, PipelineIsLine
<1>4. CASE feederReady /\ PushAccepted(wrapper) /\ UNCHANGED queue
  <2>1. queue = <<>> /\ queue' = <<>> /\ feeder' = Append(feeder, wrapper)
    BY <1>4 DEF Offer, HandInv, PushAccepted
  <2>2. Line(Append(feeder, wrapper), <<>>, Tick, work) = Line(feeder, <<>>, wrapper, work)
    BY <1>1, <1>2, LineOffer
  <2>3. Len(feeder') = Len(feeder) + 1
    BY <1>2, <2>1, <1>1, AppendProperties
  <2>4. Len(feeder) < Len(Pipeline)
    <3>1. Len(feeder) + Len(queue) + 1 \in 1 .. Len(Pipeline)
      BY <1>1, <1>2, <1>3, LineDrop
    <3>2. Len(feeder) \in Nat /\ Len(queue) \in Nat /\ Len(Pipeline) \in Nat
      BY <1>2, PipelineNat
    <3> QED
      BY <3>1, <3>2
  <2> QED
    BY <1>3, <2>1, <2>2, <2>3, <2>4 DEF Hands
<1>5. CASE queue' = Put(Trimmed, wrapper) /\ UNCHANGED feeder
  <2>1. CASE ~(MAX_QUEUE_DEPTH # 0 /\ Len(queue) >= MAX_QUEUE_DEPTH)
    <3>1. Trimmed = queue
      BY <2>1 DEF Trimmed
    <3>2. Pipeline' = Pipeline \/ Merges(Len(feeder), Pipeline, Pipeline')
      BY <1>1, <1>2, <1>3, <1>5, <3>1, LinePut
    <3> QED
      BY <1>5, <3>2 DEF Keeps, Conflates, Silent
  <2>2. CASE MAX_QUEUE_DEPTH # 0 /\ Len(queue) >= MAX_QUEUE_DEPTH
    <3>1. queue # <<>>
      BY <1>2, <2>2, ConsumerAssumption
    <3>2. Trimmed = Tail(queue)
      BY <2>2, <3>1 DEF Trimmed, DropHead
    <3>3. Tail(queue) \in Seq(Message) /\ KeysDistinct(Tail(queue))
      BY <1>2, <3>1, DropHeadProperties DEF DropHead
    <3>4. wrapper \in ChannelItem
      BY <1>1, ItemTypes
    <3> DEFINE t == Line(feeder, Tail(queue), wrapper, work)
    <3>5. /\ t = Cut(Pipeline, Len(feeder) + 1)
          /\ Len(feeder) + 1 \in 1 .. Len(Pipeline)
      BY <1>2, <1>3, <3>1, <3>4, LineTrim
    <3>6. Pipeline' = t \/ Merges(Len(feeder), t, Pipeline')
      <4>1. feeder' = feeder /\ queue' = Put(Tail(queue), wrapper)
        BY <1>5, <3>2
      <4> QED
        BY <1>1, <1>2, <1>3, <3>3, <4>1, LinePut
    <3>7. Len(Pipeline) - Len(feeder) > MAX_QUEUE_DEPTH
      <4>1. Len(feeder) + Len(queue) + 1 \in 1 .. Len(Pipeline)
        BY <1>1, <1>2, <1>3, LineDrop
      <4>2. Len(feeder) \in Nat /\ Len(queue) \in Nat /\ Len(Pipeline) \in Nat
        BY <1>2, PipelineNat
      <4> QED
        BY <2>2, <4>1, <4>2, ConsumerAssumption
    <3> HIDE DEF t
    <3> QED
      BY <1>5, <2>2, <3>5, <3>6, <3>7 DEF Trims
  <2> QED
    BY <2>1, <2>2
<1> QED
  BY <1>4, <1>5 DEF Offer, PushRefused

LEMMA SendIs ==
    ASSUME TypeInv, NEW s \in Caller, Send(s)
    PROVE  Keeps \/ Accepts
<1> USE DEF TypeInv, TypeOK
<1>1. UNCHANGED <<feeder, queue, wrapper, received>>
  BY DEF Send, process
<1>2. /\ Pipeline = Line(feeder, queue, wrapper, work)
      /\ Pipeline' = Line(feeder, queue, wrapper, work')
  BY <1>1, PipelineIsLine
<1>3. CASE s = Reader
  <2>1. work' = Append(work, Tick) /\ UNCHANGED accepted
    BY <1>3 DEF Send
  <2>2. Line(feeder, queue, wrapper, Append(work, Tick)) = Line(feeder, queue, wrapper, work)
    BY LineSend, ItemTypes DEF hasMessage
  <2> QED
    BY <1>1, <1>2, <2>1, <2>2 DEF Keeps
<1>4. CASE s # Reader
  <2> DEFINE m == [key |-> outgoing[s], id |-> accepted + 1]
  <2>1. s \in Publisher /\ work' = Append(work, m) /\ accepted' = accepted + 1
    BY <1>4, Zenon DEF Send, Caller
  <2>2. m \in Message
    BY <2>1 DEF Send, SenderHasKey, Message
  <2> HIDE DEF m
  <2>3. m \in ChannelItem /\ hasMessage(m)
    BY <2>2, ItemTypes DEF hasMessage
  <2>4. Line(feeder, queue, wrapper, Append(work, m)) = Append(Line(feeder, queue, wrapper, work), m)
    BY <2>3, LineSend
  <2>5. Pipeline' = Append(Pipeline, m)
    BY <1>2, <2>1, <2>4, Zenon
  <2> QED
    BY <1>1, <2>1, <2>5 DEF Accepts, m
<1> QED
  BY <1>3, <1>4

LEMMA ReceiveIs ==
    ASSUME TypeInv, Receive
    PROVE  Receives
<1> USE DEF TypeInv, TypeOK
<1>1. /\ UNCHANGED <<queue, wrapper, work, accepted, closed, canceled>> /\ feeder # <<>>
      /\ feeder' = Tail(feeder)
      /\ received' = [received EXCEPT ![Head(feeder).key] = Head(feeder).id]
  BY DEF Receive, process, shutdown
<1>2. /\ Pipeline = Line(feeder, queue, wrapper, work)
      /\ Pipeline' = Line(Tail(feeder), queue, wrapper, work)
  BY <1>1, PipelineIsLine
<1>3. /\ Pipeline # <<>> /\ Head(Pipeline) = Head(feeder)
      /\ Pipeline' = Tail(Pipeline)
  BY <1>1, <1>2, LineReceive
<1>4. Len(feeder) > 0 /\ Len(feeder') = Len(feeder) - 1
  BY <1>1, HeadTailProperties
<1> QED
  BY <1>1, <1>3, <1>4 DEF Receives

LEMMA ProcessIs ==
    ASSUME TypeInv, TypeInv', HandInv, BacklogBounded, Process
    PROVE  Keeps \/ Hands \/ Discards \/ Conflates \/ Trims \/ (ExitClear /\ Clears)
<1>1. Silent
  BY DEF Process, Silent, shutdown
<1>2. CASE UNCHANGED <<feeder, queue, wrapper, work>>
  <2>1. Pipeline' = Pipeline
    BY <1>2, PipelineIsLine
  <2> QED
    BY <1>1, <1>2, <2>1 DEF Keeps, Silent
<1>3. CASE SelectWork
  <2>1. /\ wrapper = Tick /\ work # <<>> /\ wrapper' = Head(work) /\ work' = Tail(work)
        /\ UNCHANGED <<feeder, queue>>
    BY <1>3 DEF SelectWork, HandInv
  <2>2. Line(feeder, queue, Head(work), Tail(work)) = Line(feeder, queue, Tick, work)
    BY <2>1, LineSelect DEF TypeInv, TypeOK
  <2>3. Pipeline' = Pipeline
    BY <2>1, <2>2, PipelineIsLine
  <2> QED
    BY <1>1, <2>1, <2>3 DEF Keeps, Silent
<1>4. CASE DrainPush
  <2>1. CASE UNCHANGED <<feeder, queue>>
    BY <1>2, <1>4, <2>1 DEF DrainPush
  <2>2. CASE queue # <<>> /\ PushAccepted(Head(queue)) /\ queue' = Tail(queue)
    <3>1. feeder' = Append(feeder, Head(queue)) /\ UNCHANGED <<wrapper, work>>
      BY <1>4, <2>2 DEF DrainPush, PushAccepted
    <3>2. Line(Append(feeder, Head(queue)), Tail(queue), wrapper, work)
             = Line(feeder, queue, wrapper, work)
      BY <2>2, LinePush DEF TypeInv, TypeOK
    <3>3. Pipeline' = Pipeline
      BY <2>2, <3>1, <3>2, PipelineIsLine
    <3>4. Len(feeder') = Len(feeder) + 1
      BY <2>2, <3>1, AppendProperties DEF TypeInv, TypeOK
    <3>5. Len(feeder) < Len(Pipeline)
      <4>1. Len(feeder) + 1 \in 1 .. Len(Line(feeder, queue, wrapper, work))
        BY <2>2, LineTrim DEF TypeInv, TypeOK
      <4>2. Len(feeder) + 1 \in 1 .. Len(Pipeline)
        BY <4>1, PipelineIsLine
      <4>3. Len(feeder) \in Nat
        BY DEF TypeInv, TypeOK
      <4> QED
        BY <4>2, <4>3, PipelineNat
    <3> QED
      BY <1>1, <3>3, <3>4, <3>5 DEF Hands
  <2> QED
    BY <1>4, <2>1, <2>2 DEF DrainPush, PushRefused
<1>5. CASE Check
  <2>1. UNCHANGED <<queue, work, feeder>>
    BY <1>5 DEF Check
  <2>2. CASE UNCHANGED wrapper
    BY <1>2, <2>1, <2>2
  <2>3. CASE wrapper' # wrapper
    <3>1. hasMessage(wrapper) /\ closed /\ wrapper' = Tick
      BY <1>5, <2>3 DEF Check, Return, hasMessage
    <3>2. wrapper \in Message
      BY <3>1, ItemTypes DEF TypeInv, TypeOK
    <3>3. /\ Line(feeder, queue, Tick, work)
               = Cut(Line(feeder, queue, wrapper, work), Len(feeder) + Len(queue) + 1)
          /\ Len(feeder) + Len(queue) + 1 \in 1 .. Len(Line(feeder, queue, wrapper, work))
      BY <3>2, LineDrop DEF TypeInv, TypeOK
    <3>4. /\ Pipeline' = Cut(Pipeline, Len(feeder) + Len(queue) + 1)
          /\ Len(feeder) + Len(queue) + 1 \in 1 .. Len(Pipeline)
      BY <2>1, <3>1, <3>3, PipelineIsLine
    <3>5. Len(feeder) < Len(feeder) + Len(queue) + 1
      BY DEF TypeInv, TypeOK
    <3> QED
      BY <1>1, <2>1, <3>1, <3>4, <3>5 DEF Discards
  <2> QED
    BY <2>2, <2>3
<1>6. CASE Offer
  BY <1>1, <1>6, OfferIs
<1>7. CASE ExitClear
  BY <1>1, <1>7, ClearIs
<1>8. SelectStop \/ DrainTest => UNCHANGED <<feeder, queue, wrapper, work>>
  BY DEF SelectStop, DrainTest
<1> QED
  BY <1>2, <1>3, <1>4, <1>5, <1>6, <1>7, <1>8 DEF Process

(* Every step does one of the few things to the pipeline that the mailbox  *)
(* knows.                                                                  *)
LEMMA PipelineStep ==
    ASSUME TypeInv, TypeInv', HandInv, BacklogBounded, [Next]_vars
    PROVE  \/ Keeps \/ Hands \/ Accepts \/ (Receive /\ Receives) \/ Discards
           \/ Conflates \/ Trims \/ (ExitClear /\ Clears)
<1>1. CASE UNCHANGED <<feeder, queue, wrapper, work, received, accepted>>
  BY <1>1, PipelineIsLine DEF Keeps
<1>2. ASSUME NEW s \in Caller, Send(s) PROVE Keeps \/ Accepts
  BY <1>2, SendIs
<1>3. CASE Receive
  BY <1>3, ReceiveIs
<1>4. CASE Process
  BY <1>4, ProcessIs
<1>5. \/ UNCHANGED <<feeder, queue, wrapper, work, received, accepted>>
      \/ (\E s \in Caller : Send(s)) \/ Receive \/ Process
  BY DEF Next, vars, process, Run, Cancel, Consume, GiveUp, ReceiveClosed, CallNext, ExitDone,
     Close
<1> QED
  BY <1>1, <1>2, <1>3, <1>4, <1>5


-----------------------------------------------------------------------------
(* The order of the messages of one key.                                   *)

(* No message of s is newer than n, each is newer than what r says was     *)
(* received of its key, and the messages of one key are oldest first.      *)
InOrder(s, r, n) ==
    \A i \in 1 .. Len(s) :
       /\ s[i].id <= n
       /\ r[s[i].key] < s[i].id
       /\ \A j \in 1 .. i - 1 : s[j].key = s[i].key => s[j].id < s[i].id

(* The messages of t are messages of s; those of one key keep their order  *)
(* and none is taken twice.                                                *)
Selects(s, t) ==
    \E g \in [1 .. Len(t) -> 1 .. Len(s)] :
       \A x \in 1 .. Len(t) :
          /\ t[x] = s[g[x]]
          /\ \A y \in 1 .. x - 1 : t[y].key = t[x].key => g[y] < g[x]

LEMMA SelectsInOrder ==
    ASSUME NEW s \in Seq(Message), NEW t \in Seq(Message), NEW r, NEW n,
           InOrder(s, r, n), Selects(s, t)
    PROVE  InOrder(t, r, n)
<1>1. PICK g \in [1 .. Len(t) -> 1 .. Len(s)] :
         \A x \in 1 .. Len(t) :
            /\ t[x] = s[g[x]]
            /\ \A y \in 1 .. x - 1 : t[y].key = t[x].key => g[y] < g[x]
  BY DEF Selects
<1>2. Len(s) \in Nat /\ Len(t) \in Nat
  OBVIOUS
<1>3. ASSUME NEW x \in 1 .. Len(t) PROVE t[x].id <= n /\ r[t[x].key] < t[x].id
  <2>1. g[x] \in 1 .. Len(s) /\ t[x] = s[g[x]]
    BY <1>1
  <2> QED
    BY <2>1 DEF InOrder
<1>4. ASSUME NEW x \in 1 .. Len(t), NEW y \in 1 .. x - 1, t[y].key = t[x].key
      PROVE  t[y].id < t[x].id
  <2>1. y \in 1 .. Len(t)
    BY <1>2
  <2>2. /\ g[x] \in 1 .. Len(s) /\ t[x] = s[g[x]]
        /\ g[y] \in 1 .. Len(s) /\ t[y] = s[g[y]]
        /\ g[y] < g[x]
    BY <1>1, <1>4, <2>1
  <2>3. g[y] \in 1 .. g[x] - 1
    BY <1>2, <2>2
  <2>4. s[g[y]].key = s[g[x]].key => s[g[y]].id < s[g[x]].id
    BY <2>2, <2>3 DEF InOrder
  <2> QED
    BY <1>4, <2>2, <2>4
<1> QED
  BY <1>3, <1>4 DEF InOrder

LEMMA CutProperties ==
    ASSUME NEW S, NEW s \in Seq(S), NEW i \in 1 .. Len(s)
    PROVE  /\ Cut(s, i) \in Seq(S) /\ Len(Cut(s, i)) = Len(s) - 1
           /\ \A x \in 1 .. Len(s) - 1 : Cut(s, i)[x] = IF x < i THEN s[x] ELSE s[x + 1]
<1> DEFINE n == Len(s) - 1
<1> DEFINE c == [x \in 1 .. n |-> IF x < i THEN s[x] ELSE s[x + 1]]
<1>1. n \in Nat /\ Len(s) = n + 1
  OBVIOUS
<1>2. Cut(s, i) = c
  BY DEF Cut
<1>3. \A x \in 1 .. n : c[x] \in S
  <2> SUFFICES ASSUME NEW x \in 1 .. n PROVE (IF x < i THEN s[x] ELSE s[x + 1]) \in S
    OBVIOUS
  <2>1. x \in 1 .. Len(s) /\ x + 1 \in 1 .. Len(s)
    BY <1>1
  <2> QED
    BY <2>1
<1>4. c \in Seq(S) /\ Len(c) = n
  BY <1>1, <1>3
<1> QED
  BY <1>2, <1>4

LEMMA CutSelects ==
    ASSUME NEW s \in Seq(Message), NEW i \in 1 .. Len(s)
    PROVE  Selects(s, Cut(s, i))
<1> DEFINE t == Cut(s, i)
<1>1. /\ t \in Seq(Message) /\ Len(t) = Len(s) - 1 /\ Len(s) \in Nat
      /\ \A x \in 1 .. Len(t) : t[x] = IF x < i THEN s[x] ELSE s[x + 1]
  BY CutProperties
<1> HIDE DEF t
<1> DEFINE g == [x \in 1 .. Len(t) |-> IF x < i THEN x ELSE x + 1]
<1>2. g \in [1 .. Len(t) -> 1 .. Len(s)]
  BY <1>1
<1>3. ASSUME NEW x \in 1 .. Len(t)
      PROVE  t[x] = s[g[x]] /\ \A y \in 1 .. x - 1 : g[y] < g[x]
  BY <1>1
<1> HIDE DEF g
<1> QED
  BY <1>2, <1>3 DEF Selects, t

LEMMA MergesSelects ==
    ASSUME NEW n, NEW s \in Seq(Message), NEW t \in Seq(Message), Merges(n, s, t)
    PROVE  Selects(s, t)
<1>1. PICK i \in DOMAIN s, j \in DOMAIN s :
         /\ i < j /\ s[i].key = s[j].key
         /\ \A x \in i + 1 .. j - 1 : s[x].key # s[i].key
         /\ t = Cut(Replaced(s, i, s[j]), j)
  BY DEF Merges
<1>2. i \in 1 .. Len(s) /\ j \in 1 .. Len(s) /\ Len(s) \in Nat /\ s[j] \in Message
  OBVIOUS
<1> DEFINE u == Replaced(s, i, s[j])
<1>3. /\ u \in Seq(Message) /\ Len(u) = Len(s)
      /\ \A x \in 1 .. Len(s) : u[x] = IF x = i THEN s[j] ELSE s[x]
  BY <1>2, ReplacedProperties
<1>4. t = Cut(u, j)
  BY <1>1
<1> HIDE DEF u
<1>5. /\ Len(t) = Len(s) - 1
      /\ \A x \in 1 .. Len(t) : t[x] = IF x < j THEN u[x] ELSE u[x + 1]
  <2>1. u \in Seq(Message) /\ j \in 1 .. Len(u) /\ Len(u) = Len(s)
    BY <1>2, <1>3
  <2>2. /\ Len(Cut(u, j)) = Len(u) - 1
        /\ \A x \in 1 .. Len(u) - 1 : Cut(u, j)[x] = IF x < j THEN u[x] ELSE u[x + 1]
    BY <2>1, CutProperties
  <2> QED
    BY <1>4, <2>1, <2>2
<1> DEFINE g == [x \in 1 .. Len(t) |-> IF x = i THEN j ELSE IF x < j THEN x ELSE x + 1]
<1>6. g \in [1 .. Len(t) -> 1 .. Len(s)]
  BY <1>2, <1>5
<1>7. ASSUME NEW x \in 1 .. Len(t) PROVE t[x] = s[g[x]]
  <2>1. x \in 1 .. Len(s) /\ x + 1 \in 1 .. Len(s)
    BY <1>2, <1>5
  <2> QED
    BY <1>1, <1>2, <1>3, <1>5, <2>1
<1>8. ASSUME NEW x \in 1 .. Len(t), NEW y \in 1 .. x - 1, t[y].key = t[x].key
      PROVE  g[y] < g[x]
  <2>0. y \in 1 .. Len(t)
    BY <1>2, <1>5
  <2>1. CASE y = i /\ x < j
    <3>1. x \in i + 1 .. j - 1 /\ g[x] = x /\ g[y] = j
      BY <1>2, <2>0, <2>1
    <3>2. t[x] = s[x] /\ t[y] = s[j]
      BY <1>7, <2>0, <3>1
    <3> QED
      BY <1>1, <1>8, <3>1, <3>2
  <2>2. CASE ~(y = i /\ x < j)
    BY <1>1, <1>2, <2>0, <2>2
  <2> QED
    BY <2>1, <2>2
<1> HIDE DEF g
<1> QED
  BY <1>6, <1>7, <1>8 DEF Selects

(* The middle one of three sequences goes.                                 *)
LEMMA ClearSelects ==
    ASSUME NEW f \in Seq(Message), NEW q \in Seq(Message), NEW w \in Seq(Message)
    PROVE  Selects(Cat(Cat(f, q), w), Cat(f, w))
<1> DEFINE fq == Cat(f, q)
<1> DEFINE s == Cat(fq, w)
<1> DEFINE t == Cat(f, w)
<1>0. Len(f) \in Nat /\ Len(q) \in Nat /\ Len(w) \in Nat
  OBVIOUS
<1>1. /\ fq \in Seq(Message) /\ Len(fq) = Len(f) + Len(q)
      /\ \A i \in 1 .. Len(f) + Len(q) : fq[i] = IF i <= Len(f) THEN f[i] ELSE q[i - Len(f)]
  BY CatProperties
<1> HIDE DEF fq
<1>2. /\ s \in Seq(Message) /\ Len(s) = Len(fq) + Len(w)
      /\ \A i \in 1 .. Len(fq) + Len(w) : s[i] = IF i <= Len(fq) THEN fq[i] ELSE w[i - Len(fq)]
  <2>1. fq \in Seq(Message)
    BY <1>1
  <2> QED
    BY <2>1, CatProperties
<1>3. /\ t \in Seq(Message) /\ Len(t) = Len(f) + Len(w)
      /\ \A i \in 1 .. Len(f) + Len(w) : t[i] = IF i <= Len(f) THEN f[i] ELSE w[i - Len(f)]
  BY CatProperties
<1> HIDE DEF s, t
<1> DEFINE g == [x \in 1 .. Len(t) |-> IF x <= Len(f) THEN x ELSE x + Len(q)]
<1>4. g \in [1 .. Len(t) -> 1 .. Len(s)]
  BY <1>0, <1>1, <1>2, <1>3
<1>5. ASSUME NEW x \in 1 .. Len(t) PROVE t[x] = s[g[x]]
  <2>1. CASE x <= Len(f)
    <3>1. /\ g[x] = x /\ x \in 1 .. Len(f) + Len(q) /\ x \in 1 .. Len(fq) + Len(w)
          /\ x \in 1 .. Len(f) + Len(w) /\ x <= Len(fq)
      BY <1>0, <1>1, <1>3, <2>1
    <3> QED
      BY <1>1, <1>2, <1>3, <2>1, <3>1
  <2>2. CASE ~(x <= Len(f))
    <3>1. /\ g[x] = x + Len(q) /\ x + Len(q) \in 1 .. Len(fq) + Len(w)
          /\ x \in 1 .. Len(f) + Len(w) /\ ~(x + Len(q) <= Len(fq))
          /\ x + Len(q) - Len(fq) = x - Len(f)
      BY <1>0, <1>1, <1>3, <2>2
    <3>2. s[x + Len(q)] = w[x + Len(q) - Len(fq)]
      BY <1>2, <3>1
    <3>3. t[x] = w[x - Len(f)]
      BY <1>3, <2>2, <3>1
    <3> QED
      BY <3>1, <3>2, <3>3
  <2> QED
    BY <2>1, <2>2
<1>6. ASSUME NEW x \in 1 .. Len(t), NEW y \in 1 .. x - 1 PROVE g[y] < g[x]
  BY <1>0, <1>3
<1> HIDE DEF g
<1> QED
  BY <1>4, <1>5, <1>6 DEF Selects, s, t, fq

LEMMA InOrderAppend ==
    ASSUME NEW s \in Seq(Message), NEW r \in [Key -> Nat], NEW n \in Nat, NEW m \in Message,
           InOrder(s, r, n), m.id = n + 1, r[m.key] <= n
    PROVE  InOrder(Append(s, m), r, n + 1)
<1> DEFINE t == Append(s, m)
<1>1. /\ t \in Seq(Message) /\ Len(t) = Len(s) + 1 /\ Len(s) \in Nat
      /\ \A i \in 1 .. Len(s) : t[i] = s[i]
      /\ t[Len(s) + 1] = m
  BY AppendProperties
<1> HIDE DEF t
<1>2. m.key \in Key /\ r[m.key] \in Nat
  BY DEF Message
<1>3. ASSUME NEW i \in 1 .. Len(t)
      PROVE  /\ t[i].id <= n + 1 /\ r[t[i].key] < t[i].id
             /\ \A j \in 1 .. i - 1 : t[j].key = t[i].key => t[j].id < t[i].id
  <2>1. CASE i = Len(s) + 1
    <3>1. t[i] = m /\ r[m.key] < n + 1
      BY <1>1, <1>2, <2>1
    <3>2. ASSUME NEW j \in 1 .. i - 1 PROVE t[j].id < n + 1
      <4>1. j \in 1 .. Len(s) /\ t[j] = s[j]
        BY <1>1, <2>1
      <4>2. s[j].id <= n /\ s[j] \in Message
        BY <4>1 DEF InOrder
      <4> QED
        BY <4>1, <4>2 DEF Message
    <3> QED
      BY <3>1, <3>2
  <2>2. CASE i # Len(s) + 1
    <3>1. i \in 1 .. Len(s) /\ t[i] = s[i] /\ s[i] \in Message
      BY <1>1, <2>2
    <3>2. \A j \in 1 .. i - 1 : j \in 1 .. Len(s) /\ t[j] = s[j]
      BY <1>1, <3>1
    <3>3. /\ s[i].id <= n /\ r[s[i].key] < s[i].id
          /\ \A j \in 1 .. i - 1 : s[j].key = s[i].key => s[j].id < s[i].id
      BY <3>1 DEF InOrder
    <3>4. s[i].id \in Nat
      BY <3>1 DEF Message
    <3> QED
      BY <3>1, <3>2, <3>3, <3>4
  <2> QED
    BY <2>1, <2>2
<1> QED
  BY <1>3 DEF InOrder, t

LEMMA InOrderTail ==
    ASSUME NEW s \in Seq(Message), NEW r \in [Key -> Nat], NEW n \in Nat,
           InOrder(s, r, n), s # <<>>
    PROVE  /\ InOrder(Tail(s), [r EXCEPT ![Head(s).key] = Head(s).id], n)
           /\ Head(s).id <= n
<1> DEFINE t == Tail(s)
<1> DEFINE h == Head(s)
<1>1. /\ t \in Seq(Message) /\ Len(t) = Len(s) - 1 /\ Len(s) \in Nat \ {0}
      /\ \A i \in 1 .. Len(t) : t[i] = s[i + 1]
      /\ h = s[1] /\ h \in Message
  BY HeadTailProperties
<1> HIDE DEF t, h
<1> DEFINE v == [r EXCEPT ![h.key] = h.id]
<1>2. h.key \in Key /\ h.id <= n
  BY <1>1 DEF Message, InOrder
<1>3. ASSUME NEW i \in 1 .. Len(t)
      PROVE  /\ t[i].id <= n /\ v[t[i].key] < t[i].id
             /\ \A j \in 1 .. i - 1 : t[j].key = t[i].key => t[j].id < t[i].id
  <2>1. i + 1 \in 1 .. Len(s) /\ t[i] = s[i + 1] /\ 1 \in 1 .. i + 1 - 1
    BY <1>1
  <2>2. /\ s[i + 1].id <= n /\ r[s[i + 1].key] < s[i + 1].id
        /\ \A j \in 1 .. i + 1 - 1 : s[j].key = s[i + 1].key => s[j].id < s[i + 1].id
    BY <2>1 DEF InOrder
  <2>3. s[i + 1].key \in Key
    <3>1. s[i + 1] \in Message
      BY <2>1
    <3> QED
      BY <3>1 DEF Message
  <2>4. h.key = s[i + 1].key => h.id < s[i + 1].id
    BY <1>1, <2>1, <2>2
  <2>5. v[s[i + 1].key] < s[i + 1].id
    BY <1>2, <2>2, <2>3, <2>4
  <2>6. ASSUME NEW j \in 1 .. i - 1, t[j].key = t[i].key PROVE t[j].id < t[i].id
    <3>1. j \in 1 .. Len(t) /\ j + 1 \in 1 .. i + 1 - 1
      BY <1>1
    <3>2. t[j] = s[j + 1]
      BY <1>1, <3>1
    <3> QED
      BY <2>1, <2>2, <2>6, <3>1, <3>2
  <2> QED
    BY <2>1, <2>2, <2>5, <2>6
<1> QED
  BY <1>2, <1>3 DEF InOrder, t, h

OrderInv ==
    /\ InOrder(Pipeline, received, accepted)
    /\ \A k \in Key : received[k] <= accepted

LEMMA OrderInit == Init => OrderInv
<1> SUFFICES ASSUME Init PROVE OrderInv
  OBVIOUS
<1>1. Pipeline = <<>>
  <2>1. Messages(work) = <<>> /\ InHand = <<>>
    BY MessagesEmpty DEF Init, InHand, hasMessage
  <2> QED
    BY <2>1 DEF Init, Pipeline
<1> QED
  BY <1>1 DEF Init, OrderInv, InOrder

LEMMA OrderStep ==
    ASSUME TypeInv, TypeInv', HandInv, BacklogBounded, OrderInv, [Next]_vars
    PROVE  OrderInv'
<1>1. Pipeline \in Seq(Message) /\ Pipeline' \in Seq(Message)
  BY PipelineType
<1>2. received \in [Key -> Nat] /\ accepted \in Nat
  BY DEF TypeInv, TypeOK
<1>3. InOrder(Pipeline, received, accepted) /\ \A k \in Key : received[k] <= accepted
  BY DEF OrderInv
<1>4. ASSUME Selects(Pipeline, Pipeline'), UNCHANGED <<received, accepted>> PROVE OrderInv'
  <2>1. InOrder(Pipeline', received, accepted)
    BY <1>1, <1>3, <1>4, SelectsInOrder
  <2> QED
    BY <1>3, <1>4, <2>1 DEF OrderInv
<1>5. CASE Keeps \/ Hands
  BY <1>3, <1>5 DEF Keeps, Hands, Silent, OrderInv
<1>6. CASE Accepts
  <2>1. PICK p \in Publisher :
           /\ Send(p)
           /\ Pipeline' = Append(Pipeline, [key |-> outgoing[p], id |-> accepted + 1])
           /\ accepted' = accepted + 1
    BY <1>6 DEF Accepts
  <2> DEFINE m == [key |-> outgoing[p], id |-> accepted + 1]
  <2>2. m \in Message /\ m.id = accepted + 1 /\ m.key \in Key
    BY <1>2, <2>1 DEF Send, SenderHasKey, Message, TypeInv
  <2>3. received' = received /\ Pipeline' = Append(Pipeline, m)
    BY <2>1 DEF Send
  <2> HIDE DEF m
  <2>4. InOrder(Append(Pipeline, m), received, accepted + 1)
    BY <1>1, <1>2, <1>3, <2>2, InOrderAppend
  <2>5. \A k \in Key : received[k] <= accepted + 1
    BY <1>2, <1>3
  <2> QED
    BY <2>1, <2>3, <2>4, <2>5 DEF OrderInv
<1>7. CASE Receives
  <2>1. /\ InOrder(Tail(Pipeline), [received EXCEPT ![Head(Pipeline).key] = Head(Pipeline).id],
                   accepted)
        /\ Head(Pipeline).id <= accepted
    BY <1>1, <1>2, <1>3, <1>7, InOrderTail DEF Receives
  <2>2. InOrder(Pipeline', received', accepted')
    BY <1>7, <2>1 DEF Receives
  <2>3. \A k \in Key : received'[k] <= accepted'
    BY <1>2, <1>3, <1>7, <2>1 DEF Receives
  <2> QED
    BY <2>2, <2>3 DEF OrderInv
<1>8. CASE Discards
  BY <1>1, <1>4, <1>8, CutSelects DEF Discards, Silent
<1>9. CASE Conflates
  BY <1>1, <1>4, <1>9, MergesSelects DEF Conflates, Silent
<1>10. CASE Trims
  <2> DEFINE i == Len(feeder) + 1
  <2>1. /\ i \in 1 .. Len(Pipeline)
        /\ Pipeline' = Cut(Pipeline, i) \/ Merges(Len(feeder), Cut(Pipeline, i), Pipeline')
    BY <1>10 DEF Trims
  <2> HIDE DEF i
  <2>2. Cut(Pipeline, i) \in Seq(Message) /\ Selects(Pipeline, Cut(Pipeline, i))
    BY <1>1, <2>1, CutProperties, CutSelects
  <2>3. InOrder(Cut(Pipeline, i), received, accepted)
    BY <1>1, <1>3, <2>2, SelectsInOrder
  <2>4. CASE Merges(Len(feeder), Cut(Pipeline, i), Pipeline')
    <3>1. Selects(Cut(Pipeline, i), Pipeline')
      BY <1>1, <2>2, <2>4, MergesSelects
    <3>2. InOrder(Pipeline', received, accepted)
      BY <1>1, <2>2, <2>3, <3>1, SelectsInOrder
    <3> QED
      BY <1>3, <1>10, <3>2 DEF OrderInv, Trims, Silent
  <2> QED
    BY <1>4, <1>10, <2>1, <2>2, <2>4 DEF Trims, Silent
<1>11. CASE Clears
  <2>1. Messages(work) \in Seq(Message) /\ feeder \in Seq(Message) /\ queue \in Seq(Message)
    BY MessagesType DEF TypeInv, TypeOK
  <2> QED
    BY <1>4, <1>11, <2>1, ClearSelects DEF Clears, Silent
<1> QED
  BY <1>5, <1>6, <1>7, <1>8, <1>9, <1>10, <1>11, PipelineStep

(* Everything the order and the refinement rest on.                        *)
PipelineInv == TypeInv /\ BacklogBounded /\ FlagFirst /\ HandInv /\ OrderInv

LEMMA PipelineInvariant == Spec => []PipelineInv
<1>1. Init => PipelineInv
  <2>1. Init => BacklogBounded
    BY ConsumerAssumption DEF Init, BacklogBounded, KeysDistinct
  <2>2. Init => FlagFirst
    BY WakeupInit DEF WakeupInv
  <2> QED
    BY <2>1, <2>2, TypeInit, HandInit, OrderInit DEF PipelineInv
<1>2. PipelineInv /\ [Next]_vars => PipelineInv'
  <2> SUFFICES ASSUME PipelineInv, [Next]_vars PROVE PipelineInv'
    OBVIOUS
  <2>1. TypeInv /\ BacklogBounded /\ FlagFirst /\ HandInv /\ OrderInv
    BY DEF PipelineInv
  <2>2. TypeInv'
    BY <2>1, TypeStep
  <2>3. BacklogBounded' /\ FlagFirst' /\ HandInv'
    BY <2>1, BacklogStep, FlagStep, HandStep
  <2>4. OrderInv'
    BY <2>1, <2>2, OrderStep
  <2> QED
    BY <2>2, <2>3, <2>4 DEF PipelineInv
<1> QED
  BY <1>1, <1>2, PTL DEF Spec

(* The messages of one key are received in the order in which the work     *)
(* channel accepted them, whatever the publishers, the reader, Cancel and  *)
(* Close do (consumer.go:130-170).                                         *)
THEOREM KeyOrderIsKept == Spec => []PerKeyOrder
<1>1. PipelineInv => PerKeyOrder
  <2> SUFFICES ASSUME PipelineInv PROVE PerKeyOrder
    OBVIOUS
  <2>1. Pipeline \in Seq(Message) /\ InOrder(Pipeline, received, accepted)
    BY PipelineType DEF PipelineInv, OrderInv
  <2> DEFINE s == Pipeline
  <2>2. DOMAIN s = 1 .. Len(s) /\ InOrder(s, received, accepted)
    BY <2>1
  <2> HIDE DEF s
  <2>3. \A i \in DOMAIN s :
           /\ received[s[i].key] < s[i].id
           /\ \A j \in 1 .. i - 1 : s[j].key = s[i].key => s[j].id < s[i].id
    BY <2>2 DEF InOrder
  <2> QED
    BY <2>3 DEF PerKeyOrder, s
<1> QED
  BY <1>1, PipelineInvariant, PTL

-----------------------------------------------------------------------------
(* The consumer implements the mailbox.                                    *)

Sending == {p \in Publisher : sender[p] # "idle"}

(* Every accepted message and every one on its way has its own call of     *)
(* Consume, so the ids stay within the mailbox's messages.                 *)
CallsInv ==
    /\ IsFiniteSet(Sending)
    /\ accepted + Cardinality(Sending) <= calls
    /\ calls <= MaxMessages

LEMMA CallsInit == Init => CallsInv
<1> SUFFICES ASSUME Init PROVE CallsInv
  OBVIOUS
<1>1. Sending = {}
  BY DEF Init, Sending, Caller
<1> QED
  BY <1>1, FS_EmptySet, ConsumerAssumption DEF Init, CallsInv

LEMMA CallsStep ==
    ASSUME TypeInv, CallsInv, [Next]_vars
    PROVE  CallsInv'
<1>1. sender \in [Caller -> {"idle", "background", "run"}] /\ accepted \in Nat /\ calls \in Nat
  BY DEF TypeInv, TypeOK
<1>2. /\ IsFiniteSet(Sending) /\ Cardinality(Sending) \in Nat
      /\ accepted + Cardinality(Sending) <= calls /\ calls <= MaxMessages
  BY FS_CardinalityType DEF CallsInv
<1>3. ASSUME NEW p \in Publisher, NEW k \in Key, Consume(p, k) PROVE CallsInv'
  <2>1. Sending' = Sending \cup {p} /\ p \notin Sending
    BY <1>1, <1>3 DEF Consume, EnterTryNext, Sending, Caller
  <2>2. IsFiniteSet(Sending') /\ Cardinality(Sending') = Cardinality(Sending) + 1
    BY <1>2, <2>1, FS_AddElement
  <2>3. calls' = calls + 1 /\ calls < MaxMessages /\ UNCHANGED accepted
    BY <1>3 DEF Consume
  <2> QED
    BY <1>1, <1>2, <2>2, <2>3, ConsumerAssumption DEF CallsInv
<1>4. ASSUME NEW s \in Caller, Send(s) \/ GiveUp(s) PROVE CallsInv'
  <2>1. sender[s] # "idle" /\ LeaveTryNext(s) /\ UNCHANGED calls
    BY <1>4 DEF Send, GiveUp
  <2>2. CASE s = Reader
    <3>1. Sending' = Sending
      BY <1>1, <2>1, <2>2, ConsumerAssumption DEF LeaveTryNext, Sending, Caller
    <3>2. UNCHANGED accepted
      BY <1>4, <2>2 DEF Send, GiveUp
    <3> QED
      BY <1>2, <2>1, <3>1, <3>2 DEF CallsInv
  <2>3. CASE s # Reader
    <3>1. Sending' = Sending \ {s} /\ s \in Sending
      BY <1>1, <2>1, <2>3 DEF LeaveTryNext, Sending, Caller
    <3>2. IsFiniteSet(Sending') /\ Cardinality(Sending') = Cardinality(Sending) - 1
      BY <1>2, <3>1, FS_RemoveElement
    <3>3. accepted' = accepted + 1 \/ accepted' = accepted
      BY <1>4, <2>3 DEF Send, GiveUp
    <3> QED
      BY <1>1, <1>2, <2>1, <3>2, <3>3 DEF CallsInv
  <2> QED
    BY <2>2, <2>3
<1>5. CASE CallNext
  <2>1. Sending' = Sending
    BY <1>1, <1>5, ConsumerAssumption DEF CallNext, EnterTryNext, Sending, Caller
  <2> QED
    BY <1>2, <1>5, <2>1 DEF CallNext, CallsInv
<1>6. CASE UNCHANGED <<sender, accepted, calls>>
  BY <1>2, <1>6 DEF CallsInv, Sending
<1>7. \/ \E p \in Publisher, k \in Key : Consume(p, k)
      \/ \E s \in Caller : Send(s) \/ GiveUp(s)
      \/ CallNext \/ UNCHANGED <<sender, accepted, calls>>
  BY DEF Next, vars, Run, Cancel, Receive, ReceiveClosed, Process, ExitDone, Close
<1> QED
  BY <1>3, <1>4, <1>5, <1>6, <1>7

(* What the mailbox holds.                                                 *)
Pending == IF Stopped THEN feeder ELSE Pipeline

LEMMA SameCut ==
    /\ \A s, i : Abstract!CutAt(s, i) = Cut(s, i)
    /\ \A n, s, t : Abstract!Conflates(n, s, t) <=> Merges(n, s, t)
BY DEF Abstract!CutAt, Abstract!Conflates, Abstract!Conflated, Cut, Merges, Replaced

LEMMA MailboxInit == Init => Abstract!Init
<1> SUFFICES ASSUME Init PROVE Abstract!Init
  OBVIOUS
<1>1. ~Stopped /\ ~Stopping /\ received = [k \in Key |-> 0] /\ Len(feeder) = 0
  BY DEF Init, Stopped, Stopping
<1>2. Pipeline = <<>>
  <2>1. Messages(work) = <<>> /\ InHand = <<>>
    BY MessagesEmpty DEF Init, InHand, hasMessage
  <2> QED
    BY <2>1 DEF Init, Pipeline
<1> QED
  BY <1>1, <1>2 DEF Abstract!Init

(* The process goroutine is gone: the reader empties the feeder's channel. *)
LEMMA StoppedStep ==
    ASSUME TypeInv, HandInv, Stopped, [Next]_vars
    PROVE  Abstract!Deliver \/ UNCHANGED Abstract!vars
<1>1. pc \in {"cleared", "done"} /\ Stopping
  BY DEF Stopped, HandInv
<1>2. Stopped' /\ Stopping' /\ UNCHANGED queue
  <2>1. CASE Process
    BY <1>1, <2>1 DEF Process, SelectStop, SelectWork, DrainTest, DrainPush, Check, Offer,
       ExitClear
  <2>2. CASE ExitDone
    BY <1>1, <2>2 DEF ExitDone, Stopped, Stopping
  <2>3. CASE Run
    BY <1>1, <2>3 DEF Run
  <2>4. CASE Cancel
    BY <1>1, <2>4 DEF Cancel, process, Stopped, Stopping
  <2>5. ASSUME NEW c \in Closer, Close(c)
        PROVE  Stopped' /\ Stopping' /\ UNCHANGED queue
    BY <1>1, <2>5 DEF Close, CloseSwap, CloseSignal, CloseReturn, process, Stopped, Stopping
  <2>6. CASE UNCHANGED <<pc, queue, closed, canceled>>
    BY <1>1, <2>6 DEF Stopped, Stopping
  <2>7. \/ Process \/ ExitDone \/ Run \/ Cancel \/ (\E c \in Closer : Close(c))
        \/ UNCHANGED <<pc, queue, closed, canceled>>
    BY DEF Next, vars, process, shutdown, Consume, Send, GiveUp, Receive, ReceiveClosed, CallNext
  <2> QED
    BY <2>1, <2>2, <2>3, <2>4, <2>5, <2>6, <2>7
<1>3. Stopping = TRUE /\ Stopping' = TRUE /\ Stopped = TRUE /\ Stopped' = TRUE
  BY <1>1, <1>2 DEF Stopping, Stopped
<1>4. CASE Receive
  <2>1. /\ feeder # <<>> /\ feeder' = Tail(feeder)
        /\ received' = [received EXCEPT ![Head(feeder).key] = Head(feeder).id]
    BY <1>4 DEF Receive
  <2>2. Len(feeder) > 0 /\ Len(feeder') = Len(feeder) - 1
    BY <2>1, HeadTailProperties DEF TypeInv, TypeOK
  <2> QED
    BY <1>3, <2>1, <2>2 DEF Abstract!Deliver
<1>5. CASE UNCHANGED <<feeder, received>>
  BY <1>3, <1>5 DEF Abstract!vars
<1>6. Receive \/ UNCHANGED <<feeder, received>>
  BY <1>1 DEF Next, vars, process, shutdown, Run, Cancel, Consume, Send, GiveUp, ReceiveClosed,
     CallNext, Process, SelectStop, SelectWork, DrainTest, DrainPush, Check, Offer, ExitClear,
     ExitDone, Close
<1> QED
  BY <1>4, <1>5, <1>6

(* The deferred function drops all but what the feeder's channel holds.    *)
LEMMA ClearStep ==
    ASSUME TypeInv, HandInv, ExitClear, Clears
    PROVE  Abstract!Stop
<1>1. ~Stopped /\ Stopped' /\ Stopping /\ feeder' = feeder
  BY DEF ExitClear, Stopped, HandInv
<1>2. UNCHANGED <<received, closed, canceled>>
  BY DEF Clears, Silent
<1> DEFINE w == Messages(work)
<1> DEFINE s == Cat(Cat(feeder, queue), w)
<1>3. feeder \in Seq(Message) /\ queue \in Seq(Message) /\ w \in Seq(Message)
  BY MessagesType DEF TypeInv, TypeOK
<1> HIDE DEF w
<1>4. Len(feeder) \in 0 .. Len(s) /\ SubSeq(s, 1, Len(feeder)) = feeder
  <2> DEFINE fq == Cat(feeder, queue)
  <2>1. /\ fq \in Seq(Message) /\ Len(fq) = Len(feeder) + Len(queue)
        /\ \A i \in 1 .. Len(feeder) + Len(queue) :
              fq[i] = IF i <= Len(feeder) THEN feeder[i] ELSE queue[i - Len(feeder)]
    BY <1>3, CatProperties
  <2> HIDE DEF fq
  <2>2. fq \in Seq(Message)
    BY <2>1
  <2>3. /\ Cat(fq, w) \in Seq(Message) /\ Len(Cat(fq, w)) = Len(fq) + Len(w)
        /\ \A i \in 1 .. Len(fq) + Len(w) :
              Cat(fq, w)[i] = IF i <= Len(fq) THEN fq[i] ELSE w[i - Len(fq)]
    BY <1>3, <2>2, CatProperties
  <2> DEFINE t == Cat(fq, w)
  <2> HIDE DEF t
  <2>4. Len(feeder) \in Nat /\ Len(queue) \in Nat /\ Len(w) \in Nat
    BY <1>3
  <2>5. \A i \in 1 .. Len(feeder) : t[i] = feeder[i]
    <3> SUFFICES ASSUME NEW i \in 1 .. Len(feeder) PROVE t[i] = feeder[i]
      OBVIOUS
    <3>1. i \in 1 .. Len(fq) + Len(w) /\ i <= Len(fq) /\ i \in 1 .. Len(feeder) + Len(queue)
      BY <2>1, <2>4
    <3> QED
      BY <2>1, <2>3, <3>1 DEF t
  <2>6. t \in Seq(Message) /\ Len(feeder) \in 0 .. Len(t)
    BY <2>1, <2>3, <2>4 DEF t
  <2> DEFINE u == SubSeq(t, 1, Len(feeder))
  <2>7. /\ u \in Seq(Message) /\ Len(u) = Len(feeder)
        /\ \A i \in 1 .. Len(feeder) : u[i] = t[i]
    <3>1. 1 \in 1 .. Len(t) + 1 /\ Len(feeder) \in 1 - 1 .. Len(t)
      BY <2>6
    <3> QED
      BY <2>4, <2>6, <3>1, SubSeqProperties
  <2> HIDE DEF u
  <2>8. u = feeder
    BY <1>3, <2>5, <2>7, SeqEqual
  <2> QED
    BY <2>6, <2>8 DEF u, t, fq
<1>5. Pipeline = s
  BY DEF Clears, w
<1> HIDE DEF s
<1>6. feeder = SubSeq(Pipeline, 1, Len(feeder))
  BY <1>4, <1>5
<1>7. Stopped = FALSE /\ Stopped' = TRUE /\ Stopping' = Stopping
  BY <1>1, <1>2 DEF Stopped, Stopping
<1> QED
  BY <1>1, <1>2, <1>6, <1>7 DEF Abstract!Stop

LEMMA RunningStep ==
    ASSUME TypeInv, TypeInv', HandInv, BacklogBounded, OrderInv, CallsInv, CallsInv',
           [Next]_vars, ~Stopped
    PROVE  [Abstract!Next]_(Abstract!vars)
<1>0. Pipeline \in Seq(Message) /\ DOMAIN Pipeline = 1 .. Len(Pipeline)
  <2>1. Pipeline \in Seq(Message)
    BY PipelineType
  <2> DEFINE s == Pipeline
  <2>2. s \in Seq(Message)
    BY <2>1
  <2> HIDE DEF s
  <2>3. DOMAIN s = 1 .. Len(s)
    BY <2>2
  <2> QED
    BY <2>1, <2>3 DEF s
<1>1. Stopping \in BOOLEAN /\ Stopping' \in BOOLEAN /\ (Stopping => Stopping')
  <2>1. /\ closed \in BOOLEAN /\ canceled \in BOOLEAN
        /\ closed' \in BOOLEAN /\ canceled' \in BOOLEAN
    BY DEF TypeInv, TypeOK
  <2>2. CASE UNCHANGED <<closed, canceled>>
    BY <2>1, <2>2 DEF Stopping
  <2>3. CASE Cancel
    BY <2>1, <2>3 DEF Cancel, Stopping
  <2>4. ASSUME NEW c \in Closer, Close(c) PROVE Stopping => Stopping'
    BY <2>1, <2>4 DEF Close, CloseSwap, CloseSignal, CloseReturn, Stopping
  <2>5. UNCHANGED <<closed, canceled>> \/ Cancel \/ \E c \in Closer : Close(c)
    BY DEF Next, vars, shutdown, Run, Consume, Send, GiveUp, Receive, ReceiveClosed, CallNext,
       Process, ExitDone
  <2>6. Stopping \in BOOLEAN /\ Stopping' \in BOOLEAN
    BY DEF Stopping
  <2>7. Stopping => Stopping'
    BY <2>2, <2>3, <2>4, <2>5
  <2> QED
    BY <2>6, <2>7
<1>2. CASE ExitClear /\ Clears
  BY <1>2, ClearStep DEF Abstract!Next
<1>3. CASE ~(ExitClear /\ Clears)
  <2>1. ~Stopped'
    <3>1. Process => ExitClear \/ ~Stopped'
      BY DEF Process, SelectStop, SelectWork, DrainTest, DrainPush, Check, Offer, Return, Stopped
    <3>2. ExitClear /\ Process => Clears
      BY ClearIs DEF Process, Silent, shutdown
    <3>3. Run => ~Stopped'
      BY DEF Run, Stopped
    <3>4. ~ExitDone
      BY DEF ExitDone, Stopped
    <3>5. Process \/ Run \/ ExitDone \/ UNCHANGED pc
      BY DEF Next, vars, process, Cancel, Consume, Send, GiveUp, Receive, ReceiveClosed,
         CallNext, Close
    <3> QED
      BY <1>3, <3>1, <3>2, <3>3, <3>4, <3>5 DEF Stopped
  <2>2. Pending = Pipeline /\ Pending' = Pipeline' /\ Stopped = FALSE /\ Stopped' = FALSE
    BY <2>1 DEF Pending, Stopped
  <2>3. CASE Keeps
    <3>1. CASE Stopping'
      BY <1>1, <2>2, <2>3, <3>1 DEF Keeps, Pending, Abstract!Next, Abstract!Close
    <3>2. CASE ~Stopping'
      BY <1>1, <2>2, <2>3, <3>2 DEF Keeps, Pending, Abstract!vars
    <3> QED
      BY <3>1, <3>2
  <2>10. CASE Hands
    <3>1. UNCHANGED <<received, Stopping>>
      BY <2>10 DEF Hands, Silent, Stopping
    <3>2. Abstract!Hand
      BY <2>2, <2>10, <3>1 DEF Hands, Abstract!Hand, Pending
    <3> QED
      BY <3>2 DEF Abstract!Next
  <2>4. CASE Accepts
    <3>1. PICK p \in Publisher :
             /\ Send(p)
             /\ Pipeline' = Append(Pipeline, [key |-> outgoing[p], id |-> accepted + 1])
             /\ accepted' = accepted + 1 /\ UNCHANGED feeder
      BY <2>4 DEF Accepts
    <3> DEFINE m == [key |-> outgoing[p], id |-> accepted + 1]
    <3>2. accepted + 1 \in 1 .. MaxMessages
      <4>1. accepted' + Cardinality(Sending') <= calls' /\ calls' <= MaxMessages
        BY DEF CallsInv
      <4>2. Cardinality(Sending') \in Nat /\ calls' \in Nat /\ accepted \in Nat
        BY FS_CardinalityType DEF CallsInv, TypeInv, TypeOK
      <4> QED
        BY <3>1, <4>1, <4>2, ConsumerAssumption
    <3>3. m \in [key : Key, id : 1 .. MaxMessages]
      BY <3>1, <3>2 DEF Send, SenderHasKey, TypeInv
    <3>4. received[m.key] < m.id /\ \A i \in DOMAIN Pipeline : Pipeline[i].id < m.id
      <4>1. \A i \in DOMAIN Pipeline : Pipeline[i].id <= accepted
        BY <1>0 DEF OrderInv, InOrder
      <4>2. \A i \in DOMAIN Pipeline : Pipeline[i].id \in Nat
        <5> DEFINE s == Pipeline
        <5>1. s \in Seq(Message)
          BY <1>0
        <5> HIDE DEF s
        <5>2. \A i \in DOMAIN s : s[i] \in Message
          BY <5>1
        <5>3. \A i \in DOMAIN s : s[i].id \in Nat
          BY <5>2 DEF Message
        <5> QED
          BY <5>3 DEF s
      <4>3. m.key \in Key /\ m.id = accepted + 1
        BY <3>3
      <4> HIDE DEF m
      <4>4. received[m.key] <= accepted /\ received[m.key] \in Nat /\ accepted \in Nat
        BY <4>3 DEF OrderInv, TypeInv, TypeOK
      <4> QED
        BY <4>1, <4>2, <4>3, <4>4
    <3>5. Pipeline' = Append(Pipeline, m)
      BY <3>1
    <3> HIDE DEF m
    <3>6. UNCHANGED <<received, Stopping>>
      BY <3>1 DEF Send, shutdown, Stopping
    <3>7. Abstract!Fresh(m)
      BY <2>2, <3>4 DEF Abstract!Fresh, Pending
    <3>8. Abstract!Accept
      BY <2>2, <3>1, <3>3, <3>5, <3>6, <3>7 DEF Abstract!Accept, Pending
    <3> QED
      BY <3>8 DEF Abstract!Next
  <2>5. CASE Receives
    <3>1. UNCHANGED Stopping
      BY <2>5 DEF Receives, Stopping
    <3>2. Abstract!Deliver
      BY <2>2, <2>5, <3>1 DEF Receives, Abstract!Deliver, Pending
    <3> QED
      BY <3>2 DEF Abstract!Next
  <2>6. CASE Discards
    <3>1. Stopping /\ UNCHANGED <<received, Stopping, feeder>>
      BY <2>6 DEF Discards, Silent, Stopping
    <3>2. \E i \in DOMAIN Pipeline :
             Len(feeder) < i /\ Pipeline' = Abstract!CutAt(Pipeline, i)
      BY <1>0, <2>6, SameCut DEF Discards
    <3>3. Abstract!Discard
      BY <2>2, <3>1, <3>2 DEF Abstract!Discard, Pending
    <3> QED
      BY <3>3 DEF Abstract!Next
  <2>7. CASE Conflates
    <3>1. UNCHANGED <<received, Stopping, feeder>>
      BY <2>7 DEF Conflates, Silent, Stopping
    <3>2. Abstract!Conflates(Len(feeder), Pipeline, Pipeline')
      BY <2>7, SameCut DEF Conflates
    <3>3. Abstract!Conflate
      BY <2>2, <3>1, <3>2 DEF Abstract!Conflate, Pending
    <3> QED
      BY <3>3 DEF Abstract!Next
  <2>8. CASE Trims
    <3>1. UNCHANGED <<received, Stopping, feeder>>
      BY <2>8 DEF Trims, Silent, Stopping
    <3>2. \/ Pipeline' = Abstract!CutAt(Pipeline, Len(feeder) + 1)
          \/ Abstract!Conflates(Len(feeder), Abstract!CutAt(Pipeline, Len(feeder) + 1), Pipeline')
      BY <1>0, <2>8, SameCut DEF Trims
    <3>3. MAX_QUEUE_DEPTH # 0 /\ Len(Pipeline) - Len(feeder) > MAX_QUEUE_DEPTH
      BY <2>8 DEF Trims
    <3>4. Abstract!Trim
      BY <2>2, <3>1, <3>2, <3>3 DEF Abstract!Trim, Pending
    <3> QED
      BY <3>4 DEF Abstract!Next
  <2> QED
    BY <1>3, <2>3, <2>4, <2>5, <2>6, <2>7, <2>8, <2>10, PipelineStep
<1> QED
  BY <1>2, <1>3

(* Between Consume and the reader the consumer is a mailbox: whatever the  *)
(* number of publishers, keys and closers and the depths of the channels,  *)
(* a message is lost only by conflation, by being the oldest of a full     *)
(* backlog or by shutdown, and none is duplicated or overtakes one of its  *)
(* key (consumer.go:117-215).                                              *)
THEOREM ConsumerIsMailbox == Spec => ImplementsMailbox
<1>1. Init => CallsInv
  BY CallsInit
<1>2. PipelineInv /\ CallsInv /\ [Next]_vars => CallsInv'
  BY CallsStep DEF PipelineInv
<1>3. PipelineInv /\ PipelineInv' /\ CallsInv /\ CallsInv' /\ [Next]_vars
        => [Abstract!Next]_(Abstract!vars)
  <2> SUFFICES ASSUME PipelineInv, PipelineInv', CallsInv, CallsInv', [Next]_vars
               PROVE  [Abstract!Next]_(Abstract!vars)
    OBVIOUS
  <2>1. /\ TypeInv /\ BacklogBounded /\ HandInv /\ OrderInv
        /\ TypeInv'
    BY DEF PipelineInv
  <2>2. CASE Stopped
    BY <2>1, <2>2, StoppedStep DEF Abstract!Next
  <2>3. CASE ~Stopped
    BY <2>1, <2>3, RunningStep
  <2> QED
    BY <2>2, <2>3
<1> QED
  BY <1>1, <1>2, <1>3, MailboxInit, PipelineInvariant, PTL DEF Spec, ImplementsMailbox, Abstract!Spec

-----------------------------------------------------------------------------
(* The queue as it is stored implements the keyed FIFO.                    *)

CONSTANTS Value, Element
VARIABLES list, entry, table, ret

Stored == INSTANCE ReplacingQueue

Contents == Stored!Contents
Entry == Stored!Entry

(* The list and the table hold the same elements: the table finds the      *)
(* element of every key that is listed, and nothing else.                  *)
Listed == list \in Seq(Element) /\ \A i, j \in DOMAIN list : list[i] = list[j] => i = j
Entered == entry \in [{list[i] : i \in DOMAIN list} -> Entry]
Tabled ==
    /\ table \in [{Contents[i].key : i \in DOMAIN list} -> Element]
    /\ \A i \in DOMAIN list : table[Contents[i].key] = list[i]
StoredInv == Listed /\ Entered /\ Tabled

(* A sequence without its element at a place.                              *)
Dropped(s, at) == [i \in 1 .. Len(s) - 1 |-> IF i < at THEN s[i] ELSE s[i + 1]]

(* What is known of the contents.                                          *)
LEMMA StoredFacts ==
    ASSUME StoredInv
    PROVE  /\ Contents \in Seq(Entry) /\ DOMAIN Contents = 1 .. Len(list) /\ Len(Contents) = Len(list)
           /\ DOMAIN list = 1 .. Len(list) /\ Len(list) \in Nat
           /\ \A i \in 1 .. Len(list) : Contents[i] = entry[list[i]] /\ Contents[i].key \in Key /\ list[i] \in Element
           /\ \A i, j \in 1 .. Len(list) : Contents[i].key = Contents[j].key => i = j
           /\ \A k : k \in DOMAIN table <=> Stored!Abstract!HasKey(Contents, k)
           /\ \A k \in DOMAIN table : \E i \in 1 .. Len(list) : Contents[i].key = k /\ table[k] = list[i]
<1>1. DOMAIN list = 1 .. Len(list) /\ Len(list) \in Nat /\ \A i \in 1 .. Len(list) : list[i] \in Element
  BY DEF StoredInv, Listed
<1>2. Contents = [i \in 1 .. Len(list) |-> entry[list[i]]]
  BY <1>1 DEF Contents, Stored!Contents
<1>3. \A i \in 1 .. Len(list) : Contents[i] = entry[list[i]] /\ Contents[i] \in Entry
  BY <1>1, <1>2 DEF StoredInv, Entered
<1>4. Contents \in Seq(Entry) /\ Len(Contents) = Len(list) /\ DOMAIN Contents = 1 .. Len(list)
  BY <1>1, <1>2, <1>3
<1>5. \A i \in 1 .. Len(list) : Contents[i].key \in Key
  BY <1>3 DEF Entry, Stored!Entry
<1>6. \A i, j \in 1 .. Len(list) : Contents[i].key = Contents[j].key => i = j
  BY <1>1 DEF StoredInv, Tabled, Listed
<1>7. DOMAIN table = {Contents[i].key : i \in 1 .. Len(list)}
  BY <1>1 DEF StoredInv, Tabled
<1>8. \A k : k \in DOMAIN table <=> Stored!Abstract!HasKey(Contents, k)
  BY <1>4, <1>7 DEF Stored!Abstract!HasKey
<1>9. \A k \in DOMAIN table : \E i \in 1 .. Len(list) : Contents[i].key = k /\ table[k] = list[i]
  BY <1>1, <1>7 DEF StoredInv, Tabled
<1> QED
  BY <1>1, <1>3, <1>4, <1>5, <1>6, <1>8, <1>9

(* The table counts the list.                                              *)
LEMMA TableCounts ==
    ASSUME StoredInv
    PROVE  Stored!Cardinality(DOMAIN table) = Len(list)
<1>1. Stored!Cardinality(DOMAIN table) = Cardinality(DOMAIN table)
  BY Zenon DEF Stored!Cardinality, Cardinality
<1> DEFINE f == [i \in 1 .. Len(list) |-> Contents[i].key]
<1>2. /\ Len(list) \in Nat /\ DOMAIN list = 1 .. Len(list)
      /\ \A i, j \in 1 .. Len(list) : Contents[i].key = Contents[j].key => i = j
      /\ \A k \in DOMAIN table : \E i \in 1 .. Len(list) : Contents[i].key = k
  BY StoredFacts
<1>3. \A i \in 1 .. Len(list) : Contents[i].key \in DOMAIN table
  BY <1>2 DEF StoredInv, Tabled
<1>4. f \in Bijection(1 .. Len(list), DOMAIN table)
  BY <1>2, <1>3 DEF Bijection, Injection, Surjection, IsInjective
<1>5. ExistsBijection(1 .. Len(list), DOMAIN table)
  BY <1>4 DEF ExistsBijection
<1>6. Cardinality(DOMAIN table) = Len(list)
  BY <1>2, <1>5, FS_CountingElements
<1> QED
  BY <1>1, <1>6
Counted == Len(Contents) = Len(list) /\ Stored!Cardinality(DOMAIN table) = Len(list)

LEMMA StoredCounted == StoredInv => Counted
BY StoredFacts, TableCounts DEF Counted

LEMMA StoredCountedNext == StoredInv' => Counted'
BY StoredCounted, PTL

(* A key is in the table or it is not, as for the contents.                *)
LEMMA TableHasKey ==
    ASSUME StoredInv, NEW k
    PROVE  (k \in DOMAIN table) = Stored!Abstract!HasKey(Contents, k)
<1>1. k \in DOMAIN table <=> \E i \in DOMAIN Contents : Contents[i].key = k
  BY StoredFacts DEF Stored!Abstract!HasKey
<1> DEFINE has == \E i \in DOMAIN Contents : Contents[i].key = k
<1>2. (k \in DOMAIN table) = has
  <2>1. CASE k \in DOMAIN table
    BY <1>1, <2>1
  <2>2. CASE k \notin DOMAIN table
    <3>1. (k \in DOMAIN table) = FALSE
      BY <2>2
    <3>2. has = FALSE
      BY <1>1, <2>2
    <3> QED
      BY <3>1, <3>2
  <2> QED
    BY <2>1, <2>2
<1> QED
  BY <1>2 DEF Stored!Abstract!HasKey

-----------------------------------------------------------------------------
(* Removal of one element.                                                 *)

LEMMA DroppedSeq ==
    ASSUME NEW S, NEW s \in Seq(S), NEW at \in 1 .. Len(s)
    PROVE  /\ Dropped(s, at) \in Seq(S) /\ Len(Dropped(s, at)) = Len(s) - 1
           /\ DOMAIN Dropped(s, at) = 1 .. Len(s) - 1
           /\ \A i \in 1 .. Len(s) - 1 : Dropped(s, at)[i] = IF i < at THEN s[i] ELSE s[i + 1]
<1>1. Len(s) - 1 \in Nat /\ \A i \in 1 .. Len(s) - 1 : i \in 1 .. Len(s) /\ i + 1 \in 1 .. Len(s)
  OBVIOUS
<1>2. \A i \in 1 .. Len(s) - 1 : s[i] \in S /\ s[i + 1] \in S
  BY <1>1
<1> QED
  BY <1>1, <1>2 DEF Dropped

LEMMA TailDrops ==
    ASSUME NEW S, NEW s \in Seq(S), s # <<>>
    PROVE  Tail(s) = Dropped(s, 1)
<1> DEFINE t == Tail(s)
<1>1. t \in Seq(S) /\ Len(t) = Len(s) - 1 /\ \A i \in 1 .. Len(t) : t[i] = s[i + 1]
  BY HeadTailProperties
<1> HIDE DEF t
<1>2. t = [i \in 1 .. Len(t) |-> t[i]]
  BY <1>1
<1>3. Dropped(s, 1) = [i \in 1 .. Len(s) - 1 |-> s[i + 1]]
  BY DEF Dropped
<1>4. t = Dropped(s, 1)
  BY <1>1, <1>2, <1>3
<1> QED
  BY <1>4 DEF t

LEMMA UnlinkDrops ==
    ASSUME Listed, NEW at \in 1 .. Len(list)
    PROVE  Stored!Unlink(list[at]) = Dropped(list, at)
<1>1. list \in Seq(Element) /\ Len(list) \in Nat /\ at \in DOMAIN list
  BY DEF Listed
<1>2. (CHOOSE i \in DOMAIN list : list[i] = list[at]) = at
  BY <1>1 DEF Listed
<1> DEFINE a == SubSeq(list, 1, at - 1)
           b == SubSeq(list, at + 1, Len(list))
<1>3. /\ a \in Seq(Element) /\ Len(a) = at - 1
      /\ \A i \in 1 .. at - 1 : a[i] = list[i]
  BY <1>1, SubSeqProperties
<1>4. /\ b \in Seq(Element) /\ Len(b) = Len(list) - at
      /\ \A i \in 1 .. Len(list) - at : b[i] = list[at + i]
  <2>1. CASE at = Len(list)
    BY <1>1, <2>1, SubSeqProperties
  <2>2. CASE at < Len(list)
    BY <1>1, <2>2, SubSeqProperties
  <2> QED
    BY <1>1, <2>1, <2>2
<1> DEFINE t == Cat(a, b)
<1>5. Stored!Unlink(list[at]) = t
  BY <1>2 DEF Stored!Unlink, Cat
<1> HIDE DEF a, b
<1>6. /\ t \in Seq(Element) /\ Len(t) = Len(a) + Len(b)
      /\ \A i \in 1 .. Len(a) + Len(b) : t[i] = IF i <= Len(a) THEN a[i] ELSE b[i - Len(a)]
  BY <1>3, <1>4, CatProperties
<1> HIDE DEF t
<1>7. Len(t) = Len(list) - 1 /\ Len(a) + Len(b) = Len(list) - 1
  BY <1>1, <1>3, <1>4, <1>6
<1>8. ASSUME NEW i \in 1 .. Len(list) - 1
      PROVE  t[i] = IF i < at THEN list[i] ELSE list[i + 1]
  <2>1. CASE i < at
    <3>1. i \in 1 .. at - 1 /\ i <= Len(a) /\ i \in 1 .. Len(a) + Len(b)
      BY <1>1, <1>3, <1>7, <2>1
    <3> QED
      BY <1>3, <1>6, <2>1, <3>1
  <2>2. CASE ~(i < at)
    <3>1. /\ i - (at - 1) \in 1 .. Len(list) - at /\ at + (i - (at - 1)) = i + 1
          /\ ~(i <= Len(a)) /\ i \in 1 .. Len(a) + Len(b) /\ i - Len(a) = i - (at - 1)
      BY <1>1, <1>3, <1>7, <2>2
    <3>2. t[i] = b[i - (at - 1)]
      BY <1>6, <3>1
    <3>3. b[i - (at - 1)] = list[at + (i - (at - 1))]
      BY <1>4, <3>1
    <3> QED
      BY <2>2, <3>1, <3>2, <3>3
  <2> QED
    BY <2>1, <2>2
<1>9. t = [i \in 1 .. Len(list) - 1 |-> t[i]]
  BY <1>6, <1>7
<1>10. t = Dropped(list, at)
  BY <1>8, <1>9 DEF Dropped
<1> QED
  BY <1>5, <1>10

(* What Without has kept of the first n items, of which one has the key,   *)
(* or none if the place is past the end.                                   *)
Kept(q, at, n) ==
    [i \in 1 .. (IF n < at THEN n ELSE n - 1) |-> IF i < at THEN q[i] ELSE q[i + 1]]

LEMMA KeptNext ==
    ASSUME NEW S, NEW q \in Seq(S), NEW at \in Nat \ {0}, NEW n \in 1 .. Len(q)
    PROVE  Kept(q, at, n) = IF n # at THEN Append(Kept(q, at, n - 1), q[n]) ELSE Kept(q, at, n - 1)
<1>0. Len(q) \in Nat /\ n \in Nat
  OBVIOUS
<1>1. CASE n < at
  <2>1. Kept(q, at, n) = [i \in 1 .. n |-> q[i]]
    BY <1>1, <1>0 DEF Kept
  <2>2. Kept(q, at, n - 1) = [i \in 1 .. n - 1 |-> q[i]]
    BY <1>1, <1>0 DEF Kept
  <2>3. Kept(q, at, n - 1) \in Seq(S) /\ Len(Kept(q, at, n - 1)) = n - 1
    BY <1>0, <2>2
  <2>4. Append(Kept(q, at, n - 1), q[n]) = [i \in 1 .. n |-> q[i]]
    BY <1>0, <2>2, <2>3
  <2>5. n # at
    BY <1>1
  <2> QED
    BY <2>1, <2>4, <2>5
<1>2. CASE n = at
  BY <1>0, <1>2 DEF Kept
<1>3. CASE n > at
  <2> DEFINE g(m) == [i \in 1 .. m |-> IF i < at THEN q[i] ELSE q[i + 1]]
  <2>1. Kept(q, at, n) = g(n - 1) /\ Kept(q, at, n - 1) = g(n - 2)
    BY <1>0, <1>3 DEF Kept
  <2>2. n - 2 \in Nat /\ g(n - 2) \in Seq(S) /\ Len(g(n - 2)) = n - 2
    BY <1>0, <1>3
  <2>3. Append(g(n - 2), q[n]) = g(n - 1)
    BY <1>0, <1>3, <2>2
  <2> HIDE DEF g
  <2>4. n # at
    BY <1>3
  <2> QED
    BY <2>1, <2>3, <2>4
<1> QED
  BY <1>0, <1>1, <1>2, <1>3

LEMMA WithoutKeeps ==
    ASSUME NEW S, NEW q \in Seq(S), NEW k, NEW at \in Nat \ {0},
           \A i \in 1 .. Len(q) : q[i].key = k <=> i = at
    PROVE  Stored!Abstract!Without(q, k) = Kept(q, at, Len(q))
<1>0. Len(q) \in Nat
  OBVIOUS
<1> DEFINE Step(g, i) == IF i = 0 THEN <<>>
                         ELSE IF q[i].key # k THEN Append(g[i - 1], q[i]) ELSE g[i - 1]
           f == [n \in 0 .. Len(q) |-> Kept(q, at, n)]
           kept == CHOOSE g : g = [i \in 0 .. Len(q) |-> Step(g, i)]
<1>1. Stored!Abstract!Without(q, k) = kept[Len(q)]
  BY DEF Stored!Abstract!Without
<1>2. ASSUME NEW n \in 0 .. Len(q) PROVE f[n] = Step(f, n)
  <2>1. CASE n = 0
    BY <2>1 DEF Kept
  <2>2. CASE n # 0
    <3>1. n \in 1 .. Len(q) /\ n - 1 \in 0 .. Len(q)
      BY <1>0, <2>2
    <3> QED
      BY <2>2, <3>1, KeptNext
  <2> QED
    BY <2>1, <2>2
<1>3. f = [i \in 0 .. Len(q) |-> Step(f, i)]
  BY <1>2
<1>4. kept = [i \in 0 .. Len(q) |-> Step(kept, i)]
  BY <1>3
<1> HIDE DEF kept, f
<1>5. \A i \in 0 .. Len(q) : kept[i] = Step(kept, i)
  BY <1>4
<1> DEFINE Odd == {i \in 0 .. Len(q) : kept[i] # f[i]}
<1>6. Odd = {}
  <2> SUFFICES ASSUME Odd # {} PROVE FALSE
    OBVIOUS
  <2>1. PICK i \in Odd : \A m \in Odd : i <= m
    <3>1. Odd \in SUBSET Nat
      OBVIOUS
    <3> HIDE DEF Odd
    <3> QED
      BY <3>1, LeastNatural
  <2>2. i # 0 => i - 1 \in 0 .. Len(q) /\ i - 1 \notin Odd
    BY <1>0, <2>1
  <2>3. i # 0 => kept[i - 1] = f[i - 1]
    BY <2>2
  <2>4. Step(kept, i) = Step(f, i)
    BY <2>3
  <2> QED
    BY <1>2, <1>5, <2>4
<1>7. kept[Len(q)] = f[Len(q)]
  BY <1>0, <1>6
<1> QED
  BY <1>0, <1>1, <1>7 DEF f

LEMMA WithoutOne ==
    ASSUME NEW S, NEW q \in Seq(S), NEW k, NEW at \in 1 .. Len(q),
           \A i \in 1 .. Len(q) : q[i].key = k <=> i = at
    PROVE  Stored!Abstract!Without(q, k) = Dropped(q, at)
<1>1. Kept(q, at, Len(q)) = Dropped(q, at)
  BY DEF Kept, Dropped
<1> QED
  BY <1>1, WithoutKeeps

LEMMA WithoutNone ==
    ASSUME NEW S, NEW q \in Seq(S), NEW k, \A i \in 1 .. Len(q) : q[i].key # k
    PROVE  Stored!Abstract!Without(q, k) = q
<1>1. Len(q) + 1 \in Nat \ {0} /\ \A i \in 1 .. Len(q) : q[i].key = k <=> i = Len(q) + 1
  OBVIOUS
<1>2. Kept(q, Len(q) + 1, Len(q)) = q
  BY DEF Kept
<1> QED
  BY <1>1, <1>2, WithoutKeeps
-----------------------------------------------------------------------------
(* What the operations do to the contents.                                 *)

(* An entry is replaced in place.                                          *)
LEMMA EntryReplaced ==
    ASSUME StoredInv, NEW k \in DOMAIN table, k \in Key, NEW v \in Value,
           entry' = [entry EXCEPT ![table[k]] = [key |-> k, value |-> v]],
           UNCHANGED <<list, table>>
    PROVE  /\ StoredInv'
           /\ Contents' = Stored!Abstract!Put(Contents, [key |-> k, value |-> v])
<1> DEFINE m == [key |-> k, value |-> v]
<1>0. m \in Entry /\ m.key = k
  BY DEF Entry, Stored!Entry
<1> HIDE DEF m
<1>1. PICK at \in 1 .. Len(list) : Contents[at].key = k /\ table[k] = list[at]
  BY StoredFacts
<1>2. /\ DOMAIN list = 1 .. Len(list) /\ DOMAIN Contents = 1 .. Len(list)
      /\ \A i \in 1 .. Len(list) : Contents[i] = entry[list[i]]
      /\ \A i, j \in 1 .. Len(list) : Contents[i].key = Contents[j].key => i = j
      /\ Stored!Abstract!HasKey(Contents, k)
  BY StoredFacts
<1>3. entry' = [entry EXCEPT ![list[at]] = m]
  BY <1>1 DEF m
<1>4. \A i \in 1 .. Len(list) : entry'[list[i]] = IF i = at THEN m ELSE Contents[i]
  BY <1>1, <1>2, <1>3 DEF StoredInv, Entered, Listed
<1>5. Contents' = [i \in 1 .. Len(list) |-> IF i = at THEN m ELSE Contents[i]]
  BY <1>2, <1>4 DEF Contents, Stored!Contents
<1>6. \A i \in 1 .. Len(list) : Contents'[i].key = Contents[i].key
  BY <1>0, <1>1, <1>5
<1>7. Listed' /\ Entered'
  <2>1. Listed'
    BY DEF StoredInv, Listed
  <2>2. Entry' = Entry
    BY DEF Entry, Stored!Entry
  <2>3. entry' \in [{list[i] : i \in DOMAIN list} -> Entry]
    BY <1>0, <1>3 DEF StoredInv, Entered
  <2> QED
    BY <2>1, <2>2, <2>3 DEF Entered
<1>8. Tabled'
  <2>1. /\ table \in [{Contents[i].key : i \in 1 .. Len(list)} -> Element]
        /\ \A i \in 1 .. Len(list) : table[Contents[i].key] = list[i]
    BY <1>2 DEF StoredInv, Tabled
  <2>2. {Contents'[i].key : i \in 1 .. Len(list)} = {Contents[i].key : i \in 1 .. Len(list)}
    BY <1>6
  <2>3. \A i \in 1 .. Len(list) : table[Contents'[i].key] = list[i]
    BY <1>6, <2>1
  <2>4. DOMAIN list' = 1 .. Len(list)
    BY <1>2
  <2> QED
    BY <2>1, <2>2, <2>3, <2>4 DEF Tabled
<1>9. Stored!Abstract!Put(Contents, m) = [i \in 1 .. Len(list) |-> IF Contents[i].key = k THEN m ELSE Contents[i]]
  BY <1>0, <1>2 DEF Stored!Abstract!Put
<1>10. \A i \in 1 .. Len(list) : Contents[i].key = k <=> i = at
  BY <1>1, <1>2
<1> QED
  BY <1>5, <1>7, <1>8, <1>9, <1>10 DEF StoredInv, m

(* An entry is pushed to the back.                                         *)
LEMMA EntryPushed ==
    ASSUME StoredInv, NEW k \in Key, k \notin DOMAIN table, NEW v \in Value, NEW el \in Stored!Garbage,
           entry' = Stored!With(entry, el, [key |-> k, value |-> v]),
           list' = Append(list, el),
           table' = Stored!With(table, k, el)
    PROVE  /\ StoredInv' /\ Len(list') = Len(list) + 1
           /\ Contents' = Stored!Abstract!Put(Contents, [key |-> k, value |-> v])
<1> DEFINE m == [key |-> k, value |-> v]
           n == Len(list) + 1
<1>0. m \in Entry /\ m.key = k /\ entry' = Stored!With(entry, el, m)
  BY DEF Entry, Stored!Entry
<1> HIDE DEF m
<1>1. /\ DOMAIN list = 1 .. Len(list) /\ Len(list) \in Nat /\ list \in Seq(Element)
      /\ DOMAIN Contents = 1 .. Len(list) /\ Contents \in Seq(Entry) /\ Len(Contents) = Len(list)
      /\ \A i \in 1 .. Len(list) : Contents[i] = entry[list[i]] /\ list[i] \in Element
      /\ ~ Stored!Abstract!HasKey(Contents, k)
  BY StoredFacts DEF StoredInv, Listed
<1>2. el \in Element /\ \A i \in 1 .. Len(list) : list[i] # el
  BY <1>1 DEF Stored!Garbage, Stored!Range
<1>3. /\ list' \in Seq(Element) /\ Len(list') = n /\ DOMAIN list' = 1 .. n
      /\ list'[n] = el /\ \A i \in 1 .. Len(list) : list'[i] = list[i]
  BY <1>1, <1>2
<1>14. /\ n \in 1 .. n /\ n \notin 1 .. Len(list)
       /\ \A i \in 1 .. n : i \in 1 .. Len(list) \/ i = n
       /\ \A i \in 1 .. Len(list) : i \in 1 .. n
  BY <1>1
<1> HIDE DEF n
<1>4. Listed'
  <2>1. \A i, j \in 1 .. Len(list) : list[i] = list[j] => i = j
    BY <1>1 DEF StoredInv, Listed
  <2>2. ASSUME NEW i \in 1 .. n, NEW j \in 1 .. n, list'[i] = list'[j] PROVE i = j
    BY <1>2, <1>3, <1>14, <2>1, <2>2
  <2> QED
    BY <1>3, <2>2 DEF Listed
<1>5. DOMAIN entry = {list[i] : i \in 1 .. Len(list)} /\ \A i \in 1 .. Len(list) : entry[list[i]] \in Entry
  BY <1>1 DEF StoredInv, Entered
<1>6. /\ DOMAIN entry' = {list[i] : i \in 1 .. Len(list)} \cup {el}
      /\ entry'[el] = m
      /\ \A i \in 1 .. Len(list) : entry'[list[i]] = entry[list[i]]
      /\ entry' = [x \in DOMAIN entry' |-> entry'[x]]
  BY <1>0, <1>2, <1>5 DEF Stored!With
<1>7. {list'[i] : i \in 1 .. n} = {list[i] : i \in 1 .. Len(list)} \cup {el}
  BY <1>3, <1>14
<1>8. Entered'
  <2>1. \A x \in DOMAIN entry' : entry'[x] \in Entry
    BY <1>0, <1>5, <1>6
  <2> QED
    BY <1>3, <1>6, <1>7, <2>1 DEF Entered, Entry, Stored!Entry
<1>9. /\ Contents' = [i \in 1 .. n |-> entry'[list'[i]]]
      /\ \A i \in 1 .. Len(list) : Contents'[i] = Contents[i]
      /\ Contents'[n] = m
  <2>1. Contents' = [i \in 1 .. n |-> entry'[list'[i]]]
    BY <1>3 DEF Contents, Stored!Contents
  <2> QED
    BY <1>1, <1>3, <1>6, <1>14, <2>1
<1>10. Contents' = Append(Contents, m)
  <2> DEFINE c == Append(Contents, m)
  <2>1. /\ c \in Seq(Entry) /\ Len(c) = n /\ c[n] = m
        /\ \A i \in 1 .. Len(list) : c[i] = Contents[i]
    BY <1>0, <1>1 DEF n
  <2> HIDE DEF c
  <2>2. c = [i \in 1 .. n |-> c[i]]
    BY <2>1
  <2>3. \A i \in 1 .. n : c[i] = Contents'[i]
    BY <1>9, <1>14, <2>1
  <2>4. Contents' = [i \in 1 .. n |-> Contents'[i]]
    BY <1>9
  <2>5. c = Contents'
    BY <2>2, <2>3, <2>4
  <2> QED
    BY <2>5 DEF c
<1>11. Tabled'
  <2>1. /\ DOMAIN table = {Contents[i].key : i \in 1 .. Len(list)}
        /\ \A i \in 1 .. Len(list) : table[Contents[i].key] = list[i]
    BY <1>1 DEF StoredInv, Tabled
  <2>2. /\ DOMAIN table' = DOMAIN table \cup {k} /\ table'[k] = el
        /\ \A x \in DOMAIN table : table'[x] = table[x]
        /\ table' = [x \in DOMAIN table' |-> table'[x]]
    BY DEF Stored!With
  <2>3. DOMAIN table' = {Contents'[i].key : i \in 1 .. n}
    <3>1. ASSUME NEW x \in DOMAIN table' PROVE \E i \in 1 .. n : x = Contents'[i].key
      <4>1. CASE x = k
        BY <1>0, <1>9, <1>14, <4>1
      <4>2. CASE x # k
        <5>1. PICK i \in 1 .. Len(list) : x = Contents[i].key
          BY <2>1, <2>2, <4>2
        <5> QED
          BY <1>9, <1>14, <5>1
      <4> QED
        BY <4>1, <4>2
    <3>2. ASSUME NEW i \in 1 .. n PROVE Contents'[i].key \in DOMAIN table'
      <4>1. CASE i = n
        BY <1>0, <1>9, <2>2, <4>1
      <4>2. CASE i \in 1 .. Len(list)
        BY <1>9, <2>1, <2>2, <4>2
      <4> QED
        BY <1>14, <4>1, <4>2
    <3> QED
      BY <3>1, <3>2
  <2>4. ASSUME NEW i \in 1 .. n PROVE table'[Contents'[i].key] = list'[i]
    <3>1. CASE i = n
      BY <1>0, <1>3, <1>9, <2>2, <3>1
    <3>2. CASE i \in 1 .. Len(list)
      <4>1. Contents'[i] = Contents[i] /\ Contents[i].key \in DOMAIN table
        BY <1>9, <2>1, <3>2
      <4> QED
        BY <1>3, <2>1, <2>2, <3>2, <4>1
    <3> QED
      BY <1>14, <3>1, <3>2
  <2>5. \A x \in DOMAIN table' : table'[x] \in Element
    <3>1. \A i \in 1 .. n : list'[i] \in Element
      BY <1>3
    <3> QED
      BY <2>3, <2>4, <3>1
  <2> QED
    BY <1>3, <2>2, <2>3, <2>4, <2>5 DEF Tabled
<1>12. Stored!Abstract!Put(Contents, m) = Append(Contents, m)
  BY <1>0, <1>1 DEF Stored!Abstract!Put
<1> QED
  BY <1>3, <1>4, <1>8, <1>10, <1>11, <1>12 DEF StoredInv, m

(* An element is unlinked and its key deleted, and it is collected.        *)
LEMMA ElementDropped ==
    ASSUME StoredInv, NEW at \in 1 .. Len(list),
           list' = Dropped(list, at),
           table' = Stored!Minus(table, Contents[at].key),
           Stored!Collect
    PROVE  StoredInv' /\ Contents' = Dropped(Contents, at)
<1> DEFINE n == Len(list) - 1
           old(i) == IF i < at THEN i ELSE i + 1
<1>1. /\ DOMAIN list = 1 .. Len(list) /\ Len(list) \in Nat /\ list \in Seq(Element)
      /\ Contents \in Seq(Entry) /\ Len(Contents) = Len(list)
      /\ \A i \in 1 .. Len(list) : Contents[i] = entry[list[i]] /\ list[i] \in Element
      /\ \A i, j \in 1 .. Len(list) : Contents[i].key = Contents[j].key => i = j
      /\ \A i, j \in 1 .. Len(list) : list[i] = list[j] => i = j
  BY StoredFacts DEF StoredInv, Listed
<1>2. /\ \A i \in 1 .. n : old(i) \in 1 .. Len(list) /\ old(i) # at
      /\ \A i, j \in 1 .. n : old(i) = old(j) => i = j
      /\ \A j \in 1 .. Len(list) : j # at => \E i \in 1 .. n : old(i) = j
  <2>1. ASSUME NEW j \in 1 .. Len(list), j # at PROVE \E i \in 1 .. n : old(i) = j
    <3>1. CASE j < at
      <4>1. j \in 1 .. n /\ old(j) = j
        BY <1>1, <3>1
      <4> QED
        BY <4>1
    <3>2. CASE j > at
      <4>1. j - 1 \in 1 .. n /\ old(j - 1) = j
        BY <1>1, <3>2
      <4> QED
        BY <4>1
    <3> QED
      BY <2>1, <3>1, <3>2
  <2> QED
    BY <1>1, <2>1
<1>3. /\ list' \in Seq(Element) /\ Len(list') = n /\ DOMAIN list' = 1 .. n
      /\ \A i \in 1 .. n : list'[i] = list[old(i)]
  <2> DEFINE d == Dropped(list, at)
  <2>1. /\ d \in Seq(Element) /\ Len(d) = Len(list) - 1 /\ DOMAIN d = 1 .. Len(list) - 1
        /\ \A i \in 1 .. Len(list) - 1 : d[i] = IF i < at THEN list[i] ELSE list[i + 1]
    <3> HIDE DEF n, old
    <3>1. list \in Seq(Element) /\ at \in 1 .. Len(list)
      BY <1>1
    <3> QED
      BY ONLY <3>1, DroppedSeq DEF d
  <2>2. list' = d
    OBVIOUS
  <2> HIDE DEF d
  <2> QED
    BY <2>1, <2>2
<1> HIDE DEF old, n
<1>4. Listed'
  <2>1. ASSUME NEW i \in 1 .. n, NEW j \in 1 .. n, list'[i] = list'[j] PROVE i = j
    BY <1>1, <1>2, <1>3, <2>1
  <2> QED
    BY <1>3, <2>1 DEF Listed
<1>5. /\ DOMAIN table = {Contents[i].key : i \in 1 .. Len(list)}
      /\ \A i \in 1 .. Len(list) : table[Contents[i].key] = list[i]
  BY <1>1 DEF StoredInv, Tabled
<1>6. /\ DOMAIN table' = DOMAIN table \ {Contents[at].key}
      /\ \A x \in DOMAIN table' : table'[x] = table[x]
      /\ table' = [x \in DOMAIN table' |-> table'[x]]
  BY DEF Stored!Minus
<1>7. DOMAIN table' = {Contents[old(i)].key : i \in 1 .. n}
  BY <1>1, <1>2, <1>5, <1>6
<1>8. \A i \in 1 .. n : table'[Contents[old(i)].key] = list[old(i)]
  BY <1>2, <1>5, <1>6, <1>7
<1>9. Stored!Range(list') \cup Stored!Range(table') = {list'[i] : i \in 1 .. n}
  <2>1. Stored!Range(table') = {list[old(i)] : i \in 1 .. n}
    <3>1. Stored!Range(table') = {table'[x] : x \in DOMAIN table'}
      BY DEF Stored!Range
    <3>2. ASSUME NEW x \in DOMAIN table' PROVE \E i \in 1 .. n : table'[x] = list[old(i)]
      BY <1>7, <1>8
    <3>3. ASSUME NEW i \in 1 .. n PROVE \E x \in DOMAIN table' : list[old(i)] = table'[x]
      <4>1. Contents[old(i)].key \in DOMAIN table'
        BY <1>7
      <4> QED
        BY <1>8, <4>1
    <3> QED
      BY <3>1, <3>2, <3>3
  <2>2. Stored!Range(list') = {list'[i] : i \in 1 .. n}
    BY <1>3 DEF Stored!Range
  <2> QED
    BY <1>3, <2>1, <2>2
<1>10. entry' = [x \in {list'[i] : i \in 1 .. n} |-> entry[x]]
  BY <1>9 DEF Stored!Collect, Stored!Restrict
<1>11. \A i \in 1 .. n : entry'[list'[i]] = Contents[old(i)]
  BY <1>1, <1>2, <1>3, <1>10
<1>12. \A i \in 1 .. n : Contents[old(i)] \in Entry
  BY <1>1, <1>2
<1>13. Entered'
  <2>1. Entry' = Entry
    BY DEF Entry, Stored!Entry
  <2>2. DOMAIN entry' = {list'[i] : i \in 1 .. n} /\ entry' = [x \in DOMAIN entry' |-> entry'[x]]
    BY <1>10
  <2>3. \A x \in DOMAIN entry' : entry'[x] \in Entry
    BY <1>11, <1>12, <2>2
  <2>4. entry' \in [{list'[i] : i \in 1 .. n} -> Entry]
    BY <2>2, <2>3
  <2> QED
    BY <1>3, <2>1, <2>4 DEF Entered
<1>14. Contents' = [i \in 1 .. n |-> Contents[old(i)]]
  <2>1. Contents' = [i \in 1 .. n |-> entry'[list'[i]]]
    BY <1>3 DEF Contents, Stored!Contents
  <2> QED
    BY <1>11, <2>1
<1>15. Tabled'
  <2>1. DOMAIN table' = {Contents'[i].key : i \in 1 .. n}
    BY <1>7, <1>14
  <2>2. \A i \in 1 .. n : table'[Contents'[i].key] = list'[i]
    BY <1>3, <1>8, <1>14
  <2>3. \A x \in DOMAIN table' : table'[x] \in Element
    BY <1>1, <1>2, <1>3, <2>1, <2>2
  <2> QED
    BY <1>3, <1>6, <2>1, <2>2, <2>3 DEF Tabled
<1>16. Contents' = Dropped(Contents, at)
  BY <1>1, <1>14 DEF Dropped, old, n
<1> QED
  BY <1>4, <1>13, <1>15, <1>16 DEF StoredInv
-----------------------------------------------------------------------------
(* Every operation is one of the keyed FIFO.                               *)

LEMMA StoredInit == Stored!Init => StoredInv /\ Stored!Abstract!Init
<1> SUFFICES ASSUME Stored!Init PROVE StoredInv /\ Stored!Abstract!Init
  OBVIOUS
<1>1. list = <<>> /\ entry = <<>> /\ table = <<>> /\ ret = Stored!None
  BY DEF Stored!Init
<1>2. Contents = <<>>
  BY <1>1 DEF Contents, Stored!Contents
<1>3. DOMAIN list = {} /\ DOMAIN entry = {} /\ DOMAIN table = {}
  BY <1>1
<1>4. Listed
  BY <1>1 DEF Listed
<1>5. Entered
  BY <1>1, <1>3 DEF Entered
<1>6. Tabled
  BY <1>1, <1>3 DEF Tabled
<1>7. Stored!Abstract!Init
  BY <1>1, <1>2 DEF Stored!Abstract!Init, Stored!None, Stored!Abstract!None, Contents
<1> QED
  BY <1>4, <1>5, <1>6, <1>7 DEF StoredInv

LEMMA EnqueueStep ==
    ASSUME StoredInv, NEW k \in Key, NEW v \in Value, Stored!Enqueue(k, v)
    PROVE  StoredInv' /\ Stored!Abstract!Enqueue([key |-> k, value |-> v])
<1> DEFINE m == [key |-> k, value |-> v]
<1>0. m.key = k
  OBVIOUS
<1> HIDE DEF m
<1>1. (k \in DOMAIN table) = Stored!Abstract!HasKey(Contents, k)
  BY TableHasKey
<1>2. CASE k \in DOMAIN table
  <2>1. /\ entry' = [entry EXCEPT ![table[k]] = [key |-> k, value |-> v]]
        /\ UNCHANGED <<list, table>>
        /\ ret' = [ok |-> TRUE, depth |-> Stored!Cardinality(DOMAIN table)]
    BY <1>2 DEF Stored!Enqueue
  <2>2. StoredInv' /\ Contents' = Stored!Abstract!Put(Contents, m)
    BY <1>2, <2>1, EntryReplaced DEF m
  <2>3. Len(Contents') = Len(list) /\ Stored!Cardinality(DOMAIN table) = Len(list)
    BY <2>1, <2>2, StoredCounted, StoredCountedNext DEF Counted
  <2>4. ret' = [ok |-> (k \in DOMAIN table), depth |-> Len(Contents')]
    BY <1>2, <2>1, <2>3
  <2>5. ret' = [ok |-> Stored!Abstract!HasKey(Contents, m.key), depth |-> Len(Contents')]
    BY <1>0, <1>1, <2>4
  <2> QED
    BY <2>2, <2>5 DEF Stored!Abstract!Enqueue, Contents, m
<1>3. CASE k \notin DOMAIN table
  <2>1. PICK el \in Stored!Garbage :
          /\ entry' = Stored!With(entry, el, [key |-> k, value |-> v])
          /\ list' = Append(list, el)
          /\ table' = Stored!With(table, k, el)
    BY <1>3 DEF Stored!Enqueue
  <2>2. StoredInv' /\ Contents' = Stored!Abstract!Put(Contents, m)
    BY <1>3, <2>1, EntryPushed DEF m
  <2>3. ret' = [ok |-> FALSE, depth |-> Stored!Cardinality(DOMAIN table')]
    BY <1>3 DEF Stored!Enqueue
  <2>4. Len(Contents') = Len(list') /\ Stored!Cardinality(DOMAIN table') = Len(list')
    BY <2>2, StoredCountedNext DEF Counted
  <2>5. ret' = [ok |-> (k \in DOMAIN table), depth |-> Len(Contents')]
    <3>1. (k \in DOMAIN table) = FALSE
      BY <1>3
    <3> QED
      BY <2>3, <2>4, <3>1
  <2>6. ret' = [ok |-> Stored!Abstract!HasKey(Contents, m.key), depth |-> Len(Contents')]
    BY <1>0, <1>1, <2>5
  <2> QED
    BY <2>2, <2>6 DEF Stored!Abstract!Enqueue, Contents, m
<1> QED
  BY <1>2, <1>3

LEMMA UpdateStep ==
    ASSUME StoredInv, NEW k \in Key, NEW v \in Value, Stored!Update(k, v)
    PROVE  StoredInv' /\ Stored!Abstract!Update([key |-> k, value |-> v])
<1> DEFINE m == [key |-> k, value |-> v]
<1>0. m.key = k
  OBVIOUS
<1> HIDE DEF m
<1>1. (k \in DOMAIN table) = Stored!Abstract!HasKey(Contents, k)
  BY TableHasKey
<1>2. UNCHANGED <<list, table>> /\ ret' = [ok |-> Stored!Abstract!HasKey(Contents, m.key)]
  BY <1>0, <1>1 DEF Stored!Update
<1>3. StoredInv' /\ Contents' = Stored!Abstract!Renew(Contents, m)
  <2>1. CASE k \in DOMAIN table
    <3>1. entry' = [entry EXCEPT ![table[k]] = [key |-> k, value |-> v]]
      BY <2>1 DEF Stored!Update
    <3>2. StoredInv' /\ Contents' = Stored!Abstract!Put(Contents, m)
      BY <1>2, <2>1, <3>1, EntryReplaced DEF m
    <3> QED
      BY <1>0, <1>1, <2>1, <3>2 DEF Stored!Abstract!Renew
  <2>2. CASE k \notin DOMAIN table
    <3>1. UNCHANGED <<list, entry, table>>
      BY <1>2, <2>2 DEF Stored!Update
    <3>2. Contents' = Contents
      BY <3>1 DEF Contents, Stored!Contents
    <3>3. StoredInv'
      BY <3>1, <3>2 DEF StoredInv, Listed, Entered, Tabled, Entry, Stored!Entry
    <3> QED
      BY <1>0, <1>1, <2>2, <3>2, <3>3 DEF Stored!Abstract!Renew
  <2> QED
    BY <2>1, <2>2
<1> QED
  BY <1>2, <1>3 DEF Stored!Abstract!Update, Contents, m

(* A step that changes nothing but the answer.                             *)
LEMMA StoredKept ==
    ASSUME StoredInv, UNCHANGED <<list, entry, table>>
    PROVE  StoredInv' /\ Contents' = Contents
<1>1. Contents' = Contents
  BY DEF Contents, Stored!Contents
<1> QED
  BY <1>1 DEF StoredInv, Listed, Entered, Tabled, Entry, Stored!Entry

LEMMA FrontIs ==
    ASSUME StoredInv
    PROVE  Stored!FrontValue =
             IF Contents = <<>> THEN Stored!Abstract!None ELSE Stored!Abstract!Found(Head(Contents).value)
<1>1. /\ Contents \in Seq(Entry) /\ Len(Contents) = Len(list) /\ list \in Seq(Element)
      /\ \A i \in 1 .. Len(list) : Contents[i] = entry[list[i]]
  BY StoredFacts DEF StoredInv, Listed
<1>2. Contents = <<>> <=> list = <<>>
  BY <1>1
<1>3. ASSUME list # <<>> PROVE Head(Contents) = entry[Head(list)]
  <2>1. 1 \in 1 .. Len(list) /\ Head(list) = list[1] /\ Head(Contents) = Contents[1]
    BY <1>1, <1>2, <1>3
  <2> QED
    BY <1>1, <2>1
<1> QED
  BY <1>2, <1>3 DEF Stored!FrontValue, Stored!None, Stored!Found, Stored!Abstract!None, Stored!Abstract!Found

LEMMA PopFrontStep ==
    ASSUME StoredInv, Stored!PopFront
    PROVE  StoredInv' /\ Contents' = Stored!Abstract!DropHead(Contents)
<1>1. /\ Contents \in Seq(Entry) /\ Len(Contents) = Len(list) /\ list \in Seq(Element)
      /\ DOMAIN list = 1 .. Len(list)
      /\ \A i \in 1 .. Len(list) : Contents[i] = entry[list[i]]
  BY StoredFacts DEF StoredInv, Listed
<1>2. Contents = <<>> <=> list = <<>>
  BY <1>1
<1>3. CASE list = <<>>
  <2>1. list' = list /\ table' = table /\ Stored!Collect
    BY <1>3 DEF Stored!PopFront
  <2>2. DOMAIN list = {} /\ DOMAIN table = {} /\ DOMAIN entry = {}
    BY <1>3 DEF StoredInv, Tabled, Entered
  <2>3. Stored!Range(list') \cup Stored!Range(table') = {}
    BY <2>1, <2>2 DEF Stored!Range
  <2>4. entry' = [x \in {} |-> entry[x]]
    BY <2>1, <2>3 DEF Stored!Collect, Stored!Restrict
  <2>5. entry' = entry
    BY <2>2, <2>4 DEF StoredInv, Entered
  <2> QED
    BY <1>2, <1>3, <2>1, <2>5, StoredKept DEF Stored!Abstract!DropHead
<1>4. CASE list # <<>>
  <2>1. 1 \in 1 .. Len(list) /\ Head(list) = list[1]
    BY <1>1, <1>4
  <2>2. list' = Dropped(list, 1) /\ table' = Stored!Minus(table, Contents[1].key) /\ Stored!Collect
    BY <1>1, <1>4, <2>1, TailDrops DEF Stored!PopFront
  <2>3. StoredInv' /\ Contents' = Dropped(Contents, 1)
    BY <2>1, <2>2, ElementDropped
  <2>4. Stored!Abstract!DropHead(Contents) = Dropped(Contents, 1)
    BY <1>1, <1>2, <1>4, TailDrops DEF Stored!Abstract!DropHead
  <2> QED
    BY <2>3, <2>4
<1> QED
  BY <1>3, <1>4

LEMMA GetStep ==
    ASSUME StoredInv, NEW k \in Key, Stored!Get(k)
    PROVE  StoredInv' /\ Stored!Abstract!Get(k)
<1>1. /\ DOMAIN Contents = 1 .. Len(list)
      /\ \A i \in 1 .. Len(list) : Contents[i] = entry[list[i]]
      /\ \A i, j \in 1 .. Len(list) : Contents[i].key = Contents[j].key => i = j
      /\ k \in DOMAIN table <=> Stored!Abstract!HasKey(Contents, k)
      /\ \A x \in DOMAIN table : \E i \in 1 .. Len(list) : Contents[i].key = x /\ table[x] = list[i]
  BY StoredFacts
<1>2. StoredInv' /\ Contents' = Contents
  BY StoredKept DEF Stored!Get
<1> DEFINE items == {Contents[i] : i \in DOMAIN Contents}
<1>3. ASSUME k \in DOMAIN table
      PROVE  (CHOOSE m \in items : m.key = k) = entry[table[k]]
  <2>1. PICK i \in 1 .. Len(list) : Contents[i].key = k /\ table[k] = list[i]
    BY <1>1, <1>3
  <2>2. Contents[i] \in items /\ \A m \in items : m.key = k => m = Contents[i]
    BY <1>1, <2>1
  <2> HIDE DEF items
  <2>3. (CHOOSE m \in items : m.key = k) = Contents[i]
    BY <2>1, <2>2
  <2> QED
    BY <1>1, <2>1, <2>3
<1>4. ret' = IF Stored!Abstract!HasKey(Contents, k)
             THEN Stored!Abstract!Found((CHOOSE m \in items : m.key = k).value)
             ELSE Stored!Abstract!None
  <2>1. ret' = IF k \in DOMAIN table THEN Stored!Found(entry[table[k]].value) ELSE Stored!None
    BY DEF Stored!Get
  <2> HIDE DEF items
  <2> QED
    BY <1>1, <1>3, <2>1 DEF Stored!None, Stored!Found, Stored!Abstract!None, Stored!Abstract!Found
<1> QED
  BY <1>2, <1>4 DEF Stored!Abstract!Get, Contents

LEMMA RemoveStep ==
    ASSUME StoredInv, NEW k \in Key, Stored!Remove(k)
    PROVE  StoredInv' /\ Stored!Abstract!Remove(k)
<1>1. /\ Contents \in Seq(Entry) /\ Len(Contents) = Len(list) /\ DOMAIN Contents = 1 .. Len(list)
      /\ DOMAIN list = 1 .. Len(list)
      /\ \A i, j \in 1 .. Len(list) : Contents[i].key = Contents[j].key => i = j
      /\ k \in DOMAIN table <=> Stored!Abstract!HasKey(Contents, k)
      /\ \A x \in DOMAIN table : \E i \in 1 .. Len(list) : Contents[i].key = x /\ table[x] = list[i]
  BY StoredFacts
<1>2. ret' = [ok |-> Stored!Abstract!HasKey(Contents, k)]
  BY TableHasKey DEF Stored!Remove
<1>3. StoredInv' /\ Contents' = Stored!Abstract!Without(Contents, k)
  <2>1. CASE k \in DOMAIN table
    <3>1. PICK at \in 1 .. Len(list) : Contents[at].key = k /\ table[k] = list[at]
      BY <1>1, <2>1
    <3>2. list' = Dropped(list, at) /\ table' = Stored!Minus(table, Contents[at].key) /\ Stored!Collect
      BY <2>1, <3>1, UnlinkDrops DEF Stored!Remove, StoredInv
    <3>3. StoredInv' /\ Contents' = Dropped(Contents, at)
      BY <3>1, <3>2, ElementDropped
    <3>4. \A i \in 1 .. Len(Contents) : Contents[i].key = k <=> i = at
      BY <1>1, <3>1
    <3>5. Stored!Abstract!Without(Contents, k) = Dropped(Contents, at)
      BY <1>1, <3>4, WithoutOne
    <3> QED
      BY <3>3, <3>5
  <2>2. CASE k \notin DOMAIN table
    <3>1. list' = list /\ table' = Stored!Minus(table, k) /\ Stored!Collect
      BY <2>2 DEF Stored!Remove
    <3>2. table' = table
      BY <2>2, <3>1 DEF Stored!Minus, StoredInv, Tabled
    <3>3. Stored!Range(list') \cup Stored!Range(table') = {list[i] : i \in DOMAIN list}
      <4>1. Stored!Range(list') = {list[i] : i \in DOMAIN list}
        BY <3>1 DEF Stored!Range
      <4>2. \A x \in DOMAIN table : table[x] \in {list[i] : i \in DOMAIN list}
        BY <1>1
      <4> QED
        BY <3>2, <4>1, <4>2 DEF Stored!Range
    <3>4. entry' = [x \in {list[i] : i \in DOMAIN list} |-> entry[x]]
      BY <3>1, <3>3 DEF Stored!Collect, Stored!Restrict
    <3>5. entry' = entry
      BY <3>4 DEF StoredInv, Entered
    <3>6. \A i \in 1 .. Len(Contents) : Contents[i].key # k
      BY <1>1, <2>2 DEF Stored!Abstract!HasKey
    <3> QED
      BY <1>1, <3>1, <3>2, <3>5, <3>6, StoredKept, WithoutNone
  <2> QED
    BY <2>1, <2>2
<1> QED
  BY <1>2, <1>3 DEF Stored!Abstract!Remove, Contents

LEMMA StoredClear ==
    ASSUME StoredInv, Stored!Clear
    PROVE  StoredInv' /\ Stored!Abstract!Clear
<1>1. list' = <<>> /\ table' = <<>> /\ Stored!Collect /\ ret' = Stored!None
  BY DEF Stored!Clear
<1>2. DOMAIN list' = {} /\ DOMAIN table' = {}
  BY <1>1
<1>3. Stored!Range(list') \cup Stored!Range(table') = {}
  BY <1>2 DEF Stored!Range
<1>4. entry' = [x \in {} |-> entry[x]]
  BY <1>1, <1>3 DEF Stored!Collect, Stored!Restrict
<1>5. Contents' = <<>>
  BY <1>1, <1>2 DEF Contents, Stored!Contents
<1>6. Listed'
  BY <1>1 DEF Listed
<1>7. Entered'
  BY <1>2, <1>4 DEF Entered
<1>8. Tabled'
  BY <1>1, <1>2 DEF Tabled
<1> QED
  BY <1>1, <1>5, <1>6, <1>7, <1>8
  DEF StoredInv, Stored!Abstract!Clear, Contents, Stored!None, Stored!Abstract!None

LEMMA StoredStep ==
    StoredInv /\ [Stored!Next]_(Stored!vars) => StoredInv' /\ [Stored!Abstract!Next]_(Stored!Abstract!vars)
<1> SUFFICES ASSUME StoredInv, [Stored!Next]_(Stored!vars)
             PROVE  StoredInv' /\ [Stored!Abstract!Next]_(Stored!Abstract!vars)
  OBVIOUS
<1>1. ASSUME NEW k \in Key, NEW v \in Value, Stored!Enqueue(k, v) \/ Stored!Update(k, v)
      PROVE  StoredInv' /\ Stored!Abstract!Next
  <2>1. [key |-> k, value |-> v] \in Stored!Abstract!Item
    BY DEF Stored!Abstract!Item
  <2> QED
    BY <1>1, <2>1, EnqueueStep, UpdateStep DEF Stored!Abstract!Next
<1>2. ASSUME NEW k \in Key, Stored!Get(k) \/ Stored!Remove(k)
      PROVE  StoredInv' /\ Stored!Abstract!Next
  BY <1>2, GetStep, RemoveStep DEF Stored!Abstract!Next
<1>3. CASE Stored!Dequeue
  <2>1. Stored!Abstract!Dequeue
    BY <1>3, PopFrontStep, FrontIs DEF Stored!Dequeue, Stored!Abstract!Dequeue, Contents
  <2> QED
    BY <1>3, <2>1, PopFrontStep DEF Stored!Dequeue, Stored!Abstract!Next
<1>4. CASE Stored!Front
  <2>1. Stored!Abstract!Front
    BY <1>4, StoredKept, FrontIs DEF Stored!Front, Stored!Abstract!Front, Contents
  <2> QED
    BY <1>4, <2>1, StoredKept DEF Stored!Front, Stored!Abstract!Next
<1>5. CASE Stored!Clear
  BY <1>5, StoredClear DEF Stored!Abstract!Next
<1>6. CASE Stored!Depth
  <2>1. Stored!Abstract!Depth
    BY <1>6, StoredKept, StoredFacts, TableCounts DEF Stored!Depth, Stored!Abstract!Depth, Contents
  <2> QED
    BY <1>6, <2>1, StoredKept DEF Stored!Depth, Stored!Abstract!Next
<1>7. CASE Stored!DropFront
  <2>1. Stored!Abstract!DropFront
    BY <1>7, PopFrontStep
    DEF Stored!DropFront, Stored!Abstract!DropFront, Contents, Stored!None, Stored!Abstract!None
  <2> QED
    BY <1>7, <2>1, PopFrontStep DEF Stored!DropFront, Stored!Abstract!Next
<1>8. CASE UNCHANGED Stored!vars
  BY <1>8, StoredKept DEF Stored!vars, Stored!Abstract!vars, Contents
<1> QED
  BY <1>1, <1>2, <1>3, <1>4, <1>5, <1>6, <1>7, <1>8 DEF Stored!Next

(* The stored queue, with its linked list and its table from keys to       *)
(* elements, behaves like a keyed FIFO for any keys and values, return     *)
(* values included (replacing_queue.go:33-128).                            *)
THEOREM QueueIsKeyedFifo == Stored!Spec => Stored!ImplementsKeyedFifo
<1>1. Stored!Init => StoredInv /\ Stored!Abstract!Init
  BY StoredInit
<1>2. StoredInv /\ [Stored!Next]_(Stored!vars)
        => StoredInv' /\ [Stored!Abstract!Next]_(Stored!Abstract!vars)
  BY StoredStep
<1> QED
  BY <1>1, <1>2, PTL DEF Stored!Spec, Stored!ImplementsKeyedFifo, Stored!Abstract!Spec

-----------------------------------------------------------------------------
(* The fan-ins.                                                            *)


CallPC ==
    {"idle", "absent", "watch", "add", "remove", "cancel", "await", "once", "lock", "cancelAll",
     "wait", "closeOut", "closeDone", "returned"}

CallRecord == [pc : CallPC, ch : Input \cup {NoInput}, w : Worker \cup {NoWorker}]

WorkerRecord ==
    [pc : {"free", "select", "send", "done"}, ch : Input \cup {NoInput}, canceled : BOOLEAN,
     value : InputValue \cup {NoValue}]

(* The program counters of the goroutine that runs the body of closeOnce.  *)
Closing == {"lock", "cancelAll", "wait", "closeOut", "closeDone"}

FanInTypeOK ==
    /\ started \in BOOLEAN /\ fanInClosed \in BOOLEAN /\ ctxDone \in BOOLEAN
    /\ workers \in [Input -> Worker \cup {NoWorker}]
    /\ once \in {"fresh", "running", "over"}
    /\ out \in Seq(InputValue) /\ Len(out) <= 1
    /\ outClosed \in BOOLEAN /\ doneClosed \in BOOLEAN
    /\ worker \in [Worker -> WorkerRecord]
    /\ thread \in [Goroutine -> CallRecord]
    /\ nextValue \in [Input -> Nat \ {0}]
    /\ lastValue \in [Input -> 0 .. MaxValues]
    /\ inputClosed \in [Input -> BOOLEAN]
    /\ delivered \in [Input -> Seq(Nat)]
    /\ cut \subseteq Input

(* What a goroutine inside a call refers to.                               *)
CallShape ==
    /\ \A t \in Goroutine :
         /\ thread[t].pc \in {"add", "remove", "cancel", "await"} => thread[t].ch \in Input
         /\ thread[t].pc \in {"cancel", "await"} => thread[t].w \in Worker
         /\ thread[t].pc \notin {"cancel", "await", "returned"} => thread[t].w = NoWorker
         /\ thread[t].pc \in {"idle", "absent", "watch", "once"} \cup Closing
              => thread[t].ch = NoInput
    /\ thread[Watcher].ch = NoInput /\ thread[Watcher].w = NoWorker
    /\ thread[Watcher].pc # "idle"
    /\ ~started => thread[Watcher].pc = "absent"

WorkerShape ==
    \A w \in Worker :
       /\ worker[w].pc = "free" => worker[w] = Free
       /\ worker[w].pc # "free" => worker[w].ch \in Input
       /\ worker[w].pc # "send" => worker[w].value = NoValue
       /\ worker[w].pc = "send" => worker[w].value \in InputValue /\ worker[w].value.ch = worker[w].ch

(* sync.Once, and what its body has done when it is at a statement.        *)
CloseProgress ==
    /\ \A t \in Goroutine :
         /\ thread[t].pc \in Closing => once = "running"
         /\ thread[t].pc \in Closing \ {"lock"} => fanInClosed
         /\ thread[t].pc \in {"closeOut", "closeDone"} => \A w \in Worker : worker[w] = Free
         /\ thread[t].pc = "closeDone" => outClosed
         /\ thread[t].pc = "returned" /\ thread[t].ch = NoInput => once = "over"
         /\ thread[t].pc = "returned" /\ thread[t].w # NoWorker => ~Working(thread[t].w)
    /\ \A t, u \in Goroutine :
         thread[t].pc \in Closing /\ thread[u].pc \in Closing => t = u
    /\ outClosed => fanInClosed /\ \A w \in Worker : worker[w] = Free
    /\ once = "over" => outClosed /\ doneClosed /\ fanInClosed

FanInInv == FanInTypeOK /\ CallShape /\ WorkerShape /\ CloseProgress

(* The worker of an input that is not removed is the registered one.       *)
WorkerOwnsInput ==
    /\ \A ch \in Input : \A w \in Worker :
         workers[ch] = w => worker[w].pc = "free" \/ worker[w].ch = ch
    /\ \A t \in Goroutine : thread[t].pc \in {"cancel", "await"} =>
         /\ thread[t].ch \in cut
         /\ worker[thread[t].w].pc = "free" \/ worker[thread[t].w].ch = thread[t].ch
    /\ \A w \in Worker : worker[w].canceled => worker[w].ch \in cut
    /\ \A ch \in Input \ cut : \A w \in Worker : worker[w].ch = ch =>
         /\ ~fanInClosed => workers[ch] = w
         /\ \A x \in Worker : worker[x].ch = ch => x = w

(* How many values of an input have left their worker.                     *)
Sent(ch) ==
    IF out # <<>> /\ Head(out).ch = ch THEN Len(delivered[ch]) + 1 ELSE Len(delivered[ch])

Flow ==
    \A ch \in Input \ cut : ~ctxDone =>
       /\ \A i \in 1 .. Len(delivered[ch]) : delivered[ch][i] = i
       /\ out # <<>> /\ Head(out).ch = ch => Head(out).n = Len(delivered[ch]) + 1
       /\ \A w \in Worker : worker[w].value.ch = ch =>
             worker[w].value.n = Sent(ch) + 1 /\ nextValue[ch] = Sent(ch) + 2
       /\ (\A w \in Worker : worker[w].value.ch # ch) => nextValue[ch] = Sent(ch) + 1

FlowInv == FanInInv /\ WorkerOwnsInput /\ Flow

(* A feeder that is not raced is known exactly when it is merged, or the   *)
(* call that makes it so is between the two mutexes.                       *)
FeederSettled ==
    \A ch \in Input \ raced : ~fanInClosed =>
       /\ Between("add", ch) => ch \in feeders /\ started /\ ~Between("remove", ch)
       /\ Between("remove", ch) => ch \notin feeders
       /\ ~Between("add", ch) /\ ~Between("remove", ch) => (ch \in feeders <=> workers[ch] # NoWorker)

FeederInv == FlowInv /\ feeders \subseteq Input /\ raced \subseteq Input /\ FeederSettled

SubscriberTypeOK ==
    /\ subscribers \subseteq Input /\ snapshot \subseteq Input /\ added \subseteq Input
    /\ unsubscribed \subseteq Input
    /\ subClosed \in BOOLEAN /\ parentDone \in BOOLEAN
    /\ unsubOnce \in {"fresh", "running", "over"}
    /\ call \in [Thread -> {"absent", "none", "waiting", "add", "release", "unsubscribe",
                            "releaseAll", "closing", "ended"}]

UnsubscribeProgress ==
    /\ \A t \in Thread :
         /\ call[t] \notin {"add", "release", "closing"} => thread[t] = Idle
         /\ call[t] \in {"add", "release"} => thread[t].ch \in Input
         /\ call[t] = "closing" => thread[t].ch = NoInput /\ snapshot = {}
         /\ call[t] \in {"releaseAll", "closing"} => unsubOnce = "running"
         /\ call[t] = "ended" => unsubOnce = "over"
    /\ \A t, u \in Thread :
         call[t] \in {"releaseAll", "closing"} /\ call[u] \in {"releaseAll", "closing"} => t = u
    /\ ~started => call[SubWatcher] = "absent"
    /\ subClosed <=> unsubOnce # "fresh"
    /\ subClosed => subscribers = {}
    /\ unsubOnce = "fresh" => snapshot = {}
    /\ unsubOnce = "over" => snapshot = {} /\ outClosed /\ doneClosed

Releasing(s) == \E t \in Thread : call[t] = "release" /\ thread[t].ch = s

AddedAreHeld ==
    \A s \in added : s \in unsubscribed \cup subscribers \cup snapshot \/ Releasing(s)

SubscriberInv == FanInInv /\ SubscriberTypeOK /\ UnsubscribeProgress /\ AddedAreHeld

-----------------------------------------------------------------------------
(* Lemmas on the steps that every action is built from.                    *)

(* A goroutine moves on to pc and keeps what it refers to; no other moves. *)
Moved(t, step) ==
    /\ thread' \in [Goroutine -> CallRecord]
    /\ thread'[t].pc = step /\ thread'[t].ch = thread[t].ch /\ thread'[t].w = thread[t].w
    /\ \A u \in Goroutine \ {t} : thread'[u] = thread[u]

(* Go, on records, is such a move.                                         *)
LEMMA GoMoves ==
    ASSUME thread \in [Goroutine -> CallRecord], NEW t \in Goroutine, NEW step \in CallPC, Go(t, step)
    PROVE  Moved(t, step)
<1> DEFINE r == [thread[t] EXCEPT !.pc = step]
<1>1. r \in CallRecord /\ r.pc = step /\ r.ch = thread[t].ch /\ r.w = thread[t].w
  BY DEF CallRecord
<1>2. thread' = [thread EXCEPT ![t] = r]
  BY DEF Go
<1> QED
  BY <1>1, <1>2 DEF Moved

(* A goroutine that gets a new record.                                     *)
LEMMA AtMoves ==
    ASSUME thread \in [Goroutine -> CallRecord], NEW t \in Goroutine,
           NEW step \in CallPC, NEW ch \in Input \cup {NoInput}, NEW w \in Worker \cup {NoWorker},
           thread' = [thread EXCEPT ![t] = At(step, ch, w)]
    PROVE  /\ thread' \in [Goroutine -> CallRecord]
           /\ thread'[t].pc = step /\ thread'[t].ch = ch /\ thread'[t].w = w
           /\ \A u \in Goroutine \ {t} : thread'[u] = thread[u]
<1>1. At(step, ch, w) \in CallRecord
  BY DEF CallRecord, At
<1> QED
  BY <1>1 DEF At

(* The goroutine of a new worker is one that nothing refers to.            *)
LEMMA NewWorkerIsUnused ==
    ASSUME \E w \in Worker : Unused(w)
    PROVE  NewWorker \in Worker /\ Unused(NewWorker)
BY DEF NewWorker

-----------------------------------------------------------------------------
LEMMA FanInInitInv == FanInInit => FanInInv
<1> SUFFICES ASSUME FanInInit PROVE FanInInv
  OBVIOUS
<1> USE FanInAssumption DEF FanInInit
<1>1. FanInTypeOK
  <2>1. Free \in WorkerRecord
    BY DEF WorkerRecord, Free
  <2>2. At("absent", NoInput, NoWorker) \in CallRecord /\ Idle \in CallRecord
    BY DEF CallRecord, CallPC, At, Idle
  <2>3. thread \in [Goroutine -> CallRecord] /\ worker \in [Worker -> WorkerRecord]
    BY <2>1, <2>2
  <2>4. out \in Seq(InputValue) /\ Len(out) <= 1 /\ delivered \in [Input -> Seq(Nat)]
    OBVIOUS
  <2>5. workers \in [Input -> Worker \cup {NoWorker}] /\ inputClosed \in [Input -> BOOLEAN]
    OBVIOUS
  <2>6. nextValue \in [Input -> Nat \ {0}] /\ lastValue \in [Input -> 0 .. MaxValues]
    OBVIOUS
  <2>7. /\ started \in BOOLEAN /\ fanInClosed \in BOOLEAN /\ ctxDone \in BOOLEAN
        /\ outClosed \in BOOLEAN /\ doneClosed \in BOOLEAN
        /\ once \in {"fresh", "running", "over"} /\ cut \subseteq Input
    OBVIOUS
  <2> HIDE DEF FanInInit
  <2> QED
    BY <2>3, <2>4, <2>5, <2>6, <2>7 DEF FanInTypeOK
<1>2. CallShape
  BY DEF CallShape, Closing, Goroutine, At, Idle
<1>3. WorkerShape
  BY DEF WorkerShape, Free
<1>4. CloseProgress
  BY DEF CloseProgress, Closing, Goroutine, At, Idle
<1> QED
  BY <1>1, <1>2, <1>3, <1>4 DEF FanInInv

-----------------------------------------------------------------------------
(* Every step of the fan-in keeps the invariant.                           *)

LEMMA RunInv == FanInInv /\ RunFanIn => FanInInv'
<1> SUFFICES ASSUME FanInInv, RunFanIn PROVE FanInInv'
  OBVIOUS
<1> USE FanInAssumption DEF output, inputs, history, FanInInv
<1>0. Moved(Watcher, "watch")
  BY GoMoves DEF RunFanIn, FanInTypeOK, Goroutine, CallPC
<1>1. FanInTypeOK'
  BY <1>0 DEF RunFanIn, FanInTypeOK, Moved
<1>2. CallShape'
  BY <1>0 DEF RunFanIn, CallShape, Closing, Goroutine, Moved
<1>3. WorkerShape'
  BY DEF RunFanIn, WorkerShape
<1>4. CloseProgress'
  BY <1>0 DEF RunFanIn, CallShape, CloseProgress, Closing, Goroutine, Working, Moved
<1> QED
  BY <1>1, <1>2, <1>3, <1>4

LEMMA WatchInv == FanInInv /\ Watch => FanInInv'
<1> SUFFICES ASSUME FanInInv, Watch PROVE FanInInv'
  OBVIOUS
<1> USE FanInAssumption DEF base, output, inputs, history, FanInInv
<1>0. Moved(Watcher, "once")
  BY GoMoves DEF Watch, FanInTypeOK, Goroutine, CallPC
<1>1. FanInTypeOK'
  BY <1>0 DEF Watch, FanInTypeOK, Moved
<1>2. CallShape'
  BY <1>0 DEF Watch, CallShape, Closing, Goroutine, Moved
<1>3. WorkerShape'
  BY DEF Watch, WorkerShape
<1>4. CloseProgress'
  BY <1>0 DEF Watch, CallShape, CloseProgress, Closing, Goroutine, Working, Moved
<1> QED
  BY <1>1, <1>2, <1>3, <1>4

LEMMA AddInputInv ==
    ASSUME FanInInv, NEW t \in Goroutine, AddInput(t)
    PROVE  FanInInv'
<1> USE FanInAssumption DEF output, inputs, history, FanInInv
<1> DEFINE ch == thread[t].ch
<1> DEFINE r == [Free EXCEPT !.pc = "select", !.ch = ch]
<1>0. Moved(t, "returned")
  BY GoMoves DEF AddInput, FanInTypeOK, CallPC
<1>1. CASE UNCHANGED <<worker, workers>>
  <2>1. FanInTypeOK'
    BY <1>0, <1>1 DEF AddInput, FanInTypeOK, Moved
  <2>2. CallShape'
    BY <1>0, <1>1 DEF AddInput, CallShape, Closing, Goroutine, Moved
  <2>3. WorkerShape'
    BY <1>1 DEF WorkerShape
  <2>4. CloseProgress'
    BY <1>0, <1>1 DEF AddInput, CallShape, CloseProgress, Closing, Working, Moved
  <2> QED
    BY <2>1, <2>2, <2>3, <2>4
<1>2. CASE ~UNCHANGED <<worker, workers>>
  <2>1. /\ started /\ ~fanInClosed /\ NewWorker \in Worker /\ Unused(NewWorker)
        /\ worker' = [worker EXCEPT ![NewWorker] = r]
        /\ workers' = [workers EXCEPT ![ch] = NewWorker]
    BY <1>2, NewWorkerIsUnused DEF AddInput
  <2>2. r \in WorkerRecord /\ ch \in Input /\ r.pc = "select" /\ r.ch = ch /\ r.value = NoValue
    BY DEF AddInput, WorkerRecord, Free, CallShape
  <2> HIDE DEF r
  <2>3. FanInTypeOK'
    BY <1>0, <2>1, <2>2 DEF AddInput, FanInTypeOK, Moved
  <2>4. CallShape'
    BY <1>0 DEF AddInput, CallShape, Closing, Goroutine, Moved
  <2>5. WorkerShape'
    BY <2>1, <2>2 DEF WorkerShape, FanInTypeOK
  <2>6. CloseProgress'
    <3>1. \A u \in Goroutine : thread[u].pc \notin {"closeOut", "closeDone"}
      BY <2>1 DEF CloseProgress, Closing
    <3>2. \A u \in Goroutine : thread'[u].w # NewWorker
      BY <1>0, <2>1 DEF Unused, Moved
    <3>3. \A w \in Worker \ {NewWorker} : worker'[w] = worker[w]
      BY <2>1 DEF FanInTypeOK
    <3>4. \A u \in Goroutine : thread[u].w \in Worker \cup {NoWorker}
      BY DEF FanInTypeOK, CallRecord
    <3> QED
      BY <1>0, <2>1, <3>1, <3>2, <3>3, <3>4
         DEF AddInput, CallShape, CloseProgress, Closing, Working, Moved
  <2> QED
    BY <2>3, <2>4, <2>5, <2>6
<1> QED
  BY <1>1, <1>2

LEMMA RemoveInv ==
    ASSUME FanInInv, NEW t \in Goroutine, RemoveLookup(t) \/ RemoveCancel(t) \/ RemoveAwait(t)
    PROVE  FanInInv'
<1> USE FanInAssumption DEF base, output, inputs, history, FanInInv
<1>1. CASE RemoveLookup(t)
  <2> DEFINE ch == thread[t].ch
  <2>1. ch \in Input /\ t # Watcher /\ thread[t].pc = "remove"
    BY <1>1 DEF RemoveLookup, CallShape
  <2>2. \/ Moved(t, "returned") /\ workers' = workers /\ cut' = cut
        \/ /\ workers[ch] \in Worker
           /\ workers' = [workers EXCEPT ![ch] = NoWorker]
           /\ cut' = cut \cup {ch}
           /\ thread' \in [Goroutine -> CallRecord]
           /\ thread'[t].pc = "cancel" /\ thread'[t].ch = ch /\ thread'[t].w = workers[ch]
           /\ \A u \in Goroutine \ {t} : thread'[u] = thread[u]
    BY <1>1, <2>1, GoMoves, AtMoves DEF RemoveLookup, FanInTypeOK, CallPC
  <2> HIDE DEF ch
  <2>3. FanInTypeOK'
    BY <1>1, <2>1, <2>2 DEF RemoveLookup, FanInTypeOK, Moved
  <2>4. CallShape'
    BY <1>1, <2>1, <2>2 DEF RemoveLookup, CallShape, Closing, Goroutine, Moved, ch
  <2>5. WorkerShape'
    BY <1>1 DEF RemoveLookup, WorkerShape
  <2>6. CloseProgress'
    BY <1>1, <2>1, <2>2 DEF RemoveLookup, CallShape, CloseProgress, Closing, Working, Moved, ch
  <2> QED
    BY <2>3, <2>4, <2>5, <2>6
<1>2. CASE RemoveCancel(t)
  <2> DEFINE w == thread[t].w
  <2> DEFINE b == worker[w].canceled \/ worker[w] # Free
  <2> DEFINE r == [worker[w] EXCEPT !.canceled = b]
  <2>0. Moved(t, "await") /\ thread[t].pc = "cancel" /\ w \in Worker
    BY <1>2, GoMoves DEF RemoveCancel, FanInTypeOK, CallPC, CallShape
  <2>1. worker' = [worker EXCEPT ![w] = r]
    BY <1>2 DEF RemoveCancel
  <2>2. /\ r \in WorkerRecord /\ r.pc = worker[w].pc /\ r.ch = worker[w].ch
        /\ r.value = worker[w].value /\ (worker[w] = Free => r = Free)
    <3>1. b \in BOOLEAN
      OBVIOUS
    <3>2. worker[w] = Free => b = FALSE
      BY DEF Free
    <3>3. worker[w] \in WorkerRecord
      BY <2>0 DEF FanInTypeOK
    <3> HIDE DEF b
    <3> QED
      BY <3>1, <3>2, <3>3 DEF WorkerRecord, Free
  <2> HIDE DEF r
  <2>3. FanInTypeOK'
    BY <1>2, <2>0, <2>1, <2>2 DEF RemoveCancel, FanInTypeOK, Moved
  <2>4. CallShape'
    BY <1>2, <2>0 DEF RemoveCancel, CallShape, Closing, Goroutine, Moved
  <2>5. WorkerShape'
    BY <2>0, <2>1, <2>2 DEF WorkerShape, FanInTypeOK
  <2>6. CloseProgress'
    <3>1. \A x \in Worker : /\ worker[x] = Free => worker'[x] = Free
                            /\ worker'[x].pc = worker[x].pc
      BY <2>0, <2>1, <2>2 DEF FanInTypeOK
    <3>2. \A u \in Goroutine : thread[u].w \in Worker \cup {NoWorker}
      BY DEF FanInTypeOK, CallRecord
    <3> QED
      BY <1>2, <2>0, <3>1, <3>2
         DEF RemoveCancel, CallShape, CloseProgress, Closing, Working, Moved
  <2> QED
    BY <2>3, <2>4, <2>5, <2>6
<1>3. CASE RemoveAwait(t)
  <2>0. Moved(t, "returned")
    BY <1>3, GoMoves DEF RemoveAwait, FanInTypeOK, CallPC
  <2>1. FanInTypeOK'
    BY <1>3, <2>0 DEF RemoveAwait, FanInTypeOK, Moved
  <2>2. CallShape'
    BY <1>3, <2>0 DEF RemoveAwait, CallShape, Closing, Goroutine, Moved
  <2>3. WorkerShape'
    BY <1>3 DEF RemoveAwait, WorkerShape
  <2>4. CloseProgress'
    BY <1>3, <2>0 DEF RemoveAwait, CallShape, CloseProgress, Closing, Working, Moved
  <2> QED
    BY <2>1, <2>2, <2>3, <2>4
<1> QED
  BY <1>1, <1>2, <1>3

LEMMA CloseInv ==
    ASSUME FanInInv, NEW t \in Goroutine,
           \/ CloseOnce(t) \/ CloseLock(t) \/ CloseCancel(t)
           \/ CloseWait(t) \/ CloseOut(t) \/ CloseDone(t)
    PROVE  FanInInv'
<1> USE FanInAssumption DEF base, output, inputs, history, FanInInv
<1>1. CASE CloseOnce(t)
  <2>0. \/ once = "fresh" /\ once' = "running" /\ Moved(t, "lock")
        \/ once = "over" /\ once' = once /\ Moved(t, "returned")
    BY <1>1, GoMoves DEF CloseOnce, FanInTypeOK, CallPC
  <2>1. FanInTypeOK'
    BY <1>1, <2>0 DEF CloseOnce, FanInTypeOK, Moved
  <2>2. CallShape'
    BY <1>1, <2>0 DEF CloseOnce, CallShape, Closing, Goroutine, Moved
  <2>3. WorkerShape'
    BY <1>1 DEF CloseOnce, WorkerShape
  <2>4. CloseProgress'
    BY <1>1, <2>0 DEF CloseOnce, CallShape, CloseProgress, Closing, Working, Moved
  <2> QED
    BY <2>1, <2>2, <2>3, <2>4
<1>2. CASE CloseLock(t)
  <2>0. Moved(t, "wait") \/ Moved(t, "cancelAll")
    BY <1>2, GoMoves DEF CloseLock, FanInTypeOK, CallPC
  <2>1. FanInTypeOK'
    BY <1>2, <2>0 DEF CloseLock, FanInTypeOK, Moved
  <2>2. CallShape'
    BY <1>2, <2>0 DEF CloseLock, CallShape, Closing, Goroutine, Moved
  <2>3. WorkerShape'
    BY <1>2 DEF CloseLock, WorkerShape
  <2>4. CloseProgress'
    BY <1>2, <2>0 DEF CloseLock, CallShape, CloseProgress, Closing, Working, Moved
  <2> QED
    BY <2>1, <2>2, <2>3, <2>4
<1>3. CASE CloseCancel(t)
  <2>0. Moved(t, "wait")
    BY <1>3, GoMoves DEF CloseCancel, FanInTypeOK, CallPC
  <2>1. FanInTypeOK'
    BY <1>3, <2>0 DEF CloseCancel, FanInTypeOK, Moved
  <2>2. CallShape'
    BY <1>3, <2>0 DEF CloseCancel, CallShape, Closing, Goroutine, Moved
  <2>3. WorkerShape'
    BY <1>3 DEF CloseCancel, WorkerShape
  <2>4. CloseProgress'
    BY <1>3, <2>0 DEF CloseCancel, CallShape, CloseProgress, Closing, Working, Moved
  <2> QED
    BY <2>1, <2>2, <2>3, <2>4
<1>4. CASE CloseWait(t)
  <2>0. Moved(t, "closeOut")
    BY <1>4, GoMoves DEF CloseWait, FanInTypeOK, CallPC
  <2>1. FanInTypeOK'
    BY <1>4, <2>0 DEF CloseWait, FanInTypeOK, Moved
  <2>2. CallShape'
    BY <1>4, <2>0 DEF CloseWait, CallShape, Closing, Goroutine, Moved
  <2>3. WorkerShape'
    BY <1>4 DEF CloseWait, WorkerShape
  <2>4. CloseProgress'
    BY <1>4, <2>0 DEF CloseWait, CallShape, CloseProgress, Closing, Working, Moved
  <2> QED
    BY <2>1, <2>2, <2>3, <2>4
<1>5. CASE CloseOut(t)
  <2>0. Moved(t, "closeDone")
    BY <1>5, GoMoves DEF CloseOut, FanInTypeOK, CallPC
  <2>1. FanInTypeOK'
    BY <1>5, <2>0 DEF CloseOut, FanInTypeOK, Moved
  <2>2. CallShape'
    BY <1>5, <2>0 DEF CloseOut, CallShape, Closing, Goroutine, Moved
  <2>3. WorkerShape'
    BY <1>5 DEF CloseOut, WorkerShape
  <2>4. CloseProgress'
    BY <1>5, <2>0 DEF CloseOut, CallShape, CloseProgress, Closing, Working, Moved
  <2> QED
    BY <2>1, <2>2, <2>3, <2>4
<1>6. CASE CloseDone(t)
  <2>0. Moved(t, "returned")
    BY <1>6, GoMoves DEF CloseDone, FanInTypeOK, CallPC
  <2>1. FanInTypeOK'
    BY <1>6, <2>0 DEF CloseDone, FanInTypeOK, Moved
  <2>2. CallShape'
    BY <1>6, <2>0 DEF CloseDone, CallShape, Closing, Goroutine, Moved
  <2>3. WorkerShape'
    BY <1>6 DEF CloseDone, WorkerShape
  <2>4. CloseProgress'
    BY <1>6, <2>0 DEF CloseDone, CallShape, CloseProgress, Closing, Working, Moved
  <2> QED
    BY <2>1, <2>2, <2>3, <2>4
<1> QED
  BY <1>1, <1>2, <1>3, <1>4, <1>5, <1>6

(* A worker that moves on; it stays the worker of its input.               *)
LEMMA WorkerMoves ==
    ASSUME FanInInv, NEW w \in Worker, NEW r \in WorkerRecord,
           worker' = [worker EXCEPT ![w] = r], UNCHANGED <<base, thread, once, outClosed, doneClosed>>,
           worker[w].pc # "free",
           r.pc = "free" => r = Free,
           r.pc # "free" => r.ch \in Input,
           r.pc # "send" => r.value = NoValue,
           r.pc = "send" => r.value \in InputValue /\ r.value.ch = r.ch,
           r.pc \in {"select", "send"} => worker[w].pc \in {"select", "send"}
    PROVE  CallShape' /\ WorkerShape' /\ CloseProgress'
<1> USE FanInAssumption DEF base, FanInInv
<1>1. CallShape'
  BY DEF CallShape
<1>2. \A x \in Worker : worker'[x] = IF x = w THEN r ELSE worker[x]
  BY DEF FanInTypeOK
<1>3. WorkerShape'
  BY <1>2 DEF WorkerShape
<1>4. CloseProgress'
  <2>1. \A u \in Goroutine : thread[u].w \in Worker \cup {NoWorker}
    BY DEF FanInTypeOK, CallRecord
  <2>2. worker[w] # Free
    BY DEF Free
  <2>3. ~outClosed /\ \A u \in Goroutine : thread[u].pc \notin {"closeOut", "closeDone"}
    BY <2>2 DEF CloseProgress
  <2> QED
    BY <1>2, <2>1, <2>2, <2>3 DEF CloseProgress, Working
<1> QED
  BY <1>1, <1>3, <1>4

LEMMA WorkerStepInv ==
    ASSUME FanInInv, NEW w \in Worker, WorkerStep(w)
    PROVE  FanInInv'
<1> USE FanInAssumption DEF base, output, inputs, history
<1>0. worker[w] \in WorkerRecord /\ FanInTypeOK /\ WorkerShape
  BY DEF FanInInv, FanInTypeOK
<1>1. CASE WorkerReceive(w)
  <2> DEFINE ch == worker[w].ch
  <2> DEFINE v == [ch |-> ch, n |-> nextValue[ch]]
  <2> DEFINE r == [worker[w] EXCEPT !.pc = "send", !.value = v]
  <2>1. ch \in Input /\ nextValue[ch] \in 1 .. MaxValues /\ worker[w].pc = "select"
    BY <1>0, <1>1 DEF WorkerReceive, WorkerShape, FanInTypeOK
  <2>2. v \in InputValue /\ v.ch = ch
    BY <2>1 DEF InputValue
  <2> HIDE DEF v
  <2>3. r \in WorkerRecord /\ r.pc = "send" /\ r.ch = ch /\ r.value = v
    BY <1>0, <2>2 DEF WorkerRecord
  <2>4. worker' = [worker EXCEPT ![w] = r]
    BY <1>1 DEF WorkerReceive, v
  <2>5. nextValue' \in [Input -> Nat \ {0}]
    BY <1>0, <1>1, <2>1 DEF WorkerReceive, FanInTypeOK
  <2> HIDE DEF r
  <2>6. FanInTypeOK'
    <3>1. worker' \in [Worker -> WorkerRecord]
      BY <1>0, <2>3, <2>4 DEF FanInTypeOK
    <3>2. UNCHANGED <<base, output, thread, lastValue, inputClosed, history>>
      BY <1>1 DEF WorkerReceive
    <3> QED
      BY <1>0, <2>5, <3>1, <3>2 DEF FanInTypeOK
  <2>7. CallShape' /\ WorkerShape' /\ CloseProgress'
    BY <1>1, <2>1, <2>2, <2>3, <2>4, WorkerMoves DEF WorkerReceive
  <2> QED
    BY <2>6, <2>7 DEF FanInInv
<1>2. CASE WorkerSend(w)
  <2> DEFINE r == [worker[w] EXCEPT !.pc = "select", !.value = NoValue]
  <2>1. worker[w].pc = "send" /\ worker[w].value \in InputValue /\ worker[w].ch \in Input
    BY <1>0, <1>2 DEF WorkerSend, WorkerShape
  <2>2. r \in WorkerRecord /\ r.pc = "select" /\ r.ch = worker[w].ch /\ r.value = NoValue
    BY <1>0 DEF WorkerRecord
  <2>3. worker' = [worker EXCEPT ![w] = r]
    BY <1>2 DEF WorkerSend
  <2>4. out' \in Seq(InputValue) /\ Len(out') <= 1
    BY <1>0, <1>2, <2>1 DEF WorkerSend, FanInTypeOK
  <2> HIDE DEF r
  <2>5. FanInTypeOK'
    BY <1>0, <1>2, <2>2, <2>3, <2>4 DEF WorkerSend, FanInTypeOK
  <2>6. CallShape' /\ WorkerShape' /\ CloseProgress'
    BY <1>2, <2>1, <2>2, <2>3, WorkerMoves DEF WorkerSend
  <2> QED
    BY <2>5, <2>6 DEF FanInInv
<1>3. CASE WorkerReturn(w)
  <2> DEFINE r == [worker[w] EXCEPT !.pc = "done", !.value = NoValue]
  <2>1. worker[w].pc \in {"select", "send"} /\ worker[w].ch \in Input
    BY <1>0, <1>3 DEF WorkerReturn, WorkerShape
  <2>2. r \in WorkerRecord /\ r.pc = "done" /\ r.ch = worker[w].ch /\ r.value = NoValue
    BY <1>0 DEF WorkerRecord
  <2>3. worker' = [worker EXCEPT ![w] = r]
    BY <1>3 DEF WorkerReturn
  <2> HIDE DEF r
  <2>4. FanInTypeOK'
    BY <1>0, <1>3, <2>2, <2>3 DEF WorkerReturn, FanInTypeOK
  <2>5. CallShape' /\ WorkerShape' /\ CloseProgress'
    BY <1>3, <2>1, <2>2, <2>3, WorkerMoves DEF WorkerReturn
  <2> QED
    BY <2>4, <2>5 DEF FanInInv
<1>4. CASE WorkerGone(w)
  <2>1. Free \in WorkerRecord /\ Free.pc = "free" /\ Free.value = NoValue
    BY DEF Free, WorkerRecord
  <2>2. FanInTypeOK'
    BY <1>0, <1>4, <2>1 DEF WorkerGone, FanInTypeOK
  <2>3. CallShape' /\ WorkerShape' /\ CloseProgress'
    BY <1>4, <2>1, WorkerMoves DEF WorkerGone
  <2> QED
    BY <2>2, <2>3 DEF FanInInv
<1> QED
  BY <1>1, <1>2, <1>3, <1>4 DEF WorkerStep

(* The context, the reader and the inputs disturb only the types.          *)
LEMMA EnvironmentInv ==
    ASSUME FanInInv, CancelRun \/ ReadOutput \/ \E ch \in Input : CloseInput(ch)
    PROVE  FanInInv'
<1> USE FanInAssumption DEF base, output, inputs, history, FanInInv
<1>1. UNCHANGED <<started, fanInClosed, workers, once, outClosed, doneClosed, worker, thread>>
  BY DEF CancelRun, ReadOutput, CloseInput
<1>2. FanInTypeOK'
  <2>1. CASE CancelRun
    BY <2>1 DEF CancelRun, FanInTypeOK
  <2>2. CASE ReadOutput
    <3>1. Head(out) \in InputValue /\ Tail(out) \in Seq(InputValue) /\ Len(Tail(out)) <= 1
      BY <2>2 DEF ReadOutput, FanInTypeOK
    <3>2. Head(out).ch \in Input /\ Head(out).n \in Nat
      BY <3>1 DEF InputValue
    <3>3. delivered' \in [Input -> Seq(Nat)]
      BY <2>2, <3>2 DEF ReadOutput, FanInTypeOK
    <3> QED
      BY <2>2, <3>1, <3>3 DEF ReadOutput, FanInTypeOK
  <2>3. ASSUME NEW ch \in Input, CloseInput(ch) PROVE FanInTypeOK'
    <3>1. PICK n \in nextValue[ch] - 1 .. lastValue[ch] : lastValue' = [lastValue EXCEPT ![ch] = n]
      BY <2>3 DEF CloseInput
    <3>2. n \in 0 .. MaxValues
      BY DEF FanInTypeOK
    <3> QED
      BY <2>3, <3>1, <3>2 DEF CloseInput, FanInTypeOK
  <2> QED
    BY <2>1, <2>2, <2>3
<1>3. CallShape' /\ WorkerShape' /\ CloseProgress'
  BY <1>1 DEF CallShape, WorkerShape, CloseProgress, Working
<1> QED
  BY <1>2, <1>3

(* A goroutine that is in no call makes one, or returns from its call.     *)
LEMMA CallInv ==
    ASSUME FanInInv, NEW t \in Thread, NEW step \in CallPC, NEW ch \in Input \cup {NoInput},
           Call(t, step, ch),
           \/ step \in {"add", "remove", "returned"} /\ ch \in Input
           \/ step = "once" /\ ch = NoInput
    PROVE  FanInInv'
<1> USE FanInAssumption DEF base, output, inputs, history, FanInInv
<1>1. /\ thread' \in [Goroutine -> CallRecord]
      /\ thread'[t].pc = step /\ thread'[t].ch = ch /\ thread'[t].w = NoWorker
      /\ \A u \in Goroutine \ {t} : thread'[u] = thread[u]
  <2>1. t \in Goroutine /\ thread \in [Goroutine -> CallRecord]
    BY DEF Goroutine, FanInTypeOK
  <2> QED
    BY <2>1, AtMoves DEF Call
<1>2. FanInTypeOK'
  BY <1>1 DEF Call, FanInTypeOK
<1>3. CallShape'
  BY <1>1 DEF Call, CallShape, Closing, Goroutine
<1>4. WorkerShape'
  BY DEF Call, WorkerShape
<1>5. CloseProgress'
  BY <1>1 DEF Call, CallShape, CloseProgress, Closing, Goroutine, Working
<1> QED
  BY <1>2, <1>3, <1>4, <1>5

LEMMA ReturnInv ==
    ASSUME FanInInv, NEW t \in Thread, thread[t].pc = "returned",
           thread' = [thread EXCEPT ![t] = Idle],
           UNCHANGED <<base, output, worker, nextValue, history>>,
           lastValue' \in [Input -> 0 .. MaxValues], inputClosed' \in [Input -> BOOLEAN]
    PROVE  FanInInv'
<1> USE FanInAssumption DEF base, output, history, FanInInv
<1>1. /\ thread' \in [Goroutine -> CallRecord]
      /\ thread'[t].pc = "idle" /\ thread'[t].ch = NoInput /\ thread'[t].w = NoWorker
      /\ \A u \in Goroutine \ {t} : thread'[u] = thread[u]
  BY AtMoves DEF Idle, FanInTypeOK, Goroutine, CallPC
<1>2. FanInTypeOK'
  BY <1>1 DEF FanInTypeOK
<1>3. CallShape'
  BY <1>1 DEF CallShape, Closing, Goroutine
<1>4. WorkerShape'
  BY DEF WorkerShape
<1>5. CloseProgress'
  BY <1>1 DEF CallShape, CloseProgress, Closing, Goroutine, Working
<1> QED
  BY <1>2, <1>3, <1>4, <1>5

LEMMA FanInStepInv == FanInInv /\ FanInStep => FanInInv'
<1> SUFFICES ASSUME FanInInv, FanInStep PROVE FanInInv'
  OBVIOUS
<1>1. CASE RunFanIn
  BY <1>1, RunInv
<1>2. CASE Watch
  BY <1>2, WatchInv
<1>3. CASE CancelRun \/ ReadOutput \/ \E ch \in Input : CloseInput(ch)
  BY <1>3, EnvironmentInv
<1>4. CASE \E t \in Goroutine : CallerStep(t)
  BY <1>4, AddInputInv, RemoveInv, CloseInv DEF CallerStep
<1>5. CASE \E w \in Worker : WorkerStep(w)
  BY <1>5, WorkerStepInv
<1> QED
  BY <1>1, <1>2, <1>3, <1>4, <1>5 DEF FanInStep

(* The invariant says what the doc comments promise.                       *)
LEMMA InvIsBarrier == FanInInv => ReturnIsBarrier
<1> SUFFICES ASSUME FanInInv PROVE ReturnIsBarrier
  OBVIOUS
<1>1. Free.pc = "free"
  BY DEF Free
<1> QED
  BY <1>1 DEF FanInInv, CloseProgress, ReturnIsBarrier, Working

-----------------------------------------------------------------------------
(* What a step of a caller does to the callers.                            *)
LEMMA CallerMoves ==
    ASSUME FanInInv, NEW t \in Goroutine, CallerStep(t)
    PROVE  /\ \A u \in Goroutine \ {t} : thread'[u] = thread[u]
           /\ thread'[t].ch = thread[t].ch
           /\ thread[t].pc \notin {"idle", "absent", "watch", "returned"}
           /\ thread'[t].pc \notin {"idle", "absent", "watch", "add", "remove"}
           /\ UNCHANGED <<started, inputs, delivered, out>>
<1> USE DEF base, output, inputs, history
<1>0. thread \in [Goroutine -> CallRecord]
  BY DEF FanInInv, FanInTypeOK
<1>1. CASE AddInput(t)
  BY <1>0, <1>1, GoMoves DEF AddInput, CallPC, Moved
<1>2. CASE RemoveLookup(t)
  <2>1. /\ thread[t].ch \in Input
        /\ workers[thread[t].ch] \in Worker \cup {NoWorker}
    BY <1>2 DEF RemoveLookup, FanInInv, FanInTypeOK, CallShape
  <2> QED
    BY <1>0, <1>2, <2>1, GoMoves, AtMoves DEF RemoveLookup, CallPC, Moved
<1>3. CASE RemoveCancel(t) \/ RemoveAwait(t)
  BY <1>0, <1>3, GoMoves DEF RemoveCancel, RemoveAwait, CallPC, Moved
<1>4. CASE CloseOnce(t)
  BY <1>0, <1>4, GoMoves DEF CloseOnce, CallPC, Moved
<1>5. CASE CloseLock(t)
  <2>1. Moved(t, "wait") \/ Moved(t, "cancelAll")
    BY <1>0, <1>5, GoMoves DEF CloseLock, CallPC
  <2> QED
    BY <1>5, <2>1 DEF CloseLock, Moved
<1>6. CASE CloseCancel(t) \/ CloseWait(t)
  BY <1>0, <1>6, GoMoves DEF CloseCancel, CloseWait, CallPC, Moved
<1>7. CASE CloseOut(t) \/ CloseDone(t)
  BY <1>0, <1>7, GoMoves DEF CloseOut, CloseDone, CallPC, Moved
<1> QED
  BY <1>1, <1>2, <1>3, <1>4, <1>5, <1>6, <1>7 DEF CallerStep

(* Only three statements of the callers touch the table of workers.        *)
LEMMA CallerKeepsWorkers ==
    ASSUME NEW t \in Goroutine, CallerStep(t)
    PROVE  \/ AddInput(t) \/ RemoveLookup(t) \/ CloseLock(t)
           \/ /\ UNCHANGED <<workers, fanInClosed, cut>>
              /\ thread[t].pc \notin {"add", "remove"}
BY DEF CallerStep, RemoveCancel, RemoveAwait, CloseOnce, CloseCancel, CloseWait, CloseOut,
       CloseDone, base, history

-----------------------------------------------------------------------------
(* The flow of values.                                                     *)

(* Steps that neither add nor drop a value.                                *)
LEMMA FlowFrame ==
    ASSUME Flow, UNCHANGED <<out, delivered, nextValue>>, ctxDone => ctxDone', cut \subseteq cut',
           \A w \in Worker : worker'[w].value = worker[w].value
    PROVE  Flow'
<1> SUFFICES ASSUME NEW ch \in Input \ cut', ~ctxDone' PROVE
             /\ \A i \in 1 .. Len(delivered'[ch]) : delivered'[ch][i] = i
             /\ out' # <<>> /\ Head(out').ch = ch => Head(out').n = Len(delivered'[ch]) + 1
             /\ \A w \in Worker : worker'[w].value.ch = ch =>
                   worker'[w].value.n = Sent(ch)' + 1 /\ nextValue'[ch] = Sent(ch)' + 2
             /\ (\A w \in Worker : worker'[w].value.ch # ch) => nextValue'[ch] = Sent(ch)' + 1
  BY DEF Flow
<1>1. Sent(ch)' = Sent(ch)
  BY DEF Sent
<1> QED
  BY <1>1 DEF Flow

LEMMA OwnsFrame ==
    ASSUME WorkerOwnsInput, UNCHANGED <<worker, workers, cut>>, fanInClosed => fanInClosed',
           \A t \in Goroutine : thread'[t].pc \in {"cancel", "await"} => thread'[t] = thread[t]
    PROVE  WorkerOwnsInput'
BY DEF WorkerOwnsInput

LEMMA AddInputFlow ==
    ASSUME FlowInv, NEW t \in Goroutine, AddInput(t)
    PROVE  WorkerOwnsInput' /\ Flow'
<1> USE DEF output, inputs, history
<1> DEFINE ch == thread[t].ch
<1> DEFINE r == [Free EXCEPT !.pc = "select", !.ch = ch]
<1>0. FanInInv /\ WorkerOwnsInput /\ Flow /\ FanInTypeOK /\ WorkerShape
  BY DEF FlowInv, FanInInv
<1>m. Moved(t, "returned")
  BY <1>0, GoMoves DEF AddInput, FanInTypeOK, CallPC
<1>1. CASE UNCHANGED <<worker, workers>>
  <2>1. WorkerOwnsInput'
    BY <1>0, <1>1, <1>m, OwnsFrame DEF AddInput, Moved
  <2>2. Flow'
    BY <1>0, <1>1, FlowFrame DEF AddInput
  <2> QED
    BY <2>1, <2>2
<1>2. CASE ~UNCHANGED <<worker, workers>>
  <2>1. /\ ~fanInClosed /\ NewWorker \in Worker /\ Unused(NewWorker) /\ workers[ch] = NoWorker
        /\ worker' = [worker EXCEPT ![NewWorker] = r]
        /\ workers' = [workers EXCEPT ![ch] = NewWorker]
        /\ UNCHANGED <<fanInClosed, cut, out, delivered, nextValue, ctxDone>>
    BY <1>2, NewWorkerIsUnused DEF AddInput
  <2>2. ch \in Input /\ r.ch = ch /\ r.value = NoValue /\ r.canceled = FALSE
    BY <1>0 DEF AddInput, Free, FanInInv, CallShape
  <2> HIDE DEF r, ch
  <2>3. \A w \in Worker : worker'[w] = IF w = NewWorker THEN r ELSE worker[w]
    BY <1>0, <2>1 DEF FanInTypeOK
  <2>4. \A x \in Input : workers'[x] = IF x = ch THEN NewWorker ELSE workers[x]
    BY <1>0, <2>1 DEF FanInTypeOK
  <2>5. WorkerOwnsInput'
    <3>1. ch \notin cut => \A w \in Worker : worker[w].ch # ch
      BY <1>0, <2>1, <2>2, FanInAssumption DEF WorkerOwnsInput
    <3>2. \A u \in Goroutine : thread'[u].pc \in {"cancel", "await"} =>
             thread'[u] = thread[u] /\ thread[u].w # NewWorker /\ thread[u].w \in Worker
      BY <1>0, <1>m, <2>1 DEF Moved, Unused, FanInInv, CallShape
    <3>3. \A x \in Input : \A w \in Worker :
             workers'[x] = w => worker'[w].pc = "free" \/ worker'[w].ch = x
      BY <1>0, <2>1, <2>2, <2>3, <2>4 DEF WorkerOwnsInput, Unused
    <3>4. \A u \in Goroutine : thread'[u].pc \in {"cancel", "await"} =>
             /\ thread'[u].ch \in cut'
             /\ worker'[thread'[u].w].pc = "free" \/ worker'[thread'[u].w].ch = thread'[u].ch
      BY <1>0, <2>1, <2>3, <3>2 DEF WorkerOwnsInput
    <3>5. \A w \in Worker : worker'[w].canceled => worker'[w].ch \in cut'
      BY <1>0, <2>1, <2>2, <2>3 DEF WorkerOwnsInput
    <3>6. \A x \in Input \ cut' : \A w \in Worker : worker'[w].ch = x =>
             /\ ~fanInClosed' => workers'[x] = w
             /\ \A y \in Worker : worker'[y].ch = x => y = w
      BY <1>0, <2>1, <2>2, <2>3, <2>4, <3>1 DEF WorkerOwnsInput
    <3> QED
      BY <3>3, <3>4, <3>5, <3>6 DEF WorkerOwnsInput
  <2>6. \A w \in Worker : worker'[w].value = worker[w].value
    BY <2>1, <2>2, <2>3 DEF Unused, Free
  <2>7. Flow'
    BY <1>0, <2>1, <2>6, FlowFrame
  <2> QED
    BY <2>5, <2>7
<1> QED
  BY <1>1, <1>2

LEMMA RemoveFlow ==
    ASSUME FlowInv, NEW t \in Goroutine, RemoveLookup(t) \/ RemoveCancel(t) \/ RemoveAwait(t)
    PROVE  WorkerOwnsInput' /\ Flow'
<1> USE DEF base, output, inputs, history
<1>0. FanInInv /\ WorkerOwnsInput /\ Flow /\ FanInTypeOK /\ WorkerShape /\ CallShape
  BY DEF FlowInv, FanInInv
<1>1. CASE RemoveLookup(t)
  <2> DEFINE ch == thread[t].ch
  <2>1. ch \in Input /\ workers[ch] \in Worker \cup {NoWorker}
    BY <1>0, <1>1 DEF RemoveLookup, CallShape, FanInTypeOK
  <2>2. \/ Moved(t, "returned") /\ workers' = workers /\ cut' = cut
        \/ /\ workers[ch] \in Worker
           /\ workers' = [workers EXCEPT ![ch] = NoWorker]
           /\ cut' = cut \cup {ch}
           /\ thread'[t].pc = "cancel" /\ thread'[t].ch = ch /\ thread'[t].w = workers[ch]
           /\ \A u \in Goroutine \ {t} : thread'[u] = thread[u]
    BY <1>0, <1>1, <2>1, GoMoves, AtMoves DEF RemoveLookup, FanInTypeOK, CallPC
  <2>3. UNCHANGED <<worker, out, delivered, nextValue, fanInClosed, ctxDone>> /\ cut \subseteq cut'
    BY <1>1, <2>2 DEF RemoveLookup
  <2> HIDE DEF ch
  <2>4. Flow'
    BY <1>0, <2>3, FlowFrame
  <2>5. CASE Moved(t, "returned") /\ workers' = workers /\ cut' = cut
    <3>1. WorkerOwnsInput'
      BY <1>0, <2>3, <2>5, OwnsFrame DEF Moved
    <3> QED
      BY <2>4, <3>1
  <2>6. CASE ~(Moved(t, "returned") /\ workers' = workers /\ cut' = cut)
    <3>1. \A x \in Input : workers'[x] = IF x = ch THEN NoWorker ELSE workers[x]
      BY <1>0, <2>2, <2>6 DEF FanInTypeOK
    <3>2. WorkerOwnsInput'
      BY <1>0, <2>1, <2>2, <2>3, <2>6, <3>1, FanInAssumption DEF WorkerOwnsInput
    <3> QED
      BY <2>4, <3>2
  <2> QED
    BY <2>5, <2>6
<1>2. CASE RemoveCancel(t)
  <2> DEFINE w == thread[t].w
  <2> DEFINE b == worker[w].canceled \/ worker[w] # Free
  <2> DEFINE r == [worker[w] EXCEPT !.canceled = b]
  <2>0. Moved(t, "await") /\ thread[t].pc = "cancel" /\ w \in Worker
    BY <1>0, <1>2, GoMoves DEF RemoveCancel, FanInTypeOK, CallPC, CallShape
  <2>1. worker' = [worker EXCEPT ![w] = r]
    BY <1>2 DEF RemoveCancel
  <2>2. /\ r.pc = worker[w].pc /\ r.ch = worker[w].ch /\ r.value = worker[w].value
        /\ r.canceled <=> b
    <3>1. worker[w] \in WorkerRecord
      BY <1>0, <2>0 DEF FanInTypeOK
    <3> HIDE DEF b
    <3> QED
      BY <3>1 DEF WorkerRecord
  <2>3. b => worker[w].ch \in cut
    <3>1. Free.canceled = FALSE
      BY DEF Free
    <3>2. CASE worker[w] = Free
      BY <3>1, <3>2
    <3>3. CASE worker[w] # Free
      BY <1>0, <2>0, <3>3 DEF WorkerShape, WorkerOwnsInput
    <3> QED
      BY <3>2, <3>3
  <2> HIDE DEF r, b
  <2>4. \A x \in Worker : /\ worker'[x].pc = worker[x].pc /\ worker'[x].ch = worker[x].ch
                          /\ worker'[x].value = worker[x].value
                          /\ worker'[x].canceled => worker[x].canceled \/ worker[x].ch \in cut
    BY <1>0, <2>0, <2>1, <2>2, <2>3 DEF FanInTypeOK
  <2>5. UNCHANGED <<out, delivered, nextValue, ctxDone, cut, fanInClosed, workers>>
    BY <1>2 DEF RemoveCancel
  <2>6. \A u \in Goroutine : /\ thread'[u].ch = thread[u].ch /\ thread'[u].w = thread[u].w
                             /\ thread'[u].pc \in {"cancel", "await"} =>
                                  thread[u].pc \in {"cancel", "await"} /\ thread[u].w \in Worker
    BY <1>0, <2>0 DEF Moved, CallShape
  <2>7. WorkerOwnsInput'
    BY <1>0, <2>4, <2>5, <2>6 DEF WorkerOwnsInput
  <2> QED
    BY <1>0, <2>4, <2>5, <2>7, FlowFrame
<1>3. CASE RemoveAwait(t)
  <2>1. Moved(t, "returned")
    BY <1>0, <1>3, GoMoves DEF RemoveAwait, FanInTypeOK, CallPC
  <2>2. UNCHANGED <<worker, workers, cut, fanInClosed, out, delivered, nextValue, ctxDone>>
    BY <1>3 DEF RemoveAwait
  <2> QED
    BY <1>0, <2>1, <2>2, OwnsFrame, FlowFrame DEF Moved
<1> QED
  BY <1>1, <1>2, <1>3

LEMMA CloseFlow ==
    ASSUME FlowInv, NEW t \in Goroutine,
           \/ CloseOnce(t) \/ CloseLock(t) \/ CloseCancel(t)
           \/ CloseWait(t) \/ CloseOut(t) \/ CloseDone(t)
    PROVE  WorkerOwnsInput' /\ Flow'
<1> USE DEF base, output, inputs, history
<1>0. FanInInv /\ WorkerOwnsInput /\ Flow /\ FanInTypeOK /\ CallerStep(t)
  BY DEF FlowInv, FanInInv, CallerStep
<1>1. /\ UNCHANGED <<worker, cut, out, delivered, nextValue>>
      /\ (fanInClosed => fanInClosed') /\ (ctxDone => ctxDone')
      /\ thread[t].pc \in Closing \cup {"once"}
      /\ workers' = workers \/ (fanInClosed' /\ \A ch \in Input : workers'[ch] = NoWorker)
  BY DEF CloseOnce, CloseLock, CloseCancel, CloseWait, CloseOut, CloseDone, Closing
<1>2. \A u \in Goroutine : thread'[u].pc \in {"cancel", "await"} => thread'[u] = thread[u]
  BY <1>0, CallerMoves, GoMoves
     DEF CloseOnce, CloseLock, CloseCancel, CloseWait, CloseOut, CloseDone, FanInTypeOK, CallPC, Moved
<1>3. WorkerOwnsInput'
  BY <1>0, <1>1, <1>2, FanInAssumption DEF WorkerOwnsInput
<1> QED
  BY <1>0, <1>1, <1>3, FlowFrame

LEMMA WorkerOwns ==
    ASSUME FlowInv, NEW w \in Worker, WorkerStep(w)
    PROVE  /\ UNCHANGED <<base, thread, cut, fanInClosed>>
           /\ \A x \in Worker \ {w} : worker'[x] = worker[x]
           /\ worker[w].pc # "free"
           /\ worker'[w].pc # "send" => worker'[w].value = NoValue
           /\ WorkerOwnsInput'
<1> USE DEF base, output, inputs, history
<1>0. FanInInv /\ WorkerOwnsInput /\ FanInTypeOK /\ worker[w] \in WorkerRecord
  BY DEF FlowInv, FanInInv, FanInTypeOK
<1>1. UNCHANGED <<workers, fanInClosed, thread, cut, started, ctxDone>>
  BY DEF WorkerStep, WorkerReceive, WorkerSend, WorkerReturn, WorkerGone
<1>2. \A x \in Worker \ {w} : worker'[x] = worker[x]
  BY <1>0 DEF WorkerStep, WorkerReceive, WorkerSend, WorkerReturn, WorkerGone, FanInTypeOK
<1>3. \/ worker'[w] = Free
      \/ worker'[w].ch = worker[w].ch /\ worker'[w].canceled = worker[w].canceled
  <2>1. CASE WorkerReceive(w) \/ WorkerSend(w) \/ WorkerReturn(w)
    BY <1>0, <2>1 DEF WorkerReceive, WorkerSend, WorkerReturn, FanInTypeOK, WorkerRecord
  <2>2. CASE WorkerGone(w)
    BY <1>0, <2>2 DEF WorkerGone, FanInTypeOK
  <2> QED
    BY <2>1, <2>2 DEF WorkerStep
<1>4. worker[w].pc # "free" /\ (worker'[w].pc # "send" => worker'[w].value = NoValue)
  <2>1. FanInInv'
    BY <1>0, WorkerStepInv
  <2> QED
    BY <2>1 DEF FanInInv, WorkerShape, WorkerStep, WorkerReceive, WorkerSend, WorkerReturn, WorkerGone
<1>5. Free.ch = NoInput /\ Free.canceled = FALSE /\ Free.pc = "free"
  BY DEF Free
<1>6. \A t \in Goroutine : thread[t].pc \in {"cancel", "await"} => thread[t].w \in Worker
  BY <1>0 DEF FanInInv, CallShape
<1>7. WorkerOwnsInput'
  <2>1. \A ch \in Input : \A x \in Worker :
           workers'[ch] = x => worker'[x].pc = "free" \/ worker'[x].ch = ch
    BY <1>0, <1>1, <1>2, <1>3, <1>4, <1>5 DEF WorkerOwnsInput
  <2>2. \A t \in Goroutine : thread'[t].pc \in {"cancel", "await"} =>
           /\ thread'[t].ch \in cut'
           /\ worker'[thread'[t].w].pc = "free" \/ worker'[thread'[t].w].ch = thread'[t].ch
    BY <1>0, <1>1, <1>2, <1>3, <1>4, <1>5, <1>6 DEF WorkerOwnsInput
  <2>3. \A x \in Worker : worker'[x].canceled => worker'[x].ch \in cut'
    BY <1>0, <1>1, <1>2, <1>3, <1>5 DEF WorkerOwnsInput
  <2>4. \A ch \in Input : \A x \in Worker : worker'[x].ch = ch => worker[x].ch = ch
    BY <1>2, <1>3, <1>5, FanInAssumption
  <2>5. \A ch \in Input \ cut' : \A x \in Worker : worker'[x].ch = ch =>
           /\ ~fanInClosed' => workers'[ch] = x
           /\ \A y \in Worker : worker'[y].ch = ch => y = x
    BY <1>0, <1>1, <2>4 DEF WorkerOwnsInput
  <2> QED
    BY <2>1, <2>2, <2>3, <2>5 DEF WorkerOwnsInput
<1> QED
  BY <1>1, <1>2, <1>4, <1>7

(* Only the worker of an input that is not removed holds a value of it.    *)
LEMMA HolderIsOwner ==
    ASSUME FlowInv, NEW ch \in Input, NEW w \in Worker, worker[w].value.ch = ch
    PROVE  /\ worker[w].pc = "send" /\ worker[w].ch = ch
           /\ ch \notin cut => \A x \in Worker : worker[x].ch = ch => x = w
<1>1. NoValue.ch # ch
  BY FanInAssumption DEF NoValue
<1> QED
  BY <1>1 DEF FlowInv, FanInInv, WorkerShape, WorkerOwnsInput

LEMMA WorkerFlow ==
    ASSUME FlowInv, NEW w \in Worker, WorkerStep(w)
    PROVE  Flow'
<1> USE DEF base, output, inputs, history
<1>0. /\ FanInInv /\ WorkerOwnsInput /\ Flow /\ FanInTypeOK /\ WorkerShape
      /\ worker[w] \in WorkerRecord /\ worker[w].ch \in Input
  BY WorkerOwns DEF FlowInv, FanInInv, FanInTypeOK, WorkerShape
<1>1. \A x \in Worker \ {w} : worker'[x] = worker[x]
  BY WorkerOwns
<1>2. UNCHANGED <<cut, ctxDone, delivered>>
  BY DEF WorkerStep, WorkerReceive, WorkerSend, WorkerReturn, WorkerGone
<1> SUFFICES ASSUME NEW ch \in Input \ cut, ~ctxDone
             PROVE  /\ \A i \in 1 .. Len(delivered[ch]) : delivered[ch][i] = i
                    /\ out' # <<>> /\ Head(out').ch = ch => Head(out').n = Len(delivered[ch]) + 1
                    /\ \A x \in Worker : worker'[x].value.ch = ch =>
                          worker'[x].value.n = Sent(ch)' + 1 /\ nextValue'[ch] = Sent(ch)' + 2
                    /\ (\A x \in Worker : worker'[x].value.ch # ch) => nextValue'[ch] = Sent(ch)' + 1
  BY <1>2 DEF Flow
<1>3. /\ \A i \in 1 .. Len(delivered[ch]) : delivered[ch][i] = i
      /\ out # <<>> /\ Head(out).ch = ch => Head(out).n = Len(delivered[ch]) + 1
      /\ \A x \in Worker : worker[x].value.ch = ch =>
            worker[x].value.n = Sent(ch) + 1 /\ nextValue[ch] = Sent(ch) + 2
      /\ (\A x \in Worker : worker[x].value.ch # ch) => nextValue[ch] = Sent(ch) + 1
  BY <1>0 DEF Flow
<1>4. Sent(ch) \in Nat /\ nextValue[ch] \in Nat /\ Len(delivered[ch]) \in Nat
  BY <1>0 DEF Sent, FanInTypeOK
<1>5. NoValue.ch # ch
  BY FanInAssumption DEF NoValue
<1>6. CASE WorkerReceive(w)
  <2>1. /\ worker'[w].value = [ch |-> worker[w].ch, n |-> nextValue[worker[w].ch]]
        /\ worker[w].value = NoValue /\ out' = out
    BY <1>0, <1>6 DEF WorkerReceive, FanInTypeOK, WorkerRecord, WorkerShape
  <2>2. Sent(ch)' = Sent(ch)
    BY <1>2, <2>1 DEF Sent
  <2>3. CASE worker[w].ch = ch
    <3>1. \A x \in Worker : worker[x].value.ch # ch
      BY <1>0, <1>5, <2>1, <2>3, HolderIsOwner
    <3>2. nextValue'[ch] = nextValue[ch] + 1
      BY <1>0, <1>6, <2>3 DEF WorkerReceive, FanInTypeOK
    <3> QED
      BY <1>1, <1>3, <1>4, <2>1, <2>2, <2>3, <3>1, <3>2
  <2>4. CASE worker[w].ch # ch
    <3>1. nextValue'[ch] = nextValue[ch]
      BY <1>0, <1>6, <2>4 DEF WorkerReceive, FanInTypeOK
    <3> QED
      BY <1>1, <1>3, <1>5, <2>1, <2>2, <2>4, <3>1
  <2> QED
    BY <2>3, <2>4
<1>7. CASE WorkerSend(w)
  <2> DEFINE v == worker[w].value
  <2>1. /\ worker'[w].value = NoValue /\ v \in InputValue /\ v.ch = worker[w].ch
        /\ nextValue' = nextValue /\ Len(out) = 0 /\ out' = Append(out, v)
    BY <1>0, <1>7 DEF WorkerSend, FanInTypeOK, WorkerRecord, WorkerShape
  <2>2. out = <<>> /\ out' # <<>> /\ Head(out') = v
    <3>1. out = <<>>
      BY <1>0, <2>1, EmptySeq DEF FanInTypeOK
    <3> HIDE DEF v
    <3> QED
      BY <2>1, <3>1
  <2>3. CASE v.ch = ch
    <3>1. \A x \in Worker : worker'[x].value.ch # ch
      BY <1>1, <1>5, <2>1, <2>3, HolderIsOwner
    <3>2. Sent(ch) = Len(delivered[ch]) /\ Sent(ch)' = Len(delivered[ch]) + 1
      <4> HIDE DEF v
      <4> QED
        BY <1>2, <1>4, <2>2, <2>3 DEF Sent
    <3> QED
      BY <1>3, <1>4, <2>1, <2>2, <2>3, <3>1, <3>2
  <2>4. CASE v.ch # ch
    <3>1. Sent(ch)' = Sent(ch)
      BY <1>2, <2>2, <2>4 DEF Sent
    <3> QED
      BY <1>1, <1>3, <1>5, <2>1, <2>2, <2>4, <3>1
  <2> QED
    BY <2>3, <2>4
<1>8. CASE WorkerReturn(w) \/ WorkerGone(w)
  <2>1. worker'[w].value = NoValue /\ UNCHANGED <<out, nextValue>>
    <3>1. CASE WorkerReturn(w)
      BY <1>0, <3>1 DEF WorkerReturn, FanInTypeOK, WorkerRecord
    <3>2. CASE WorkerGone(w)
      BY <1>0, <3>2 DEF WorkerGone, FanInTypeOK, Free
    <3> QED
      BY <1>8, <3>1, <3>2
  <2>2. worker[w].value.ch # ch
    BY <1>0, <1>5, <1>8, HolderIsOwner
       DEF WorkerReturn, WorkerGone, WorkerStopped, WorkerShape, WorkerOwnsInput
  <2>3. Sent(ch)' = Sent(ch)
    BY <1>2, <2>1 DEF Sent
  <2> QED
    BY <1>1, <1>3, <1>5, <2>1, <2>2, <2>3
<1> QED
  BY <1>6, <1>7, <1>8 DEF WorkerStep

LEMMA ReadFlow ==
    ASSUME FlowInv, ReadOutput
    PROVE  WorkerOwnsInput' /\ Flow'
<1> USE DEF base, output, inputs, history
<1> DEFINE v == Head(out)
<1>0. FanInTypeOK /\ WorkerOwnsInput /\ Flow
  BY DEF FlowInv, FanInInv
<1>1. UNCHANGED <<worker, workers, cut, fanInClosed, thread, ctxDone, nextValue>>
  BY DEF ReadOutput
<1>2. v \in InputValue /\ v.ch \in Input /\ v.n \in Nat /\ out # <<>> /\ out' = <<>>
  <2>1. out \in Seq(InputValue) /\ out # <<>> /\ Len(out) <= 1 /\ out' = Tail(out)
    BY <1>0 DEF ReadOutput, FanInTypeOK
  <2>2. v \in InputValue /\ Tail(out) \in Seq(InputValue) /\ Len(Tail(out)) = Len(out) - 1 /\ Len(out) \in Nat
    BY <2>1, HeadTailProperties
  <2>3. out' = <<>>
    BY <2>1, <2>2, EmptySeq
  <2> QED
    BY <2>1, <2>2, <2>3 DEF InputValue
<1>3. delivered' = [delivered EXCEPT ![v.ch] = Append(@, v.n)]
  BY DEF ReadOutput
<1> HIDE DEF v
<1>4. ASSUME NEW ch \in Input \ cut, ~ctxDone
      PROVE  /\ \A i \in 1 .. Len(delivered'[ch]) : delivered'[ch][i] = i
             /\ Sent(ch)' = Sent(ch)
  <2>1. /\ delivered[ch] \in Seq(Nat)
        /\ \A i \in 1 .. Len(delivered[ch]) : delivered[ch][i] = i
        /\ v.ch = ch => v.n = Len(delivered[ch]) + 1
    BY <1>0, <1>2, <1>4 DEF Flow, FanInTypeOK, v
  <2>2. CASE v.ch = ch
    <3>1. delivered'[ch] = Append(delivered[ch], v.n)
      BY <1>0, <1>3, <2>2 DEF FanInTypeOK
    <3> QED
      BY <1>2, <2>1, <2>2, <3>1 DEF Sent, v
  <2>3. CASE v.ch # ch
    <3>1. delivered'[ch] = delivered[ch]
      BY <1>0, <1>3, <2>3 DEF FanInTypeOK
    <3> QED
      BY <1>2, <2>1, <2>3, <3>1 DEF Sent, v
  <2> QED
    BY <2>2, <2>3
<1>5. Flow'
  BY <1>0, <1>1, <1>2, <1>4 DEF Flow
<1> QED
  BY <1>0, <1>1, <1>5, OwnsFrame

LEMMA FlowStep == FlowInv /\ FanInStep => FlowInv'
<1> SUFFICES ASSUME FlowInv, FanInStep PROVE WorkerOwnsInput' /\ Flow'
  BY FanInStepInv DEF FlowInv
<1>0. FanInInv /\ WorkerOwnsInput /\ Flow /\ FanInTypeOK
  BY DEF FlowInv, FanInInv
<1>1. CASE RunFanIn \/ Watch
  <2>1. UNCHANGED <<worker, workers, cut, fanInClosed, out, delivered, nextValue, ctxDone>>
    BY <1>1 DEF RunFanIn, Watch, base, output, inputs, history
  <2>2. Moved(Watcher, "watch") \/ Moved(Watcher, "once")
    BY <1>0, <1>1, GoMoves DEF RunFanIn, Watch, FanInTypeOK, Goroutine, CallPC
  <2> QED
    BY <1>0, <2>1, <2>2, OwnsFrame, FlowFrame DEF Moved
<1>2. CASE CancelRun \/ \E ch \in Input : CloseInput(ch)
  <2>1. /\ UNCHANGED <<worker, workers, cut, fanInClosed, out, delivered, nextValue, thread>>
        /\ ctxDone => ctxDone'
    BY <1>2 DEF CancelRun, CloseInput, base, output, inputs, history
  <2> QED
    BY <1>0, <2>1, OwnsFrame, FlowFrame
<1>3. CASE ReadOutput
  BY <1>3, ReadFlow
<1>4. CASE \E t \in Goroutine : CallerStep(t)
  BY <1>4, AddInputFlow, RemoveFlow, CloseFlow DEF CallerStep
<1>5. CASE \E w \in Worker : WorkerStep(w)
  BY <1>5, WorkerOwns, WorkerFlow
<1> QED
  BY <1>1, <1>2, <1>3, <1>4, <1>5 DEF FanInStep

(* The invariant counts every value that was read.                         *)
LEMMA FlowIsNothingLost == FlowInv => NothingLost
<1> SUFFICES ASSUME FlowInv, NEW ch \in Input \ cut, ~ctxDone
             PROVE  LET got == delivered[ch] \o InOut(ch)
                    IN  /\ Cardinality(InHandOf(ch)) <= 1
                        /\ Len(out) <= 1
                        /\ \A i \in DOMAIN got : got[i] = i
                        /\ Len(got) + Cardinality(InHandOf(ch)) = nextValue[ch] - 1
  BY DEF NothingLost
<1> DEFINE got == delivered[ch] \o InOut(ch)
<1>0. FanInTypeOK /\ Flow
  BY DEF FlowInv, FanInInv
<1>1. delivered[ch] \in Seq(Nat) /\ Len(delivered[ch]) \in Nat
  BY <1>0 DEF FanInTypeOK
<1>2. /\ \A i \in DOMAIN got : got[i] = i
      /\ Len(got) = Sent(ch) /\ Sent(ch) \in Nat
  <2>1. CASE out # <<>> /\ Head(out).ch = ch
    <3> DEFINE k == Head(out).n
    <3>1. InOut(ch) = <<k>>
      BY <2>1 DEF InOut
    <3>2. k = Len(delivered[ch]) + 1 /\ <<k>> \in Seq(Nat) /\ Len(<<k>>) = 1
      BY <1>0, <1>1, <2>1 DEF Flow
    <3> DEFINE d == delivered[ch]
    <3>3. got = Append(d, k) /\ got \in Seq(Nat)
      BY <1>1, <3>1, <3>2
    <3> HIDE DEF k, got
    <3>4. \A i \in 1 .. Len(d) : d[i] = i
      BY <1>0 DEF Flow
    <3> HIDE DEF d
    <3>5. DOMAIN got = 1 .. Len(d) + 1 /\ Len(got) = Len(d) + 1
      BY <1>1, <3>3 DEF d
    <3>6. \A i \in 1 .. Len(d) + 1 : got[i] = i
      BY <1>1, <3>2, <3>3, <3>4 DEF d
    <3> QED
      BY <1>1, <2>1, <3>5, <3>6 DEF Sent, d
  <2>2. CASE ~(out # <<>> /\ Head(out).ch = ch)
    <3>1. got = delivered[ch]
      BY <1>1, <2>2, ConcatEmptySeq DEF InOut
    <3> HIDE DEF got
    <3>2. \A i \in 1 .. Len(delivered[ch]) : delivered[ch][i] = i
      BY <1>0 DEF Flow
    <3>3. Sent(ch) = Len(delivered[ch])
      BY <2>2 DEF Sent
    <3> QED
      BY <1>1, <3>1, <3>2, <3>3
  <2> QED
    BY <2>1, <2>2
<1>3. Len(got) = Sent(ch) /\ Sent(ch) \in Nat
  BY <1>2
<1>4. CASE InHandOf(ch) = {}
  <2>1. Cardinality(InHandOf(ch)) = 0
    BY <1>4, FS_EmptySet
  <2>2. nextValue[ch] = Sent(ch) + 1
    BY <1>0, <1>4 DEF Flow, InHandOf
  <2> QED
    BY <1>0, <1>2, <1>3, <2>1, <2>2 DEF FanInTypeOK
<1>5. CASE InHandOf(ch) # {}
  <2>1. PICK w \in Worker : worker[w].value.ch = ch
    BY <1>5 DEF InHandOf
  <2>2. InHandOf(ch) = {w}
    BY <2>1, HolderIsOwner DEF InHandOf
  <2>3. Cardinality(InHandOf(ch)) = 1
    BY <2>2, FS_Singleton
  <2>4. nextValue[ch] = Sent(ch) + 2
    BY <1>0, <2>1 DEF Flow
  <2> QED
    BY <1>0, <1>2, <1>3, <2>3, <2>4 DEF FanInTypeOK
<1> QED
  BY <1>4, <1>5

LEMMA CallFlow ==
    ASSUME FlowInv, NEW t \in Thread, NEW step \in CallPC, NEW ch \in Input \cup {NoInput},
           Call(t, step, ch),
           \/ step \in {"add", "remove", "returned"} /\ ch \in Input
           \/ step = "once" /\ ch = NoInput
    PROVE  FlowInv'
<1>1. FanInInv'
  BY CallInv DEF FlowInv
<1>2. UNCHANGED <<worker, workers, cut, fanInClosed, out, delivered, nextValue, ctxDone>>
  BY DEF Call, base, output, inputs, history
<1>3. \A u \in Goroutine : thread'[u].pc \in {"cancel", "await"} => thread'[u] = thread[u]
  BY DEF Call, At, FlowInv, FanInInv, FanInTypeOK
<1> QED
  BY <1>1, <1>2, <1>3, OwnsFrame, FlowFrame DEF FlowInv

LEMMA ReturnFlow ==
    ASSUME FlowInv, NEW t \in Thread, CallReturns(t)
    PROVE  FlowInv'
<1>1. FanInInv'
  BY ReturnInv DEF FlowInv, FanInInv, FanInTypeOK, CallReturns, inputs
<1>2. UNCHANGED <<worker, workers, cut, fanInClosed, out, delivered, nextValue, ctxDone>>
  BY DEF CallReturns, base, output, inputs, history
<1>3. \A u \in Goroutine : thread'[u].pc \in {"cancel", "await"} => thread'[u] = thread[u]
  BY DEF CallReturns, Idle, At, FlowInv, FanInInv, FanInTypeOK
<1> QED
  BY <1>1, <1>2, <1>3, OwnsFrame, FlowFrame DEF FlowInv

-----------------------------------------------------------------------------
(* The feeder fan-in.                                                      *)

LEMMA FeederInitInv == FeederInit => FeederInv
<1> SUFFICES ASSUME FeederInit PROVE FeederInv
  OBVIOUS
<1>1. FanInInv
  BY FanInInitInv DEF FeederInit
<1>2. WorkerOwnsInput
  BY FanInAssumption DEF FeederInit, FanInInit, WorkerOwnsInput, Goroutine, At, Idle, Free
<1>3. Flow
  BY FanInAssumption DEF FeederInit, FanInInit, Flow, Sent, Free, NoValue
<1>4. FeederSettled
  BY FanInAssumption DEF FeederInit, FanInInit, FeederSettled, Between, Goroutine, At, Idle
<1> QED
  BY <1>1, <1>2, <1>3, <1>4 DEF FeederInit, FeederInv, FlowInv

(* Steps between no two mutexes.                                           *)
LEMMA SettledFrame ==
    ASSUME FeederSettled, UNCHANGED <<workers, feeders, raced>>,
           fanInClosed => fanInClosed', started => started',
           \A t \in Thread :
              {thread[t].pc, thread'[t].pc} \cap {"add", "remove"} # {} => thread'[t] = thread[t]
    PROVE  FeederSettled'
<1>1. \A step \in {"add", "remove"} : \A ch \in Input : Between(step, ch)' <=> Between(step, ch)
  BY DEF Between
<1> QED
  BY <1>1 DEF FeederSettled

LEMMA FeederCaller ==
    ASSUME FeederInv, NEW t \in Goroutine, CallerStep(t), UNCHANGED <<feeders, raced>>
    PROVE  FeederSettled'
<1>0. FanInInv /\ FanInTypeOK /\ CallShape /\ FeederSettled
  BY DEF FeederInv, FlowInv, FanInInv
<1>1. /\ \A u \in Thread \ {t} : thread'[u] = thread[u]
      /\ thread'[t].ch = thread[t].ch /\ thread'[t].pc \notin {"add", "remove"}
      /\ started' = started
  BY <1>0, CallerMoves DEF Goroutine
<1>2. CASE CloseLock(t)
  BY <1>2 DEF CloseLock, FeederSettled
<1>3. CASE AddInput(t)
  <2> DEFINE ch == thread[t].ch
  <2>1. /\ t \in Thread /\ ch \in Input /\ thread[t].pc = "add"
        /\ workers \in [Input -> Worker \cup {NoWorker}]
    BY <1>0, <1>3, FanInAssumption DEF AddInput, Goroutine, CallShape, FanInTypeOK
  <2>2. fanInClosed' = fanInClosed /\ \A x \in Input \ {ch} : workers'[x] = workers[x]
    BY <1>3, <2>1 DEF AddInput
  <2>3. started /\ ~fanInClosed => workers'[ch] # NoWorker
    BY <1>3, <2>1, NewWorkerIsUnused, FanInAssumption DEF AddInput
  <2>4. \A x \in Input : /\ Between("add", x)' => Between("add", x)
                         /\ Between("remove", x)' <=> Between("remove", x)
                         /\ x # ch => (Between("add", x)' <=> Between("add", x))
    BY <1>1, <2>1 DEF Between
  <2>5. Between("add", ch)
    BY <2>1 DEF Between
  <2> HIDE DEF ch
  <2>6. ASSUME NEW x \in Input \ raced, ~fanInClosed
        PROVE  /\ Between("add", x)' => x \in feeders /\ started /\ ~Between("remove", x)'
               /\ Between("remove", x)' => x \notin feeders
               /\ ~Between("add", x)' /\ ~Between("remove", x)' => (x \in feeders <=> workers'[x] # NoWorker)
    BY <1>0, <2>1, <2>2, <2>3, <2>4, <2>5, <2>6 DEF FeederSettled
  <2> QED
    BY <1>1, <2>2, <2>6 DEF FeederSettled
<1>4. CASE RemoveLookup(t)
  <2> DEFINE ch == thread[t].ch
  <2>1. /\ t \in Thread /\ ch \in Input /\ thread[t].pc = "remove"
        /\ workers \in [Input -> Worker \cup {NoWorker}]
    BY <1>0, <1>4, FanInAssumption DEF RemoveLookup, Goroutine, CallShape, FanInTypeOK
  <2>2. fanInClosed' = fanInClosed /\ \A x \in Input \ {ch} : workers'[x] = workers[x]
    BY <1>4, <2>1 DEF RemoveLookup
  <2>3. workers'[ch] = NoWorker
    BY <1>4, <2>1 DEF RemoveLookup
  <2>4. \A x \in Input : /\ Between("remove", x)' => Between("remove", x)
                         /\ Between("add", x)' <=> Between("add", x)
                         /\ x # ch => (Between("remove", x)' <=> Between("remove", x))
    BY <1>1, <2>1 DEF Between
  <2>5. Between("remove", ch)
    BY <2>1 DEF Between
  <2> HIDE DEF ch
  <2>6. ASSUME NEW x \in Input \ raced, ~fanInClosed
        PROVE  /\ Between("add", x)' => x \in feeders /\ started /\ ~Between("remove", x)'
               /\ Between("remove", x)' => x \notin feeders
               /\ ~Between("add", x)' /\ ~Between("remove", x)' => (x \in feeders <=> workers'[x] # NoWorker)
    BY <1>0, <2>1, <2>2, <2>3, <2>4, <2>5, <2>6 DEF FeederSettled
  <2> QED
    BY <1>1, <2>2, <2>6 DEF FeederSettled
<1>5. CASE UNCHANGED <<workers, fanInClosed, cut>> /\ thread[t].pc \notin {"add", "remove"}
  BY <1>0, <1>1, <1>5, SettledFrame
<1> QED
  BY <1>2, <1>3, <1>4, <1>5, CallerKeepsWorkers

(* AddFeeder and RemoveFeeder, up to the release of feedersMu.             *)
LEMMA FeederCalls ==
    ASSUME FeederInv, NEW t \in Thread, NEW input \in Input,
           AddFeeder(t, input) \/ RemoveFeeder(t, input)
    PROVE  FeederInv'
<1>0. /\ FanInInv /\ FlowInv /\ CallShape /\ FeederSettled
      /\ t \in Goroutine /\ thread \in [Goroutine -> CallRecord]
      /\ feeders \subseteq Input /\ raced \subseteq Input
  BY DEF FeederInv, FlowInv, FanInInv, FanInTypeOK, Goroutine
<1>1. PICK step \in {"returned", "add", "remove"} : Call(t, step, input)
  BY DEF AddFeeder, RemoveFeeder
<1>2. /\ thread'[t].pc = step /\ thread'[t].ch = input
      /\ thread[t].pc = "idle" /\ thread[t].ch = NoInput
      /\ \A u \in Thread \ {t} : thread'[u] = thread[u]
  BY <1>0, <1>1, AtMoves, FanInAssumption DEF Call, CallPC, Idle, At, Goroutine
<1>3. UNCHANGED <<workers, fanInClosed, started>>
  BY <1>1 DEF Call, base
<1>4. FlowInv'
  BY <1>0, <1>1, CallFlow DEF CallPC
<1>5. feeders' \subseteq Input /\ raced' \subseteq Input
  BY <1>0 DEF AddFeeder, RemoveFeeder
<1>6. \A x \in Input : \A p \in {"add", "remove"} :
         Between(p, x)' <=> Between(p, x) \/ (p = step /\ x = input)
  BY <1>2, FanInAssumption DEF Between
<1>7. FeederSettled'
  <2> SUFFICES ASSUME NEW x \in Input \ raced', ~fanInClosed
               PROVE  /\ Between("add", x)' => x \in feeders' /\ started /\ ~Between("remove", x)'
                      /\ Between("remove", x)' => x \notin feeders'
                      /\ ~Between("add", x)' /\ ~Between("remove", x)'
                            => (x \in feeders' <=> workers[x] # NoWorker)
    BY <1>3 DEF FeederSettled
  <2>1. CASE x # input
    <3>1. x \notin raced /\ (x \in feeders' <=> x \in feeders)
      BY <2>1 DEF AddFeeder, RemoveFeeder
    <3> QED
      BY <1>0, <1>6, <2>1, <3>1 DEF FeederSettled
  <2>2. CASE x = input /\ AddFeeder(t, input)
    <3>1. x \notin raced /\ ~Between("remove", x) /\ started /\ x \in feeders'
      BY <2>2 DEF AddFeeder
    <3>2. step = IF input \in feeders THEN "returned" ELSE "add"
      BY <1>0, <1>2, <2>2 DEF AddFeeder, Call, At
    <3> QED
      BY <1>0, <1>6, <2>2, <3>1, <3>2 DEF FeederSettled
  <2>3. CASE x = input /\ RemoveFeeder(t, input)
    <3>1. ~Between("add", x) /\ x \notin feeders'
      BY <2>3 DEF RemoveFeeder
    <3>2. step = "remove"
      BY <1>0, <1>2, <2>3 DEF RemoveFeeder, Call, At
    <3> QED
      BY <1>6, <2>3, <3>1, <3>2
  <2> QED
    BY <2>1, <2>2, <2>3
<1> QED
  BY <1>4, <1>5, <1>7 DEF FeederInv

LEMMA FeederStepInv == FeederInv /\ [FeederNext]_feederVars => FeederInv'
<1> SUFFICES ASSUME FeederInv, [FeederNext]_feederVars PROVE FeederInv'
  OBVIOUS
<1>0. FlowInv /\ FanInInv /\ FanInTypeOK /\ CallShape /\ FeederSettled
  BY DEF FeederInv, FlowInv, FanInInv
<1>1. CASE FanInStep /\ UNCHANGED <<feeders, raced>>
  <2>1. FlowInv'
    BY <1>0, <1>1, FlowStep
  <2>2. FeederSettled'
    <3>1. CASE RunFanIn \/ Watch
      <4>1. Moved(Watcher, "watch") \/ Moved(Watcher, "once")
        BY <1>0, <3>1, GoMoves DEF RunFanIn, Watch, FanInTypeOK, Goroutine, CallPC
      <4>2. UNCHANGED <<workers, fanInClosed>> /\ (started => started')
        BY <3>1 DEF RunFanIn, Watch, base
      <4> QED
        BY <1>0, <1>1, <4>1, <4>2, SettledFrame, FanInAssumption DEF Moved, Goroutine
    <3>2. CASE \E t \in Goroutine : CallerStep(t)
      BY <1>1, <3>2, FeederCaller
    <3>3. CASE \/ CancelRun \/ ReadOutput
               \/ \E w \in Worker : WorkerStep(w)
               \/ \E ch \in Input : CloseInput(ch)
      <4>1. UNCHANGED <<workers, fanInClosed, started, thread>>
        BY <3>3 DEF CancelRun, ReadOutput, WorkerStep, WorkerReceive, WorkerSend, WorkerReturn,
                    WorkerGone, CloseInput, base
      <4> QED
        BY <1>0, <1>1, <4>1, SettledFrame
    <3> QED
      BY <1>1, <3>1, <3>2, <3>3 DEF FanInStep
  <2> QED
    BY <1>1, <2>1, <2>2 DEF FeederInv
<1>2. ASSUME NEW t \in Thread, CallReturns(t), UNCHANGED <<feeders, raced>> PROVE FeederInv'
  <2>1. FlowInv'
    BY <1>0, <1>2, ReturnFlow
  <2>2. /\ thread[t].pc = "returned" /\ thread'[t].pc = "idle"
        /\ \A u \in Thread \ {t} : thread'[u] = thread[u]
        /\ UNCHANGED <<workers, fanInClosed, started>>
    BY <1>0, <1>2 DEF CallReturns, Idle, At, FanInTypeOK, Goroutine, base
  <2>3. FeederSettled'
    BY <1>0, <1>2, <2>2, SettledFrame
  <2> QED
    BY <1>2, <2>1, <2>3 DEF FeederInv
<1>3. ASSUME NEW t \in Thread, Call(t, "once", NoInput), UNCHANGED <<feeders, raced>> PROVE FeederInv'
  <2>1. FlowInv'
    BY <1>0, <1>3, CallFlow DEF CallPC
  <2>2. /\ thread[t].pc = "idle" /\ thread'[t].pc = "once"
        /\ \A u \in Thread \ {t} : thread'[u] = thread[u]
        /\ UNCHANGED <<workers, fanInClosed, started>>
    BY <1>0, <1>3 DEF Call, Idle, At, FanInTypeOK, Goroutine, base
  <2>3. FeederSettled'
    BY <1>0, <1>3, <2>2, SettledFrame
  <2> QED
    BY <1>3, <2>1, <2>3 DEF FeederInv
<1>4. ASSUME NEW t \in Thread, NEW input \in Input, AddFeeder(t, input) \/ RemoveFeeder(t, input)
      PROVE  FeederInv'
  BY <1>4, FeederCalls
<1>5. CASE UNCHANGED feederVars
  <2>1. UNCHANGED <<base, output, worker, thread, inputs, history, feeders, raced>>
    BY <1>5 DEF feederVars, fanInVars
  <2> USE DEF base, output, inputs, history
  <2>2. FanInInv'
    BY <1>0, <2>1 DEF FanInInv, FanInTypeOK, CallShape, WorkerShape, CloseProgress, Working
  <2>3. WorkerOwnsInput' /\ Flow'
    BY <1>0, <2>1, OwnsFrame, FlowFrame DEF FlowInv
  <2>4. FeederSettled'
    BY <1>0, <2>1, SettledFrame
  <2> QED
    BY <2>1, <2>2, <2>3, <2>4 DEF FeederInv, FlowInv
<1> QED
  BY <1>1, <1>2, <1>3, <1>4, <1>5 DEF FeederNext

LEMMA FeederInvariance == FeederSpec => []FeederInv
<1> QED
  BY FeederInitInv, FeederStepInv, PTL DEF FeederSpec

(* RemoveInput and Close are barriers for every number of inputs, callers  *)
(* and workers: no value of a removed input is in flight when RemoveInput  *)
(* returns, and nothing is sent on a closed output (fan_in.go:122-175).    *)
THEOREM FeederReturnIsBarrier == FeederSpec => []ReturnIsBarrier
<1>1. FeederInv => ReturnIsBarrier
  BY InvIsBarrier DEF FeederInv, FlowInv
<1> QED
  BY <1>1, FeederInvariance, PTL

(* The merged channel loses, doubles and reorders no value of an input     *)
(* that is neither removed nor shut down (fan_in.go:105-119).              *)
THEOREM FeederNothingLost == FeederSpec => []NothingLost
<1>1. FeederInv => NothingLost
  BY FlowIsNothingLost DEF FeederInv
<1> QED
  BY <1>1, FeederInvariance, PTL

(* When every call has returned, the merged channels are those of the      *)
(* known feeders, but for the feeders that were added while they were      *)
(* removed, or before Run (feeder_fan_in.go:44-66).                        *)
THEOREM FeederKnownAreMerged == FeederSpec => []KnownAreMerged
<1>1. FeederInv => KnownAreMerged
  <2> SUFFICES ASSUME FeederInv, Quiet, ~fanInClosed PROVE Merged \ raced = feeders \ raced
    BY DEF KnownAreMerged
  <2>1. \A ch \in Input : ~Between("add", ch) /\ ~Between("remove", ch)
    BY DEF Quiet, Between, Idle, At
  <2> QED
    BY <2>1 DEF FeederInv, FeederSettled, Merged
<1> QED
  BY <1>1, FeederInvariance, PTL

-----------------------------------------------------------------------------
(* The subscriber fan-in.                                                  *)

LEMMA SubscriberInitInv == SubscriberInit => SubscriberInv
<1> SUFFICES ASSUME SubscriberInit PROVE SubscriberInv
  OBVIOUS
<1>1. FanInInv
  BY FanInInitInv DEF SubscriberInit
<1>2. SubscriberTypeOK
  BY DEF SubscriberInit, SubscriberTypeOK
<1>3. UnsubscribeProgress
  BY FanInAssumption, SubWatcherAssumption
     DEF SubscriberInit, FanInInit, UnsubscribeProgress, Goroutine
<1>4. AddedAreHeld
  BY DEF SubscriberInit, AddedAreHeld
<1> QED
  BY <1>1, <1>2, <1>3, <1>4 DEF SubscriberInv

(* The fan-in underneath moves callers on, and never leaves a closed       *)
(* state.                                                                  *)
LEMMA FanInKeeps ==
    ASSUME FanInInv, Watch \/ ReadOutput \/ CancelRun \/ RunFanIn
                     \/ (\E t \in Goroutine : CallerStep(t)) \/ (\E w \in Worker : WorkerStep(w))
    PROVE  /\ \A t \in Thread : /\ thread'[t].ch = thread[t].ch
                                /\ thread[t] = Idle => thread'[t] = Idle
           /\ (outClosed => outClosed') /\ (doneClosed => doneClosed')
           /\ started => started'
<1> USE DEF base, output, inputs, history
<1>0. FanInTypeOK
  BY DEF FanInInv
<1>1. CASE RunFanIn \/ Watch
  <2>1. Moved(Watcher, "watch") \/ Moved(Watcher, "once")
    BY <1>0, <1>1, GoMoves DEF RunFanIn, Watch, FanInTypeOK, Goroutine, CallPC
  <2>2. (outClosed => outClosed') /\ (doneClosed => doneClosed') /\ (started => started')
    BY <1>1 DEF RunFanIn, Watch
  <2> QED
    BY <2>1, <2>2, FanInAssumption DEF Moved, Goroutine
<1>2. CASE ReadOutput \/ CancelRun \/ \E w \in Worker : WorkerStep(w)
  <2>1. UNCHANGED <<thread, outClosed, doneClosed, started>>
    BY <1>2 DEF ReadOutput, CancelRun, WorkerStep, WorkerReceive, WorkerSend, WorkerReturn, WorkerGone
  <2> QED
    BY <2>1
<1>3. ASSUME NEW t \in Goroutine, CallerStep(t)
      PROVE  /\ \A u \in Thread : /\ thread'[u].ch = thread[u].ch
                                  /\ thread[u] = Idle => thread'[u] = Idle
             /\ (outClosed => outClosed') /\ (doneClosed => doneClosed')
             /\ started => started'
  <2>1. (outClosed => outClosed') /\ (doneClosed => doneClosed')
    <3>1. CASE CloseOut(t)
      BY <3>1 DEF CloseOut
    <3>2. CASE CloseDone(t)
      BY <3>2 DEF CloseDone
    <3>3. CASE AddInput(t) \/ RemoveLookup(t) \/ RemoveCancel(t) \/ RemoveAwait(t)
      BY <3>3 DEF AddInput, RemoveLookup, RemoveCancel, RemoveAwait
    <3>4. CASE CloseOnce(t) \/ CloseLock(t) \/ CloseCancel(t) \/ CloseWait(t)
      BY <3>4 DEF CloseOnce, CloseLock, CloseCancel, CloseWait
    <3> QED
      BY <1>3, <3>1, <3>2, <3>3, <3>4 DEF CallerStep
  <2>2. thread[t] # Idle
    BY <1>3, CallerMoves DEF Idle, At
  <2> QED
    BY <1>3, <2>1, <2>2, CallerMoves DEF Goroutine
<1> QED
  BY <1>1, <1>2, <1>3

(* A step that leaves the sets and the calls alone.                        *)
LEMMA ProgressFrame ==
    ASSUME UnsubscribeProgress, AddedAreHeld,
           UNCHANGED <<subscribers, subClosed, unsubOnce, snapshot, call, added, unsubscribed>>,
           \A t \in Thread : /\ thread'[t].ch = thread[t].ch
                             /\ thread[t] = Idle => thread'[t] = Idle,
           outClosed => outClosed', doneClosed => doneClosed', started => started'
    PROVE  UnsubscribeProgress' /\ AddedAreHeld'
<1>1. UnsubscribeProgress'
  BY DEF UnsubscribeProgress
<1>2. \A s \in added : Releasing(s) => Releasing(s)'
  BY DEF Releasing
<1>3. AddedAreHeld'
  BY <1>2 DEF AddedAreHeld
<1> QED
  BY <1>1, <1>3

(* What Release does to the inputs.                                        *)
LEMMA ReleaseType ==
    ASSUME FanInTypeOK, NEW s \in Input, Release(s)
    PROVE  /\ inputClosed' \in [Input -> BOOLEAN] /\ lastValue' \in [Input -> 0 .. MaxValues]
           /\ unsubscribed' = unsubscribed \cup {s}
<1>1. PICK n \in nextValue[s] - 1 .. lastValue[s] : lastValue' = [lastValue EXCEPT ![s] = n]
  BY DEF Release
<1>2. n \in 0 .. MaxValues
  BY FanInAssumption DEF FanInTypeOK
<1> QED
  BY <1>1, <1>2 DEF Release, FanInTypeOK

LEMMA AddSubscriberInv ==
    ASSUME SubscriberInv, NEW t \in Thread, NEW s \in Input, AddSubscriber(t, s)
    PROVE  SubscriberInv'
<1>0. /\ FanInInv /\ FanInTypeOK /\ SubscriberTypeOK /\ UnsubscribeProgress /\ AddedAreHeld
      /\ call \in [Thread -> {"absent", "none", "waiting", "add", "release", "unsubscribe",
                              "releaseAll", "closing", "ended"}]
      /\ t \in Goroutine /\ thread \in [Goroutine -> CallRecord]
  BY DEF SubscriberInv, FanInInv, FanInTypeOK, SubscriberTypeOK, Goroutine
<1>1. \/ subClosed /\ Call(t, "returned", s) /\ call' = [call EXCEPT ![t] = "release"]
           /\ subscribers' = subscribers
      \/ ~subClosed /\ Call(t, "add", s) /\ call' = [call EXCEPT ![t] = "add"]
           /\ subscribers' = subscribers \cup {s}
  BY DEF AddSubscriber
<1>2. /\ UNCHANGED <<subClosed, unsubOnce, snapshot, parentDone, unsubscribed>>
      /\ call[t] = "none" /\ s \notin added /\ added' = added \cup {s}
  BY DEF AddSubscriber
<1>3. FanInInv'
  BY <1>0, <1>1, CallInv DEF CallPC
<1>4. SubscriberTypeOK'
  BY <1>0, <1>1, <1>2 DEF SubscriberTypeOK
<1>5. /\ thread'[t].ch = s /\ \A u \in Thread \ {t} : thread'[u] = thread[u]
      /\ UNCHANGED <<started, outClosed, doneClosed>>
  <2>1. PICK step \in {"returned", "add"} : Call(t, step, s)
    BY <1>1
  <2> QED
    BY <1>0, <2>1, AtMoves DEF Call, CallPC, Goroutine, base, output
<1>6. UnsubscribeProgress'
  <2>1. call'[t] \in {"add", "release"} /\ \A u \in Thread \ {t} : call'[u] = call[u]
    BY <1>0, <1>1
  <2>2. t = SubWatcher => started
    BY <1>0, <1>2 DEF UnsubscribeProgress
  <2>3. subClosed' => subscribers' = {}
    BY <1>0, <1>1, <1>2 DEF UnsubscribeProgress
  <2>4. s # NoInput /\ snapshot' = snapshot /\ unsubOnce' = unsubOnce /\ subClosed' = subClosed
    BY <1>2, FanInAssumption
  <2>5. \A u \in Thread :
           /\ call'[u] \notin {"add", "release", "closing"} => thread'[u] = Idle
           /\ call'[u] \in {"add", "release"} => thread'[u].ch \in Input
           /\ call'[u] = "closing" => thread'[u].ch = NoInput /\ snapshot' = {}
           /\ call'[u] \in {"releaseAll", "closing"} => unsubOnce' = "running"
           /\ call'[u] = "ended" => unsubOnce' = "over"
    BY <1>0, <1>5, <2>1, <2>4 DEF UnsubscribeProgress
  <2>6. \A u, v \in Thread : call'[u] \in {"releaseAll", "closing"}
             /\ call'[v] \in {"releaseAll", "closing"} => u = v
    BY <1>0, <2>1 DEF UnsubscribeProgress
  <2>7. /\ ~started' => call'[SubWatcher] = "absent"
        /\ subClosed' <=> unsubOnce' # "fresh"
        /\ unsubOnce' = "fresh" => snapshot' = {}
        /\ unsubOnce' = "over" => snapshot' = {} /\ outClosed' /\ doneClosed'
    BY <1>0, <1>5, <2>1, <2>2, <2>4, SubWatcherAssumption DEF UnsubscribeProgress
  <2> QED
    BY <2>3, <2>5, <2>6, <2>7 DEF UnsubscribeProgress
<1>7. AddedAreHeld'
  <2>1. \A x \in Input : Releasing(x) => Releasing(x)'
    BY <1>0, <1>1, <1>2, <1>5 DEF Releasing
  <2>2. s \in subscribers' \/ Releasing(s)'
    BY <1>0, <1>1, <1>5 DEF Releasing
  <2> QED
    BY <1>0, <1>1, <1>2, <2>1, <2>2 DEF AddedAreHeld, SubscriberTypeOK
<1> QED
  BY <1>3, <1>4, <1>6, <1>7 DEF SubscriberInv

LEMMA RemoveSubscriberInv ==
    ASSUME SubscriberInv, NEW t \in Thread, NEW s \in Input, RemoveSubscriber(t, s)
    PROVE  SubscriberInv'
<1>0. /\ FanInInv /\ FanInTypeOK /\ SubscriberTypeOK /\ UnsubscribeProgress /\ AddedAreHeld
      /\ call \in [Thread -> {"absent", "none", "waiting", "add", "release", "unsubscribe",
                              "releaseAll", "closing", "ended"}]
      /\ t \in Goroutine /\ thread \in [Goroutine -> CallRecord]
  BY DEF SubscriberInv, FanInInv, FanInTypeOK, SubscriberTypeOK, Goroutine
<1>1. /\ UNCHANGED <<subClosed, unsubOnce, snapshot, parentDone, added, unsubscribed>>
      /\ call[t] = "none" /\ subscribers' = subscribers \ {s}
  BY DEF RemoveSubscriber
<1>2. CASE s \notin subscribers
  <2>1. UNCHANGED <<fanInVars, call>> /\ subscribers' = subscribers
    BY <1>2 DEF RemoveSubscriber
  <2>2. FanInInv'
    BY <1>0, <2>1 DEF FanInInv, FanInTypeOK, CallShape, WorkerShape, CloseProgress, Working,
                      fanInVars, base, output, inputs, history
  <2>3. UNCHANGED <<thread, outClosed, doneClosed, started>>
    BY <2>1 DEF fanInVars, base, output
  <2>4. UnsubscribeProgress' /\ AddedAreHeld'
    BY <1>0, <1>1, <2>1, <2>3, ProgressFrame
  <2>5. SubscriberTypeOK'
    BY <1>0, <1>1, <2>1 DEF SubscriberTypeOK
  <2> QED
    BY <2>2, <2>4, <2>5 DEF SubscriberInv
<1>3. CASE s \in subscribers
  <2>1. Call(t, "remove", s) /\ call' = [call EXCEPT ![t] = "release"]
    BY <1>3 DEF RemoveSubscriber
  <2>2. FanInInv'
    BY <1>0, <2>1, CallInv DEF CallPC
  <2>3. SubscriberTypeOK'
    BY <1>0, <1>1, <2>1 DEF SubscriberTypeOK
  <2>4. /\ thread'[t].ch = s /\ \A u \in Thread \ {t} : thread'[u] = thread[u]
        /\ UNCHANGED <<started, outClosed, doneClosed>>
    BY <1>0, <2>1, AtMoves DEF Call, CallPC, Goroutine, base, output
  <2>5. UnsubscribeProgress'
    BY <1>0, <1>1, <2>1, <2>4 DEF UnsubscribeProgress, SubscriberTypeOK
  <2>6. AddedAreHeld'
    <3>1. \A x \in Input : Releasing(x) => Releasing(x)'
      BY <1>0, <1>1, <2>1, <2>4 DEF Releasing
    <3>2. Releasing(s)'
      BY <1>0, <2>1, <2>4 DEF Releasing
    <3> QED
      BY <1>0, <1>1, <3>1, <3>2 DEF AddedAreHeld, SubscriberTypeOK
  <2> QED
    BY <2>2, <2>3, <2>5, <2>6 DEF SubscriberInv
<1> QED
  BY <1>2, <1>3

LEMMA ReleaseOneInv ==
    ASSUME SubscriberInv, NEW t \in Thread, ReleaseOne(t) \/ AddReturn(t)
    PROVE  SubscriberInv'
<1>0. /\ FanInInv /\ FanInTypeOK /\ SubscriberTypeOK /\ UnsubscribeProgress /\ AddedAreHeld
      /\ call \in [Thread -> {"absent", "none", "waiting", "add", "release", "unsubscribe",
                              "releaseAll", "closing", "ended"}]
      /\ t \in Goroutine /\ thread \in [Goroutine -> CallRecord]
  BY DEF SubscriberInv, FanInInv, FanInTypeOK, SubscriberTypeOK, Goroutine
<1>1. /\ UNCHANGED <<subscribers, subClosed, unsubOnce, snapshot, parentDone, added>>
      /\ call[t] \in {"add", "release"} /\ call' = [call EXCEPT ![t] = "none"]
      /\ thread[t].pc = "returned" /\ thread' = [thread EXCEPT ![t] = Idle]
      /\ UNCHANGED <<base, output, worker, nextValue, history>>
  BY DEF ReleaseOne, AddReturn, CallReturns, inputs
<1>2. /\ inputClosed' \in [Input -> BOOLEAN] /\ lastValue' \in [Input -> 0 .. MaxValues]
      /\ thread[t].ch \in Input
      /\ unsubscribed' = IF call[t] = "release" THEN unsubscribed \cup {thread[t].ch} ELSE unsubscribed
  <2>1. thread[t].ch \in Input
    BY <1>0, <1>1 DEF UnsubscribeProgress
  <2>2. CASE ReleaseOne(t)
    BY <1>0, <2>1, <2>2, ReleaseType DEF ReleaseOne
  <2>3. CASE AddReturn(t)
    BY <1>0, <2>1, <2>3 DEF AddReturn, CallReturns, inputs, FanInTypeOK
  <2> QED
    BY <2>2, <2>3
<1>3. FanInInv'
  BY <1>0, <1>1, <1>2, ReturnInv
<1>4. SubscriberTypeOK'
  BY <1>0, <1>1, <1>2 DEF SubscriberTypeOK
<1>5. /\ call'[t] = "none" /\ \A u \in Thread \ {t} : call'[u] = call[u] /\ thread'[u] = thread[u]
      /\ thread'[t] = Idle /\ UNCHANGED <<started, outClosed, doneClosed>>
  BY <1>0, <1>1 DEF Goroutine, base, output
<1>6. UnsubscribeProgress'
  <2>1. t = SubWatcher => started
    BY <1>0, <1>1 DEF UnsubscribeProgress
  <2> QED
    BY <1>0, <1>1, <1>5, <2>1 DEF UnsubscribeProgress
<1>7. AddedAreHeld'
  <2> SUFFICES ASSUME NEW s \in added
               PROVE  s \in unsubscribed' \cup subscribers \cup snapshot \/ Releasing(s)'
    BY <1>1 DEF AddedAreHeld
  <2>1. CASE Releasing(s)
    <3>1. PICK u \in Thread : call[u] = "release" /\ thread[u].ch = s
      BY <2>1 DEF Releasing
    <3> QED
      BY <1>2, <1>5, <3>1 DEF Releasing
  <2>2. CASE ~Releasing(s)
    BY <1>0, <1>2, <2>2 DEF AddedAreHeld
  <2> QED
    BY <2>1, <2>2
<1> QED
  BY <1>3, <1>4, <1>6, <1>7 DEF SubscriberInv

(* Unsubscribe and the goroutine that waits to call it.                    *)
LEMMA UnsubscribeInv ==
    ASSUME SubscriberInv, NEW t \in Thread,
           \/ UnsubscribeEnter(t) \/ UnsubscribeEach(t) \/ UnsubscribeClose(t)
           \/ UnsubscribeLeave(t) \/ CallUnsubscribe(t) \/ (t = SubWatcher /\ SubWatch)
    PROVE  SubscriberInv'
<1>0. /\ FanInInv /\ FanInTypeOK /\ SubscriberTypeOK /\ UnsubscribeProgress /\ AddedAreHeld
      /\ call \in [Thread -> {"absent", "none", "waiting", "add", "release", "unsubscribe",
                              "releaseAll", "closing", "ended"}]
      /\ t \in Goroutine /\ thread \in [Goroutine -> CallRecord]
  BY DEF SubscriberInv, FanInInv, FanInTypeOK, SubscriberTypeOK, Goroutine
<1>s. call[t] # "absent" => (t = SubWatcher => started)
  BY <1>0 DEF UnsubscribeProgress
<1>f. ASSUME UNCHANGED fanInVars
      PROVE  FanInInv' /\ UNCHANGED <<thread, outClosed, doneClosed, started>>
  BY <1>0, <1>f DEF FanInInv, FanInTypeOK, CallShape, WorkerShape, CloseProgress, Working,
                    fanInVars, base, output, inputs, history
<1>1. CASE CallUnsubscribe(t) \/ (t = SubWatcher /\ SubWatch)
  <2>1. /\ UNCHANGED <<fanInVars, subscribers, subClosed, unsubOnce, snapshot, parentDone, added,
                       unsubscribed>>
        /\ call[t] \in {"none", "waiting"} /\ call' = [call EXCEPT ![t] = "unsubscribe"]
    BY <1>1 DEF CallUnsubscribe, SubWatch
  <2>2. FanInInv' /\ UNCHANGED <<thread, outClosed, doneClosed, started>>
    BY <1>f, <2>1
  <2>3. SubscriberTypeOK'
    BY <1>0, <2>1 DEF SubscriberTypeOK
  <2>4. call'[t] = "unsubscribe" /\ \A u \in Thread \ {t} : call'[u] = call[u]
    BY <1>0, <2>1
  <2>5. UnsubscribeProgress'
    BY <1>0, <1>s, <2>1, <2>2, <2>4 DEF UnsubscribeProgress
  <2>6. \A s \in added : Releasing(s) => Releasing(s)'
    BY <2>1, <2>2, <2>4 DEF Releasing
  <2>7. AddedAreHeld'
    BY <1>0, <2>1, <2>6 DEF AddedAreHeld
  <2> QED
    BY <2>2, <2>3, <2>5, <2>7 DEF SubscriberInv
<1>2. CASE UnsubscribeEnter(t)
  <2>1. UNCHANGED <<fanInVars, parentDone, added, unsubscribed>> /\ call[t] = "unsubscribe"
    BY <1>2 DEF UnsubscribeEnter
  <2>2. FanInInv' /\ UNCHANGED <<thread, outClosed, doneClosed, started>>
    BY <1>f, <2>1
  <2>3. SubscriberTypeOK'
    BY <1>0, <1>2 DEF SubscriberTypeOK, UnsubscribeEnter
  <2>4. CASE unsubOnce = "fresh"
    <3>1. /\ unsubOnce' = "running" /\ subClosed' = TRUE /\ snapshot' = subscribers
          /\ subscribers' = {} /\ call' = [call EXCEPT ![t] = "releaseAll"]
      BY <1>2, <2>4 DEF UnsubscribeEnter
    <3>2. call'[t] = "releaseAll" /\ \A u \in Thread \ {t} : call'[u] = call[u]
      BY <1>0, <3>1
    <3>3. \A u \in Thread : call[u] \notin {"releaseAll", "closing", "ended"}
      BY <1>0, <2>4 DEF UnsubscribeProgress
    <3>4. UnsubscribeProgress'
      BY <1>0, <1>s, <2>1, <2>2, <3>1, <3>2, <3>3 DEF UnsubscribeProgress
    <3>5. \A s \in added : Releasing(s) => Releasing(s)'
      BY <2>1, <2>2, <3>2 DEF Releasing
    <3>6. snapshot = {}
      BY <1>0, <2>4 DEF UnsubscribeProgress
    <3>7. AddedAreHeld'
      BY <1>0, <2>1, <3>1, <3>3, <3>5, <3>6 DEF AddedAreHeld
    <3> QED
      BY <2>2, <2>3, <3>4, <3>7 DEF SubscriberInv
  <2>5. CASE unsubOnce = "over"
    <3>1. /\ UNCHANGED <<unsubOnce, subClosed, snapshot, subscribers>>
          /\ call' = [call EXCEPT ![t] = "ended"]
      BY <1>2, <2>5 DEF UnsubscribeEnter
    <3>2. call'[t] = "ended" /\ \A u \in Thread \ {t} : call'[u] = call[u]
      BY <1>0, <3>1
    <3>4. UnsubscribeProgress'
      BY <1>0, <1>s, <2>1, <2>2, <2>5, <3>1, <3>2 DEF UnsubscribeProgress
    <3>5. \A s \in added : Releasing(s) => Releasing(s)'
      BY <2>1, <2>2, <3>2 DEF Releasing
    <3>6. AddedAreHeld'
      BY <1>0, <2>1, <3>1, <3>5 DEF AddedAreHeld
    <3> QED
      BY <2>2, <2>3, <3>4, <3>6 DEF SubscriberInv
  <2> QED
    BY <1>2, <2>4, <2>5 DEF UnsubscribeEnter
<1>3. CASE UnsubscribeEach(t)
  <2>1. PICK s \in snapshot : Release(s) /\ snapshot' = snapshot \ {s}
    BY <1>3 DEF UnsubscribeEach
  <2>2. /\ UNCHANGED <<base, output, worker, thread, nextValue, history, subscribers, subClosed,
                       unsubOnce, call, parentDone, added>>
        /\ call[t] = "releaseAll"
    BY <1>3 DEF UnsubscribeEach
  <2>3. /\ inputClosed' \in [Input -> BOOLEAN] /\ lastValue' \in [Input -> 0 .. MaxValues]
        /\ unsubscribed' = unsubscribed \cup {s}
    BY <1>0, <2>1, ReleaseType DEF SubscriberTypeOK
  <2>4. FanInInv'
    BY <1>0, <2>2, <2>3 DEF FanInInv, FanInTypeOK, CallShape, WorkerShape, CloseProgress, Working,
                            base, output, history
  <2>5. SubscriberTypeOK'
    BY <1>0, <2>1, <2>2, <2>3 DEF SubscriberTypeOK
  <2>6. UnsubscribeProgress'
    BY <1>0, <2>1, <2>2 DEF UnsubscribeProgress, base, output
  <2>7. \A x \in added : Releasing(x) => Releasing(x)'
    BY <2>2 DEF Releasing
  <2>8. AddedAreHeld'
    BY <1>0, <2>1, <2>2, <2>3, <2>7 DEF AddedAreHeld
  <2> QED
    BY <2>4, <2>5, <2>6, <2>8 DEF SubscriberInv
<1>4. CASE UnsubscribeClose(t)
  <2>1. /\ UNCHANGED <<subscribers, subClosed, unsubOnce, snapshot, parentDone, added, unsubscribed>>
        /\ call[t] = "releaseAll" /\ snapshot = {} /\ call' = [call EXCEPT ![t] = "closing"]
        /\ Call(t, "once", NoInput)
    BY <1>4 DEF UnsubscribeClose
  <2>2. FanInInv'
    BY <1>0, <2>1, CallInv DEF CallPC
  <2>3. SubscriberTypeOK'
    BY <1>0, <2>1 DEF SubscriberTypeOK
  <2>4. /\ thread'[t].ch = NoInput /\ \A u \in Thread \ {t} : thread'[u] = thread[u]
        /\ UNCHANGED <<started, outClosed, doneClosed>>
    BY <1>0, <2>1, AtMoves DEF Call, CallPC, Goroutine, base, output
  <2>5. call'[t] = "closing" /\ \A u \in Thread \ {t} : call'[u] = call[u]
    BY <1>0, <2>1
  <2>6. UnsubscribeProgress'
    BY <1>0, <1>s, <2>1, <2>4, <2>5 DEF UnsubscribeProgress
  <2>7. \A s \in added : Releasing(s) => Releasing(s)'
    BY <2>1, <2>4, <2>5 DEF Releasing
  <2>8. AddedAreHeld'
    BY <1>0, <2>1, <2>7 DEF AddedAreHeld
  <2> QED
    BY <2>2, <2>3, <2>6, <2>8 DEF SubscriberInv
<1>5. CASE UnsubscribeLeave(t)
  <2>1. /\ UNCHANGED <<subscribers, subClosed, snapshot, parentDone, added, unsubscribed>>
        /\ call[t] = "closing" /\ unsubOnce' = "over" /\ call' = [call EXCEPT ![t] = "ended"]
        /\ CallReturns(t)
    BY <1>5 DEF UnsubscribeLeave
  <2>2. FanInInv'
    BY <1>0, <2>1, ReturnInv DEF CallReturns, inputs, FanInTypeOK
  <2>3. SubscriberTypeOK'
    BY <1>0, <2>1 DEF SubscriberTypeOK
  <2>4. /\ thread'[t] = Idle /\ \A u \in Thread \ {t} : thread'[u] = thread[u]
        /\ UNCHANGED <<started, outClosed, doneClosed>>
    BY <1>0, <2>1 DEF CallReturns, Goroutine, base, output
  <2>5. call'[t] = "ended" /\ \A u \in Thread \ {t} : call'[u] = call[u]
    BY <1>0, <2>1
  <2>6. outClosed /\ doneClosed /\ snapshot = {} /\ subClosed
    <3>1. thread[t].pc = "returned" /\ thread[t].ch = NoInput
      BY <1>0, <2>1 DEF CallReturns, UnsubscribeProgress
    <3> QED
      BY <1>0, <2>1, <3>1 DEF FanInInv, CloseProgress, UnsubscribeProgress
  <2>7. UnsubscribeProgress'
    BY <1>0, <1>s, <2>1, <2>4, <2>5, <2>6 DEF UnsubscribeProgress
  <2>8. \A s \in added : Releasing(s) => Releasing(s)'
    BY <2>1, <2>4, <2>5 DEF Releasing
  <2>9. AddedAreHeld'
    BY <1>0, <2>1, <2>8 DEF AddedAreHeld
  <2> QED
    BY <2>2, <2>3, <2>7, <2>9 DEF SubscriberInv
<1> QED
  BY <1>1, <1>2, <1>3, <1>4, <1>5

LEMMA SubscriberStepInv == SubscriberInv /\ [SubscriberNext]_subscriberVars => SubscriberInv'
<1> SUFFICES ASSUME SubscriberInv, [SubscriberNext]_subscriberVars PROVE SubscriberInv'
  OBVIOUS
<1>0. FanInInv /\ SubscriberTypeOK /\ UnsubscribeProgress /\ AddedAreHeld
  BY DEF SubscriberInv
<1>1. CASE SubscriberRun
  <2>1. /\ RunFanIn /\ call' = [call EXCEPT ![SubWatcher] = "waiting"]
        /\ UNCHANGED <<subscribers, subClosed, unsubOnce, snapshot, parentDone, added, unsubscribed>>
    BY <1>1 DEF SubscriberRun
  <2>2. FanInInv'
    BY <1>0, <2>1, RunInv
  <2>3. SubscriberTypeOK'
    BY <1>0, <2>1 DEF SubscriberTypeOK
  <2>4. /\ \A u \in Thread : thread'[u] = thread[u]
        /\ started' /\ ~started /\ UNCHANGED <<outClosed, doneClosed>>
    BY <1>0, <2>1, GoMoves, FanInAssumption
       DEF RunFanIn, output, Moved, FanInInv, FanInTypeOK, Goroutine, CallPC
  <2>5. /\ call[SubWatcher] = "absent" /\ call'[SubWatcher] = "waiting"
        /\ \A u \in Thread \ {SubWatcher} : call'[u] = call[u]
    BY <1>0, <2>1, <2>4, SubWatcherAssumption DEF UnsubscribeProgress, SubscriberTypeOK
  <2>6. UnsubscribeProgress'
    BY <1>0, <2>1, <2>4, <2>5 DEF UnsubscribeProgress
  <2>7. \A s \in added : Releasing(s) => Releasing(s)'
    BY <2>1, <2>4, <2>5 DEF Releasing
  <2>8. AddedAreHeld'
    BY <1>0, <2>1, <2>7 DEF AddedAreHeld
  <2> QED
    BY <2>2, <2>3, <2>6, <2>8 DEF SubscriberInv
<1>2. CASE CancelParent
  <2>1. CancelRun /\ parentDone' = TRUE
        /\ UNCHANGED <<subscribers, subClosed, unsubOnce, snapshot, call, added, unsubscribed>>
    BY <1>2 DEF CancelParent
  <2>2. FanInInv'
    BY <1>0, <2>1, EnvironmentInv
  <2>3. UnsubscribeProgress' /\ AddedAreHeld'
    BY <1>0, <2>1, FanInKeeps, ProgressFrame
  <2>4. SubscriberTypeOK'
    BY <1>0, <2>1 DEF SubscriberTypeOK
  <2> QED
    BY <2>2, <2>3, <2>4 DEF SubscriberInv
<1>3. CASE FanInGoroutines
  <2>1. UNCHANGED <<subscribers, subClosed, unsubOnce, snapshot, call, added, unsubscribed, parentDone>>
    BY <1>3 DEF FanInGoroutines, own
  <2>2. \/ Watch \/ ReadOutput
        \/ (\E t \in Goroutine : CallerStep(t)) \/ (\E w \in Worker : WorkerStep(w))
    BY <1>3 DEF FanInGoroutines
  <2>3. FanInInv'
    BY <1>0, <2>2, FanInStepInv DEF FanInStep
  <2>4. UnsubscribeProgress' /\ AddedAreHeld'
    BY <1>0, <2>1, <2>2, FanInKeeps, ProgressFrame
  <2>5. SubscriberTypeOK'
    BY <1>0, <2>1 DEF SubscriberTypeOK
  <2> QED
    BY <2>3, <2>4, <2>5 DEF SubscriberInv
<1>4. CASE SubWatch
  BY <1>4, UnsubscribeInv, SubWatcherAssumption
<1>5. ASSUME NEW t \in Thread, SubscriberStep(t) \/ CallUnsubscribe(t) PROVE SubscriberInv'
  BY <1>5, ReleaseOneInv, UnsubscribeInv DEF SubscriberStep
<1>6. ASSUME NEW t \in Thread, NEW s \in Input, AddSubscriber(t, s) \/ RemoveSubscriber(t, s)
      PROVE  SubscriberInv'
  BY <1>6, AddSubscriberInv, RemoveSubscriberInv
<1>7. CASE UNCHANGED subscriberVars
  <2>1. UNCHANGED <<base, output, worker, thread, inputs, history>> /\ UNCHANGED own
    BY <1>7 DEF subscriberVars, fanInVars
  <2> USE DEF base, output, inputs, history, own
  <2>2. FanInInv'
    BY <1>0, <2>1 DEF FanInInv, FanInTypeOK, CallShape, WorkerShape, CloseProgress, Working
  <2>3. SubscriberTypeOK'
    BY <1>0, <2>1 DEF SubscriberTypeOK
  <2>4. UnsubscribeProgress' /\ AddedAreHeld'
    BY <1>0, <2>1, ProgressFrame
  <2> QED
    BY <2>2, <2>3, <2>4 DEF SubscriberInv
<1> QED
  BY <1>1, <1>2, <1>3, <1>4, <1>5, <1>6, <1>7 DEF SubscriberNext

LEMMA SubscriberInvariance == SubscriberSpec => []SubscriberInv
<1> QED
  BY SubscriberInitInv, SubscriberStepInv, PTL DEF SubscriberSpec

(* The barriers hold underneath the subscriber fan-in as well, where       *)
(* Unsubscribe is a second sync.Once around Close (fan_in.go:122-175).     *)
THEOREM SubscriberReturnIsBarrier == SubscriberSpec => []ReturnIsBarrier
<1>1. SubscriberInv => ReturnIsBarrier
  BY InvIsBarrier DEF SubscriberInv
<1> QED
  BY <1>1, SubscriberInvariance, PTL

(* However AddSubscriber, RemoveSubscriber, Unsubscribe and the watcher    *)
(* interleave, no subscription outlives Unsubscribe, and every caller of   *)
(* it returns to a closed fan-in (subscriber_fun_in.go:57-121).            *)
THEOREM SubscriptionsAreReleased == SubscriberSpec => []NoLeakedSubscription
<1>1. SubscriberInv => NoLeakedSubscription
  <2> SUFFICES ASSUME SubscriberInv PROVE NoLeakedSubscription
    OBVIOUS
  <2>1. ASSUME unsubOnce = "over", NEW s \in added \ unsubscribed
        PROVE  \E t \in Thread : call[t] = "release" /\ thread[t].ch = s
    BY <2>1 DEF SubscriberInv, UnsubscribeProgress, AddedAreHeld, Releasing, SubscriberTypeOK
  <2>2. \A t \in Thread : call[t] = "ended" => outClosed /\ doneClosed /\ subscribers = {}
    BY DEF SubscriberInv, UnsubscribeProgress
  <2> QED
    BY <2>1, <2>2 DEF NoLeakedSubscription
<1> QED
  BY <1>1, SubscriberInvariance, PTL
=============================================================================
