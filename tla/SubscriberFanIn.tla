-------------------------- MODULE SubscriberFanIn ---------------------------
(***************************************************************************)
(* message_queue/subscriber_fun_in.go: a fan-in that owns the              *)
(* subscriptions of its inputs.  A subscriber is identified with its       *)
(* channel; Subscriber.Unsubscribe (subscriber.go:83-87) ends in the       *)
(* consumer closing that channel.                                          *)
(***************************************************************************)
EXTENDS FanIn

CONSTANT SubWatcher         \* the goroutine SubscriberFanInBase.Run starts

ASSUME SubWatcherAssumption == SubWatcher \in Thread

VARIABLES
    subscribers,            \* guarded by subscribersMu
    subClosed,              \* SubscriberFanInBase.closed, not FanInBase.closed
    unsubOnce,              \* unsubscribeOnce
    snapshot,               \* what the body of Unsubscribe still has to unsubscribe
    call,                   \* the call a goroutine is in
    parentDone,             \* the context given to Run is done
    added, unsubscribed     \* history: subscribers given to AddSubscriber, released

own == <<subscribers, subClosed, unsubOnce, snapshot, call, parentDone, added, unsubscribed>>
subscriberVars == <<fanInVars, own>>

SubscriberInit ==
    /\ FanInInit
    /\ subscribers = {} /\ subClosed = FALSE /\ snapshot = {}
    /\ unsubOnce = "fresh"
    /\ call = [t \in Thread |-> IF t = SubWatcher THEN "absent" ELSE "none"]
    /\ parentDone = FALSE
    /\ added = {} /\ unsubscribed = {}

(* FanInBase.Run, then the goroutine that waits for ctx or Done.           *)
SubscriberRun ==
    /\ RunFanIn
    /\ call' = [call EXCEPT ![SubWatcher] = "waiting"]
    /\ UNCHANGED <<subscribers, subClosed, unsubOnce, snapshot, parentDone, added, unsubscribed>>

CancelParent ==
    /\ CancelRun
    /\ parentDone' = TRUE
    /\ UNCHANGED <<subscribers, subClosed, unsubOnce, snapshot, call, added, unsubscribed>>

SubWatch ==
    /\ call[SubWatcher] = "waiting"
    /\ parentDone \/ doneClosed
    /\ call' = [call EXCEPT ![SubWatcher] = "unsubscribe"]
    /\ UNCHANGED <<fanInVars, subscribers, subClosed, unsubOnce, snapshot, parentDone, added,
                   unsubscribed>>

(* Subscriber.Unsubscribe: the consumer closes the channel.                *)
Release(s) ==
    /\ unsubscribed' = unsubscribed \cup {s}
    /\ inputClosed' = [inputClosed EXCEPT ![s] = TRUE]
    /\ \E n \in nextValue[s] - 1 .. lastValue[s] :
          /\ inputClosed[s] => n = lastValue[s]
          /\ lastValue' = [lastValue EXCEPT ![s] = n]

(* Faulty variant: the closed flag is not tested.                          *)
AddSubscriberAlways(t, s) ==
    /\ call[t] = "none" /\ s \notin added
    /\ added' = added \cup {s}
    /\ subscribers' = subscribers \cup {s}
    /\ Call(t, "add", s)
    /\ call' = [call EXCEPT ![t] = "add"]
    /\ UNCHANGED <<subClosed, unsubOnce, snapshot, parentDone, unsubscribed>>

(* Bound: a subscriber is added once.                                      *)
AddSubscriber(t, s) ==
    /\ call[t] = "none" /\ s \notin added
    /\ added' = added \cup {s}
    /\ \/ /\ subClosed
          /\ Call(t, "returned", s)
          /\ call' = [call EXCEPT ![t] = "release"]
          /\ UNCHANGED subscribers
       \/ /\ ~subClosed
          /\ subscribers' = subscribers \cup {s}
          /\ Call(t, "add", s)
          /\ call' = [call EXCEPT ![t] = "add"]
    /\ UNCHANGED <<subClosed, unsubOnce, snapshot, parentDone, unsubscribed>>

RemoveSubscriber(t, s) ==
    /\ call[t] = "none"
    /\ subscribers' = subscribers \ {s}
    /\ \/ s \notin subscribers /\ UNCHANGED <<fanInVars, call>>
       \/ /\ s \in subscribers
          /\ Call(t, "remove", s)
          /\ call' = [call EXCEPT ![t] = "release"]
    /\ UNCHANGED <<subClosed, unsubOnce, snapshot, parentDone, added, unsubscribed>>

(* The last step of RemoveSubscriber, and of AddSubscriber when the fan-in *)
(* is closed: subscriber.Unsubscribe.                                      *)
ReleaseOne(t) ==
    /\ call[t] = "release"
    /\ thread[t].pc = "returned"
    /\ Release(thread[t].ch)
    /\ thread' = [thread EXCEPT ![t] = Idle]
    /\ call' = [call EXCEPT ![t] = "none"]
    /\ UNCHANGED <<base, output, worker, nextValue, history, subscribers, subClosed, unsubOnce,
                   snapshot, parentDone, added>>

AddReturn(t) ==
    /\ call[t] = "add"
    /\ CallReturns(t)
    /\ call' = [call EXCEPT ![t] = "none"]
    /\ UNCHANGED <<subscribers, subClosed, unsubOnce, snapshot, parentDone, added, unsubscribed>>

-----------------------------------------------------------------------------
(* Unsubscribe, under its own sync.Once.                                   *)

CallUnsubscribe(t) ==
    /\ call[t] = "none"
    /\ call' = [call EXCEPT ![t] = "unsubscribe"]
    /\ UNCHANGED <<fanInVars, subscribers, subClosed, unsubOnce, snapshot, parentDone, added,
                   unsubscribed>>

(* Faulty variant: the set is cleared before the snapshot is taken.        *)
UnsubscribeClearsFirst(t) ==
    /\ call[t] = "unsubscribe"
    /\ \/ /\ unsubOnce = "fresh"
          /\ unsubOnce' = "running"
          /\ subClosed' = TRUE
          /\ subscribers' = {}
          /\ snapshot' = {}
          /\ call' = [call EXCEPT ![t] = "releaseAll"]
       \/ /\ unsubOnce = "over"
          /\ call' = [call EXCEPT ![t] = "ended"]
          /\ UNCHANGED <<unsubOnce, subClosed, snapshot, subscribers>>
    /\ UNCHANGED <<fanInVars, parentDone, added, unsubscribed>>

UnsubscribeEnter(t) ==
    /\ call[t] = "unsubscribe"
    /\ \/ /\ unsubOnce = "fresh"
          /\ unsubOnce' = "running"
          /\ subClosed' = TRUE
          /\ snapshot' = subscribers
          /\ subscribers' = {}
          /\ call' = [call EXCEPT ![t] = "releaseAll"]
       \/ /\ unsubOnce = "over"
          /\ call' = [call EXCEPT ![t] = "ended"]
          /\ UNCHANGED <<unsubOnce, subClosed, snapshot, subscribers>>
    /\ UNCHANGED <<fanInVars, parentDone, added, unsubscribed>>

UnsubscribeEach(t) ==
    /\ call[t] = "releaseAll"
    /\ \E s \in snapshot : Release(s) /\ snapshot' = snapshot \ {s}
    /\ UNCHANGED <<base, output, worker, thread, nextValue, history, subscribers, subClosed,
                   unsubOnce, call, parentDone, added>>

UnsubscribeClose(t) ==
    /\ call[t] = "releaseAll"
    /\ snapshot = {}
    /\ Call(t, "once", NoInput)
    /\ call' = [call EXCEPT ![t] = "closing"]
    /\ UNCHANGED <<subscribers, subClosed, unsubOnce, snapshot, parentDone, added, unsubscribed>>

UnsubscribeLeave(t) ==
    /\ call[t] = "closing"
    /\ CallReturns(t)
    /\ unsubOnce' = "over"
    /\ call' = [call EXCEPT ![t] = "ended"]
    /\ UNCHANGED <<subscribers, subClosed, snapshot, parentDone, added, unsubscribed>>

SubscriberStep(t) ==
    \/ ReleaseOne(t) \/ AddReturn(t)
    \/ UnsubscribeEnter(t) \/ UnsubscribeEach(t) \/ UnsubscribeClose(t) \/ UnsubscribeLeave(t)

FanInGoroutines ==
    /\ Watch \/ ReadOutput \/ (\E t \in Goroutine : CallerStep(t))
         \/ (\E w \in Worker : WorkerStep(w))
    /\ UNCHANGED own

SubscriberNext ==
    \/ SubscriberRun \/ CancelParent \/ SubWatch
    \/ FanInGoroutines
    \/ \E t \in Thread :
          \/ SubscriberStep(t) \/ CallUnsubscribe(t)
          \/ \E s \in Input : AddSubscriber(t, s) \/ RemoveSubscriber(t, s)

SubscriberSpec == SubscriberInit /\ [][SubscriberNext]_subscriberVars

SubscriberFairness ==
    /\ WF_subscriberVars(Watch /\ UNCHANGED own)
    /\ WF_subscriberVars(SubWatch)
    /\ \A t \in Goroutine : WF_subscriberVars(CallerStep(t) /\ UNCHANGED own)
    /\ \A t \in Thread : WF_subscriberVars(SubscriberStep(t))
    /\ \A w \in Worker : WF_subscriberVars(WorkerStep(w) /\ UNCHANGED own)

FairSubscriberSpec == SubscriberSpec /\ SubscriberFairness

-----------------------------------------------------------------------------
(* No leaked subscription: once Unsubscribe is over, a subscriber that was *)
(* ever added has been unsubscribed, or the goroutine that adds or removes *)
(* it is about to do it, whichever way AddSubscriber, RemoveSubscriber and *)
(* Unsubscribe interleave (subscriber_fun_in.go:57-68, 76-87, 107-121);    *)
(* and every caller of Unsubscribe, not only the first, returns to a       *)
(* closed fan-in (subscriber_fun_in.go:105-107).                           *)
NoLeakedSubscription ==
    /\ unsubOnce = "over" =>
         \A s \in added \ unsubscribed : \E t \in Thread : call[t] = "release" /\ thread[t].ch = s
    /\ \A t \in Thread : call[t] = "ended" => outClosed /\ doneClosed /\ subscribers = {}

(* "external cancellation of ctx (not just an explicit Unsubscribe) still  *)
(* releases every subscription" (subscriber_fun_in.go:42-43).              *)
CancelReleasesAll == \A s \in Input : parentDone /\ s \in added ~> s \in unsubscribed

(* Every call returns although nobody reads Channel(): "It never blocks    *)
(* indefinitely" (RemoveInput, fan_in.go:125), and Close and Unsubscribe,  *)
(* also for the callers that wait for the one inside sync.Once, neither.   *)
CallsReturn ==
    \A t \in Thread :
       /\ call[t] = "unsubscribe" ~> call[t] = "ended"
       /\ call[t] \in {"add", "release"} ~> call[t] = "none"
=============================================================================
