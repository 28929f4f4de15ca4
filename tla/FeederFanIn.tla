---------------------------- MODULE FeederFanIn -----------------------------
(***************************************************************************)
(* message_queue/feeder_fan_in.go (and consumer_fan_in.go, which forwards  *)
(* to it): a fan-in that keeps the set of its feeders under a second       *)
(* mutex, feedersMu, released before the fan-in underneath is called.  A   *)
(* feeder is identified with its channel.                                  *)
(***************************************************************************)
EXTENDS FanIn

VARIABLES
    feeders,
    raced      \* history: feeders whose AddFeeder and RemoveFeeder overlapped, or added before Run

feederVars == <<fanInVars, feeders, raced>>

FeederInit == FanInInit /\ feeders = {} /\ raced = {}

(* A call that has changed the set and not yet the fan-in underneath.      *)
Between(pc, feeder) == \E t \in Thread : thread[t].pc = pc /\ thread[t].ch = feeder

AddFeeder(t, feeder) ==
    /\ Call(t, IF feeder \in feeders THEN "returned" ELSE "add", feeder)
    /\ feeders' = feeders \cup {feeder}
    /\ raced' = IF Between("remove", feeder) \/ ~started THEN raced \cup {feeder} ELSE raced

(* Faulty variant: the feeder is forgotten, its channel stays merged.      *)
RemoveFeederOnly(t, feeder) ==
    /\ Call(t, "returned", feeder)
    /\ feeders' = feeders \ {feeder}
    /\ raced' = IF Between("add", feeder) THEN raced \cup {feeder} ELSE raced \ {feeder}

RemoveFeeder(t, feeder) ==
    /\ Call(t, "remove", feeder)
    /\ feeders' = feeders \ {feeder}
    /\ raced' = IF Between("add", feeder) THEN raced \cup {feeder} ELSE raced \ {feeder}

FeederNext ==
    \/ FanInStep /\ UNCHANGED <<feeders, raced>>
    \/ \E t \in Thread :
          \/ (CallReturns(t) \/ Call(t, "once", NoInput)) /\ UNCHANGED <<feeders, raced>>
          \/ \E feeder \in Input : AddFeeder(t, feeder) \/ RemoveFeeder(t, feeder)

FeederSpec == FeederInit /\ [][FeederNext]_feederVars

-----------------------------------------------------------------------------
Quiet == \A t \in Thread : thread[t] = Idle

Merged == {ch \in Input : workers[ch] # NoWorker}

(* "RemoveFeeder stops merging feeder's channel."                          *)
(* (feeder_fan_in.go:56): when every call has returned, the channels that  *)
(* are merged are those of the known feeders, whatever else was called in  *)
(* between.  It fails for a feeder that one goroutine adds while another   *)
(* removes it, since AddFeeder releases feedersMu before it calls AddInput *)
(* (feeder_fan_in.go:50-53), and for one added before Run, which AddInput  *)
(* ignores (fan_in.go:84-87) and a later AddFeeder takes for known.        *)
KnownAreMerged == Quiet /\ ~fanInClosed => Merged \ raced = feeders \ raced
=============================================================================
