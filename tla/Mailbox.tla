------------------------------ MODULE Mailbox -------------------------------
(***************************************************************************)
(* What a message_queue.Consumer promises between Consume and the reader   *)
(* of its channel: messages are handed over in order, except that, before  *)
(* it is in the reader's channel,                                          *)
(*   - a message may take the place of an older one with the same key      *)
(*     (conflation),                                                       *)
(*   - the oldest one, and no other, may be dropped while more than        *)
(*     MaxDepth messages wait (MaxDepth = 0: never), and                   *)
(*   - once the mailbox is closing anything may go.                        *)
(* Nothing is duplicated, invented or lost in any other way.               *)
(***************************************************************************)
EXTENDS Naturals, Sequences

CONSTANTS Key, Message, MaxDepth

VARIABLES
    pending,      \* accepted and not yet received, oldest first
    handed,       \* how many of them, at the front, are in the reader's channel
    received,     \* received[k]: id of the last message of key k received
    closing,      \* Close was called or the context was cancelled
    stopped       \* nothing more will be accepted

vars == <<pending, handed, received, closing, stopped>>

Init ==
    /\ pending = <<>>
    /\ handed = 0
    /\ received = [k \in Key |-> 0]
    /\ closing = FALSE
    /\ stopped = FALSE

CutAt(s, i) == [x \in 1 .. Len(s) - 1 |-> IF x < i THEN s[x] ELSE s[x + 1]]

Fresh(m) ==
    /\ \A i \in DOMAIN pending : pending[i].id < m.id
    /\ received[m.key] < m.id

Accept ==
    /\ ~stopped
    /\ \E m \in Message : Fresh(m) /\ pending' = Append(pending, m)
    /\ UNCHANGED <<handed, received, closing, stopped>>

Hand ==
    /\ handed < Len(pending)
    /\ handed' = handed + 1
    /\ UNCHANGED <<pending, received, closing, stopped>>

Deliver ==
    /\ handed > 0
    /\ received' = [received EXCEPT ![Head(pending).key] = Head(pending).id]
    /\ pending' = Tail(pending)
    /\ handed' = handed - 1
    /\ UNCHANGED <<closing, stopped>>

(* s[j] takes the place of the last earlier message with its key, which    *)
(* was not among the first n.                                              *)
Conflated(s, i, j) == CutAt([s EXCEPT ![i] = s[j]], j)

Conflates(n, s, t) ==
    \E i, j \in DOMAIN s :
       /\ n < i /\ i < j /\ s[i].key = s[j].key
       /\ \A x \in i + 1 .. j - 1 : s[x].key # s[i].key
       /\ t = Conflated(s, i, j)

Conflate ==
    /\ Conflates(handed, pending, pending')
    /\ UNCHANGED <<handed, received, closing, stopped>>

(* The oldest waiting message goes.  The message it made room for may then *)
(* take the place of another one.                                          *)
Trim ==
    /\ MaxDepth # 0
    /\ Len(pending) - handed > MaxDepth
    /\ LET rest == CutAt(pending, handed + 1)
       IN  pending' = rest \/ Conflates(handed, rest, pending')
    /\ UNCHANGED <<handed, received, closing, stopped>>

Close ==
    /\ closing' = TRUE
    /\ UNCHANGED <<pending, handed, received, stopped>>

Discard ==
    /\ closing
    /\ \E i \in DOMAIN pending : handed < i /\ pending' = CutAt(pending, i)
    /\ UNCHANGED <<handed, received, closing, stopped>>

(* What the reader's channel already holds stays receivable.               *)
Stop ==
    /\ closing
    /\ stopped' = TRUE
    /\ pending' = SubSeq(pending, 1, handed)
    /\ UNCHANGED <<handed, received, closing>>

Next == Accept \/ Hand \/ Deliver \/ Conflate \/ Trim \/ Close \/ Discard \/ Stop

Spec == Init /\ [][Next]_vars
=============================================================================
