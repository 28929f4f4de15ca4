----------------------------- MODULE KeyedFifo ------------------------------
(***************************************************************************)
(* What a RandomAccessQueue promises: a FIFO of items with distinct keys   *)
(* in which a queued item can be replaced, found and removed by its key.   *)
(* "ret" is what the last call returned.                                   *)
(***************************************************************************)
EXTENDS KeyedSeq

CONSTANTS Key, Value

VARIABLES items, ret

vars == <<items, ret>>

Item == [key : Key, value : Value]

None == [ok |-> FALSE]

Found(v) == [ok |-> TRUE, value |-> v]

Init == items = <<>> /\ ret = None

Enqueue(m) ==
    /\ items' = Put(items, m)
    /\ ret' = [ok |-> HasKey(items, m.key), depth |-> Len(items')]

Dequeue ==
    /\ items' = DropHead(items)
    /\ ret' = IF items = <<>> THEN None ELSE Found(Head(items).value)

Front ==
    /\ UNCHANGED items
    /\ ret' = IF items = <<>> THEN None ELSE Found(Head(items).value)

Get(k) ==
    /\ UNCHANGED items
    /\ ret' = IF HasKey(items, k)
              THEN Found((CHOOSE m \in {items[i] : i \in DOMAIN items} : m.key = k).value)
              ELSE None

Update(m) ==
    /\ items' = Renew(items, m)
    /\ ret' = [ok |-> HasKey(items, m.key)]

Remove(k) ==
    /\ items' = Without(items, k)
    /\ ret' = [ok |-> HasKey(items, k)]

Clear == items' = <<>> /\ ret' = None

DropFront == items' = DropHead(items) /\ ret' = None

Depth == UNCHANGED items /\ ret' = [ok |-> TRUE, depth |-> Len(items)]

Next ==
    \/ \E m \in Item : Enqueue(m) \/ Update(m)
    \/ \E k \in Key : Get(k) \/ Remove(k)
    \/ Dequeue \/ Front \/ Clear \/ DropFront \/ Depth

Spec == Init /\ [][Next]_vars
=============================================================================
