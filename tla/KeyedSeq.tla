------------------------------ MODULE KeyedSeq ------------------------------
(***************************************************************************)
(* Sequences of records that carry a "key" field: what the operations of a *)
(* RandomAccessQueue (message_queue/random_access_queue.go) do to the      *)
(* contents of a queue.  The operators say nothing of how the queue is     *)
(* stored; ReplacingQueue.tla models the linked list and the table.        *)
(***************************************************************************)
EXTENDS Naturals, Sequences

HasKey(q, k) == \E i \in DOMAIN q : q[i].key = k

KeysDistinct(q) == \A i, j \in DOMAIN q : q[i].key = q[j].key => i = j

(* An item whose key is queued takes the place of the queued item; any     *)
(* other item goes to the back.                                            *)
Put(q, m) ==
    IF HasKey(q, m.key)
    THEN [i \in DOMAIN q |-> IF q[i].key = m.key THEN m ELSE q[i]]
    ELSE Append(q, m)

(* The value of an existing key is replaced, an unknown key is ignored.    *)
Renew(q, m) == IF HasKey(q, m.key) THEN Put(q, m) ELSE q

(* The items of other keys, in their order.                                *)
Without(q, k) ==
    LET kept[i \in 0 .. Len(q)] ==
          IF i = 0 THEN <<>>
          ELSE IF q[i].key # k THEN Append(kept[i - 1], q[i]) ELSE kept[i - 1]
    IN  kept[Len(q)]

DropHead(q) == IF q = <<>> THEN q ELSE Tail(q)
=============================================================================
