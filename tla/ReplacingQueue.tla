--------------------------- MODULE ReplacingQueue ---------------------------
(***************************************************************************)
(* message_queue/replacing_queue.go: the queue as it is stored, a linked   *)
(* list of elements and a table from keys to elements.  An element is      *)
(* shared by the list and the table, so an operation that forgets one of   *)
(* the two leaves a dangling entry behind.                                 *)
(***************************************************************************)
EXTENDS Naturals, Sequences, Functions, FiniteSets

CONSTANTS Key, Value,
          Element      \* the *list.Element a PushBack may allocate

ASSUME ElementAssumption ==
    /\ IsFiniteSet(Key) /\ IsFiniteSet(Element)
    /\ Cardinality(Element) > Cardinality(Key)

VARIABLES
    list,              \* the elements of q.list, front first
    entry,             \* el.Value of the elements still referenced
    table,             \* q.table: a function from the present keys to elements
    ret                \* what the last call returned

vars == <<list, entry, table, ret>>

Entry == [key : Key, value : Value]

None == [ok |-> FALSE]

Found(v) == [ok |-> TRUE, value |-> v]

(* A Go map: m[k] = e, and delete(m, k).                                   *)
With(m, k, e) == [x \in DOMAIN m \cup {k} |-> IF x = k THEN e ELSE m[x]]
Minus(m, k) == [x \in DOMAIN m \ {k} |-> m[x]]

(* list.Remove(e): the neighbours of an element of the list are joined.    *)
Unlink(e) ==
    LET at == CHOOSE i \in DOMAIN list : list[i] = e
    IN  SubSeq(list, 1, at - 1) \o SubSeq(list, at + 1, Len(list))

Garbage == Element \ (Range(list) \cup Range(table))

(* What a step leaves unreferenced is collected.                           *)
Collect == entry' = Restrict(entry, Range(list') \cup Range(table'))

Init ==
    /\ list = <<>>
    /\ entry = <<>>
    /\ table = <<>>
    /\ ret = None

(* Faulty variant: a replaced item moves to the back, as the comment at    *)
(* replacing_queue.go:30 says.                                             *)
EnqueueMoves(key, value) ==
    \/ /\ key \in DOMAIN table
       /\ entry' = [entry EXCEPT ![table[key]] = [key |-> key, value |-> value]]
       /\ list' = Append(Unlink(table[key]), table[key])
       /\ ret' = [ok |-> TRUE, depth |-> Cardinality(DOMAIN table)]
       /\ UNCHANGED table
    \/ /\ key \notin DOMAIN table
       /\ \E el \in Garbage :
            /\ entry' = With(entry, el, [key |-> key, value |-> value])
            /\ list' = Append(list, el)
            /\ table' = With(table, key, el)
       /\ ret' = [ok |-> FALSE, depth |-> Cardinality(DOMAIN table')]

Enqueue(key, value) ==
    \/ /\ key \in DOMAIN table
       /\ entry' = [entry EXCEPT ![table[key]] = [key |-> key, value |-> value]]
       /\ ret' = [ok |-> TRUE, depth |-> Cardinality(DOMAIN table)]
       /\ UNCHANGED <<list, table>>
    \/ /\ key \notin DOMAIN table
       /\ \E el \in Garbage :
            /\ entry' = With(entry, el, [key |-> key, value |-> value])
            /\ list' = Append(list, el)
            /\ table' = With(table, key, el)
       /\ ret' = [ok |-> FALSE, depth |-> Cardinality(DOMAIN table')]

PopFront ==
    /\ list' = IF list = <<>> THEN list ELSE Tail(list)
    /\ table' = IF list = <<>> THEN table ELSE Minus(table, entry[Head(list)].key)
    /\ Collect

FrontValue == IF list = <<>> THEN None ELSE Found(entry[Head(list)].value)

Dequeue == PopFront /\ ret' = FrontValue

Front == ret' = FrontValue /\ UNCHANGED <<list, entry, table>>

Get(key) ==
    /\ ret' = IF key \in DOMAIN table THEN Found(entry[table[key]].value) ELSE None
    /\ UNCHANGED <<list, entry, table>>

Update(key, value) ==
    /\ entry' = IF key \in DOMAIN table
                THEN [entry EXCEPT ![table[key]] = [key |-> key, value |-> value]]
                ELSE entry
    /\ ret' = [ok |-> key \in DOMAIN table]
    /\ UNCHANGED <<list, table>>

Remove(key) ==
    /\ list' = IF key \in DOMAIN table THEN Unlink(table[key]) ELSE list
    /\ table' = Minus(table, key)
    /\ ret' = [ok |-> key \in DOMAIN table]
    /\ Collect

Clear == list' = <<>> /\ table' = <<>> /\ Collect /\ ret' = None

Depth ==
    /\ ret' = [ok |-> TRUE, depth |-> Cardinality(DOMAIN table)]
    /\ UNCHANGED <<list, entry, table>>

DropFront == PopFront /\ ret' = None

Next ==
    \/ \E key \in Key, value \in Value : Enqueue(key, value) \/ Update(key, value)
    \/ \E key \in Key : Get(key) \/ Remove(key)
    \/ Dequeue \/ Front \/ Clear \/ Depth \/ DropFront

Spec == Init /\ [][Next]_vars

-----------------------------------------------------------------------------
Contents == [i \in DOMAIN list |-> entry[list[i]]]

Abstract == INSTANCE KeyedFifo WITH items <- Contents

(* The stored queue behaves, return values included, like the keyed FIFO:  *)
(* a replaced item keeps its place, removal from the middle keeps the rest *)
(* in order, a peek leaves the queue alone (replacing_queue.go:33-128).    *)
(* Of the two comments on Enqueue the code and its test follow the second, *)
(* "replaced in current position" (replacing_queue.go:31); the first,      *)
(* "moves the item to the back" (:30), is not what it does.                *)
ImplementsKeyedFifo == Abstract!Spec

=============================================================================
