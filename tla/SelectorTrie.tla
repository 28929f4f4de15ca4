---------------------------- MODULE SelectorTrie ----------------------------
(***************************************************************************)
(* message_queue/selector_trie.go and level_trie.go: the registry of       *)
(* subscriptions by selectors.  Both tries store objects the same way and  *)
(* differ in Find.  A node is identified with the sequence of selectors    *)
(* that leads to it from the root; st.mu makes every operation one step.   *)
(***************************************************************************)
EXTENDS Naturals, Sequences, FiniteSets, TLC

CONSTANTS
    Selector,          \* the strings a selector can be set to
    Null,              \* the selector that is not set
    maxSelectors,
    MaxIndex           \* bound: objects registered in all

ASSUME SelectorTrieAssumption ==
    Null \notin Selector /\ maxSelectors \in Nat /\ MaxIndex \in Nat

VARIABLES
    nodes,             \* the nodes that can be reached from the root
    objects,           \* the indexes of the objects stored at a node
    indexCounter,
    subscription,      \* subscription[i]: the path recorded when i was registered
    registered         \* history: the selectors of the objects not yet unregistered

trieVars == <<nodes, objects, indexCounter, subscription, registered>>

Optional == Selector \cup {Null}

(* What GetSelectors may return: at most maxSelectors of them.             *)
Matchable == UNION {[1 .. n -> Optional] : n \in 0 .. maxSelectors}

Root == <<>>

Prefix(p, n) == SubSeq(p, 1, n)

Prefixes(p) == {Prefix(p, n) : n \in 0 .. Len(p)}

HasPrefix(p, q) == Len(q) <= Len(p) /\ Prefix(p, Len(q)) = q

TrieInit ==
    /\ nodes = {Root}
    /\ objects = (Root :> {})
    /\ indexCounter = 0
    /\ subscription = <<>>
    /\ registered = <<>>

anyRemainingSet(s, start) == \E i \in start .. Len(s) : s[i] # Null

(* Register descends while a set selector remains.                         *)
Descended(s) ==
    Prefix(s, Cardinality({i \in 1 .. Len(s) : i <= maxSelectors /\ anyRemainingSet(s, i)}))

Register(selectors) ==
    LET path == Descended(selectors)
        index == indexCounter + 1
        new == nodes \cup Prefixes(path)
    IN  /\ indexCounter < MaxIndex
        /\ indexCounter' = index
        /\ subscription' = Append(subscription, path)
        /\ nodes' = new
        /\ objects' = [p \in new |-> (IF p \in nodes THEN objects[p] ELSE {})
                                       \cup (IF p = path THEN {index} ELSE {})]
        /\ registered' = (index :> selectors) @@ registered


(* The nodes on the path below which nothing is left, deepest first up to  *)
(* the first one that has an object or another child.                      *)
Prunable(path, index) ==
    {p \in Prefixes(path) \ {Root} :
        \A q \in nodes : HasPrefix(q, p) => HasPrefix(path, q) /\ objects[q] \subseteq {index}}

Unregister(index) ==
    LET path == subscription[index]
        left == nodes \ Prunable(path, index)
    IN  /\ index \in 1 .. indexCounter
        /\ path \in nodes /\ index \in objects[path]
        /\ nodes' = left
        /\ objects' = [p \in left |-> objects[p] \ {index}]
        /\ registered' = [i \in DOMAIN registered \ {index} |-> registered[i]]
        /\ UNCHANGED <<indexCounter, subscription>>

TrieNext ==
    \/ \E selectors \in Matchable : Register(selectors)
    \/ \E index \in 1 .. indexCounter : Unregister(index)

TrieSpec == TrieInit /\ [][TrieNext]_trieVars

-----------------------------------------------------------------------------
(* SelectorTrie.Find: one walk.  At every level the child of the selector, *)
(* else the child of Null, else the walk ends.                             *)
Walk(key) ==
    LET walk[i \in 0 .. Len(key)] ==
          IF i = 0 THEN Root
          ELSE LET at == walk[i - 1]
                   specific == Append(at, key[i])
                   general == Append(at, Null)
               IN  IF Len(at) < i - 1 THEN at
                   ELSE IF key[i] # Null /\ specific \in nodes THEN specific
                   ELSE IF general \in nodes THEN general
                   ELSE at
    IN walk[Len(key)]

SelectorFind(key) == UNION {objects[p] : p \in Prefixes(Walk(key))}

(* LevelTrie.Find: the search branches to both children.                   *)
Search(key) ==
    LET level[d \in 0 .. Len(key)] ==
          IF d = 0 THEN {Root}
          ELSE {Append(p, s) : p \in level[d - 1], s \in {key[d], Null}} \cap nodes
    IN UNION {level[d] : d \in 0 .. Len(key)}

LevelFind(key) == UNION {objects[p] : p \in Search(key)}

-----------------------------------------------------------------------------
(* Selectors reg accept a lookup key: every selector that is set is the    *)
(* key's.                                                                  *)
Accepts(reg, key) ==
    \A i \in 1 .. Len(reg) : reg[i] # Null => i <= Len(key) /\ key[i] = reg[i]

Matching(key) == {i \in DOMAIN registered : Accepts(registered[i], key)}

(* Object i is hidden from a key: where i leaves a selector unset, another *)
(* live object has the key's selector after the same beginning.            *)
Hidden(i, key) ==
    LET p == Descended(registered[i]) IN
    \E n \in 1 .. Len(p) :
       /\ p[n] = Null /\ key[n] # Null
       /\ \E j \in DOMAIN registered :
            HasPrefix(Descended(registered[j]), Append(Prefix(p, n - 1), key[n]))

=============================================================================
