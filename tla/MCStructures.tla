---------------------------- MODULE MCStructures ----------------------------
(***************************************************************************)
(* The sequential structures for TLC: the stored queue and the registry of *)
(* subscriptions of message_queue, and the filters of the database.  They  *)
(* share nothing, so a behaviour drives one of them, chosen at the start,  *)
(* and the state spaces add up.  Selector strings are interchangeable.     *)
(***************************************************************************)
EXTENDS ReplacingQueue, SelectorTrie, DbFilter

(* A table with strings, a time that may be NULL, and a field without      *)
(* index.                                                                  *)
MCTypeOf == [id |-> "String", s |-> "String", n |-> "Int", b |-> "Bool", t |-> "Time", u |-> "String"]
MCRows == {[id |-> 1, s |-> 1, n |-> 1, b |-> 1, t |-> 1, u |-> 1],
           [id |-> 2, s |-> 1, n |-> 2, b |-> 2, t |-> 0, u |-> 2],
           [id |-> 3, s |-> 3, n |-> 2, b |-> 1, t |-> 2, u |-> 1]}

(* One condition of every kind...                                          *)
On(f, v) == Plain(f) :> v
Intervals == {i \in [From : 0 .. 2, To : 0 .. 2, FromOpen : BOOLEAN, ToOpen : BOOLEAN] :
                (i.From = 0 => ~i.FromOpen) /\ (i.To = 0 => ~i.ToOpen)}
Conditions ==
    {Empty}
    \cup {[Empty EXCEPT !.Fields = On(f, v)] : f \in {"s", "n", "b", "t", "u"}, v \in {1, 2}}
    \cup {[Empty EXCEPT !.FieldsIn = On(f, vs)] : f \in {"n", "t"}, vs \in {<<>>, <<2>>, <<1, 2>>}}
    \cup {[Empty EXCEPT !.FieldsNotIn = On(f, vs)] : f \in {"n", "t"}, vs \in {<<>>, <<1>>}}
    \cup {[Empty EXCEPT !.Intervals = On(f, i)] : f \in {"id", "t"}, i \in Intervals}
    \cup {[Empty EXCEPT !.IntervalsOrNull = On("t", i)] : i \in {i \in Intervals : i.To = 2 /\ i.ToOpen}}
    \cup {[Empty EXCEPT !.BetweenFields = <<[FromField |-> Plain("s"), ToField |-> Plain("id"), Value |-> 2,
                                            FromOpen |-> FALSE, ToOpen |-> FALSE]>>]}
    \cup {[Empty EXCEPT !.OrFields = <<[Value |-> 1, Fields |-> fs]>>] :
            fs \in {<<Plain("id")>>, <<Plain("id"), Plain("s")>>, <<Plain("id"), Plain("u")>>}}

(* ... alone and with a second one, and every page of some of them.        *)
Orders == {<<"n", "ASC">>, <<"t", "DESC">>, <<"n", "up">>, <<"u", "ASC">>}
Pages == [offset : {0, 1}, limit : {-1, 1, 3}, order : Orders, count : BOOLEAN, all : BOOLEAN]
MCFilters ==
    Conditions
    \cup {[c EXCEPT !.Fields = On("n", 2), !.Count = TRUE] : c \in {c \in Conditions : c.Fields = NoConditions}}
    \cup {[Empty EXCEPT !.Fields = fields, !.SortField = Plain(p.order[1]), !.SortDirection = p.order[2],
            !.Offset = p.offset, !.Limit = p.limit, !.Count = p.count, !.NoLimit = p.all] :
            fields \in {NoConditions, On("n", 2)}, p \in Pages}

VARIABLE driven        \* which of them is called

StructuresInit ==
    /\ Init /\ TrieInit /\ DbInit
    /\ driven \in {"queue", "trie", "filter"}
    /\ driven # "filter" => dbTable = {}

DriveQueue == driven = "queue" /\ Next /\ UNCHANGED <<driven, trieVars, dbVars>>

DriveTrie == driven = "trie" /\ TrieNext /\ UNCHANGED <<driven, vars, dbVars>>

DriveFilter == driven = "filter" /\ DbNext /\ UNCHANGED <<driven, vars, trieVars>>

StructuresSpec ==
    StructuresInit
    /\ [][DriveQueue \/ DriveTrie \/ DriveFilter]_<<vars, trieVars, dbVars, driven>>

Symmetry == Permutations(Selector)
=============================================================================
