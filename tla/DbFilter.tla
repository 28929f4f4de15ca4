------------------------------ MODULE DbFilter ------------------------------
(***************************************************************************)
(* db.Filter, from the caller to the rows (pkg/db/filter.go, db_gorm):     *)
(* ToQuery writes a filter as text for the API, the filter parser reads it *)
(* back, prepareFilter makes it the WHERE clause, find counts and reads a  *)
(* page in two statements, between which another client may write.         *)
(*                                                                         *)
(* Every value is a number, 0 is NULL or nil.  What text keeps of a value  *)
(* is how it was written; false is 1 and true is 2.  A condition is the    *)
(* set of the rows it selects.  PresetFields, which nothing in the         *)
(* repository sets, and the rules of the validator for values are left     *)
(* out.  A request is served by PostgreSQL, the default of db_gorm.        *)
(***************************************************************************)
EXTENDS Integers, Sequences, FiniteSets
LOCAL INSTANCE SequencesExt

CONSTANTS
    Rows,          \* the rows that can be in the table, each a function from its fields to values
    TypeOf,        \* the data type of each field: "String", "Int", "Bool" or "Time"
    Indexes,       \* the fields that have an index
    DbFilters,     \* the filters that callers make
    MaxLimit       \* MAX_FILTER_LIMIT, 0 is no limit

ASSUME DbFilterAssumption ==
    /\ Indexes \subseteq DOMAIN TypeOf /\ MaxLimit \in Nat
    /\ \A r \in Rows : DOMAIN r = DOMAIN TypeOf

VARIABLES
    dbTable,       \* the rows that are there
    ask            \* the request that is served

dbVars == <<dbTable, ask>>

(* A column as it is named in a filter: plain, or with its table.          *)
Plain(f) == <<f>>
FullDbName(f) == <<"table", f>>
Column(name) == name[Len(name)]

NoConditions == [x \in {} |-> 0]

Empty == [Fields |-> NoConditions, FieldsIn |-> NoConditions, FieldsNotIn |-> NoConditions,
          Intervals |-> NoConditions, IntervalsOrNull |-> NoConditions,
          BetweenFields |-> <<>>, OrFields |-> <<>>, SortField |-> <<>>, SortDirection |-> "",
          Offset |-> 0, Limit |-> 0, Count |-> FALSE, NoLimit |-> FALSE]

(* A missing filter: every row, and no page.                               *)
Nil == [Empty EXCEPT !.NoLimit = TRUE]

Refused == [refused |-> TRUE]

-----------------------------------------------------------------------------
(* Filter to query.  fmt writes a time in a form of its own; who writes a  *)
(* query by hand uses a form that ParseTime reads.                         *)

filterValueToString(f, v) ==
    CASE TypeOf[f] = "String" -> <<"text", v>>
      [] TypeOf[f] = "Int"    -> <<"decimal", v>>
      [] TypeOf[f] = "Bool"   -> <<"word", v>>
      [] TypeOf[f] = "Time"   -> <<"time.String", v>>

ByHand(f, v) == IF TypeOf[f] = "Time" THEN <<"date and time", v>> ELSE filterValueToString(f, v)

ToQueryBy(author, filter) ==
    LET Text(f, v) == IF author = "hand" THEN ByHand(f, v) ELSE filterValueToString(f, v)
        bound(f, v) == IF v = 0 THEN <<>> ELSE Text(f, v)
        listed(values) == [name \in DOMAIN values |-> [i \in DOMAIN values[name] |-> Text(Column(name), values[name][i])]]
    IN [filter EXCEPT
          !.Fields = [name \in DOMAIN @ |-> Text(Column(name), @[name])],
          !.FieldsIn = listed(@),
          !.FieldsNotIn = listed(@),
          !.Intervals = [name \in DOMAIN @ |->
              [@[name] EXCEPT !.From = bound(Column(name), @), !.To = bound(Column(name), @)]],
          !.IntervalsOrNull = NoConditions,
          !.BetweenFields = [i \in DOMAIN @ |-> [@[i] EXCEPT !.Value = Text(Column(filter.BetweenFields[i].FromField), @)]],
          !.OrFields = [i \in DOMAIN @ |-> [@[i] EXCEPT !.Value = Text(Column(filter.OrFields[i].Fields[1]), @)]],
          !.NoLimit = FALSE]

ToQuery(filter) == ToQueryBy("client", filter)

-----------------------------------------------------------------------------
(* Query to filter.                                                        *)

CanConvert(f, text) ==
    text[1] \in CASE TypeOf[f] = "String" -> {text[1]}
                  [] TypeOf[f] = "Int"    -> {"decimal"}
                  [] TypeOf[f] = "Bool"   -> {"word"}
                  [] TypeOf[f] = "Time"   -> {"date and time"}

(* Both words are TRUE for StrToBool (utils/conversions.go:218).           *)
convertValue(f, text) == IF TypeOf[f] = "Bool" THEN 2 ELSE text[2]

(* Only fields with an index can be asked for.                             *)
ParseValidateField(name, text) == Column(name) \in Indexes /\ CanConvert(Column(name), text)

FilterConfigIsValid(query) ==
    query.Offset >= 0 /\ query.Limit >= 0 /\ query.SortDirection \in {"", "ASC", "DESC"}

IsParsed(query) ==
    LET allParsed(values) == \A name \in DOMAIN values :
            \A i \in DOMAIN values[name] : ParseValidateField(name, values[name][i])
        boundParsed(name, text) == text # <<>> => ParseValidateField(name, text)
    IN /\ query.SortField # <<>> => Column(query.SortField) \in Indexes
       /\ \A name \in DOMAIN query.Fields : ParseValidateField(name, query.Fields[name])
       /\ allParsed(query.FieldsIn) /\ allParsed(query.FieldsNotIn)
       /\ \A name \in DOMAIN query.Intervals :
            boundParsed(name, query.Intervals[name].From) /\ boundParsed(name, query.Intervals[name].To)
       /\ \A b \in ToSet(query.BetweenFields) :
            ParseValidateField(b.FromField, b.Value) /\ ParseValidateField(b.ToField, b.Value)
       /\ \A o \in ToSet(query.OrFields) : \A f \in ToSet(o.Fields) : ParseValidateField(f, o.Value)

(* The names become full names, but that of an empty list stays as it is   *)
(* and an interval without bounds is dropped.                              *)
Converted(query) ==
    LET full(name) == FullDbName(Column(name))
        value(name, text) == convertValue(Column(name), text)
        bound(name, text) == IF text = <<>> THEN 0 ELSE value(name, text)
        keyed(values, Name(_), Value(_)) ==
            [key \in {Name(n) : n \in DOMAIN values} |-> Value(CHOOSE n \in DOMAIN values : Name(n) = key)]
        listed(values) == keyed(values,
            LAMBDA n : IF values[n] = <<>> THEN n ELSE full(n),
            LAMBDA n : [i \in DOMAIN values[n] |-> value(n, values[n][i])])
        bounded == [n \in {n \in DOMAIN query.Intervals :
                             query.Intervals[n].From # <<>> \/ query.Intervals[n].To # <<>>} |-> query.Intervals[n]]
    IN [query EXCEPT
          !.SortField = IF @ = <<>> THEN @ ELSE full(@),
          !.Fields = keyed(@, full, LAMBDA n : value(n, query.Fields[n])),
          !.FieldsIn = listed(@),
          !.FieldsNotIn = listed(@),
          !.Intervals = keyed(bounded, full, LAMBDA n :
              [bounded[n] EXCEPT !.From = bound(n, @), !.To = bound(n, @)]),
          !.BetweenFields = [i \in DOMAIN @ |-> [@[i] EXCEPT !.FromField = full(@), !.ToField = full(@),
                                                 !.Value = value(query.BetweenFields[i].FromField, @)]],
          !.OrFields = [i \in DOMAIN @ |-> [@[i] EXCEPT !.Fields = [j \in DOMAIN @ |-> full(@[j])],
                                            !.Value = value(Last(query.OrFields[i].Fields), @)]]]

(* Parse: the API validates the configuration of the query, the consoles   *)
(* have no validator.                                                      *)
Parse(query, validated) ==
    IF (validated => FilterConfigIsValid(query)) /\ IsParsed(query) THEN Converted(query) ELSE Refused

(* What the database is asked for: a filter of the same process, one that  *)
(* comes through the API, one that was typed at a console.                 *)
ParseQuery(filter, via) ==
    CASE via = "direct"  -> filter
      [] via = "api"     -> Parse(ToQuery(filter), TRUE)
      [] via = "console" -> Parse(ToQueryBy("hand", filter), FALSE)

-----------------------------------------------------------------------------
(* Filter to WHERE.  A condition on NULL is not true.                      *)

(* Faulty variant: an interval is never open.                              *)
compareOpClosed(isOpen, a, b) == a # 0 /\ b # 0 /\ a >= b

compareOp(isOpen, a, b) == a # 0 /\ b # 0 /\ (IF isOpen THEN a > b ELSE a >= b)

InInterval(v, interval) ==
    IF interval.From # 0 /\ interval.From = interval.To THEN v = interval.From
    ELSE /\ interval.From # 0 => compareOp(interval.FromOpen, v, interval.From)
         /\ interval.To # 0 => compareOp(interval.ToOpen, interval.To, v)

prepareInterval(rows, name, interval) == {r \in rows : InInterval(r[Column(name)], interval)}

prepareIntervalOrNull(rows, name, interval) ==
    {r \in rows : r[Column(name)] = 0 \/ InInterval(r[Column(name)], interval)}

(* The WHERE clause, a sequence of conditions: each is joined to what is   *)
(* before it by AND, or by OR.  No value is in the empty list, and none    *)
(* is not in it: gorm writes it as a list of one NULL.                     *)
And(rows) == [or |-> FALSE, rows |-> rows]
Or(rows) == [or |-> TRUE, rows |-> rows]

prepareFilter(rows, filter) ==
    LET each(names, Selects(_)) == [i \in 1 .. Cardinality(names) |-> And(Selects(SetToSeq(names)[i]))]
        eq(name, v) == {r \in rows : r[Column(name)] = v}
        either(o) == [j \in DOMAIN o.Fields |-> IF j = 1 THEN And(eq(o.Fields[j], o.Value)) ELSE Or(eq(o.Fields[j], o.Value))]
    IN each(DOMAIN filter.Fields, LAMBDA n : eq(n, filter.Fields[n]))
       \o each(DOMAIN filter.FieldsIn, LAMBDA n : {r \in rows : r[Column(n)] \in ToSet(filter.FieldsIn[n])})
       \o each(DOMAIN filter.FieldsNotIn, LAMBDA n :
             {r \in rows : filter.FieldsNotIn[n] # <<>> /\ r[Column(n)] \notin ToSet(filter.FieldsNotIn[n]) \cup {0}})
       \o each(DOMAIN filter.Intervals, LAMBDA n : prepareInterval(rows, n, filter.Intervals[n]))
       \o each(DOMAIN filter.IntervalsOrNull, LAMBDA n : prepareIntervalOrNull(rows, n, filter.IntervalsOrNull[n]))
       \o [i \in DOMAIN filter.BetweenFields |->
             LET b == filter.BetweenFields[i]
             IN And({r \in rows : /\ compareOp(b.FromOpen, b.Value, r[Column(b.FromField)])
                                  /\ compareOp(b.ToOpen, b.Value, r[Column(b.ToField)])})]
       \o FlattenSeq([i \in DOMAIN filter.OrFields |-> either(filter.OrFields[i])])

(* AND binds more tightly than OR: the conditions between two ORs hold     *)
(* together.                                                               *)
Selected(rows, filter) ==
    LET where == prepareFilter(rows, filter)
        starts == {i \in DOMAIN where : i = 1 \/ where[i].or}
        run(i) == {j \in i .. Len(where) : \A k \in i + 1 .. j : ~where[k].or}
    IN IF where = <<>> THEN rows ELSE {r \in rows : \E i \in starts : \A j \in run(i) : r \in where[j].rows}

(* All but Fields and OrFields put the name between quotes in the text of  *)
(* the statement: a full name is no column there and the statement fails.  *)
IsStatement(filter) ==
    LET quoted == DOMAIN filter.FieldsIn \cup DOMAIN filter.FieldsNotIn \cup DOMAIN filter.Intervals
                  \cup DOMAIN filter.IntervalsOrNull
                  \cup UNION {{b.FromField, b.ToField} : b \in ToSet(filter.BetweenFields)}
    IN \A name \in quoted : Len(name) = 1

(* ORDER BY, NULL last; rows that are equal in it come in any order.       *)
HasOrder(filter) == filter.SortField # <<>> /\ filter.SortDirection \in {"ASC", "DESC"}
SortKey(filter, r) == IF r[Column(filter.SortField)] = 0 THEN 100 ELSE r[Column(filter.SortField)]
Precedes(filter, r, q) ==
    /\ HasOrder(filter)
    /\ IF filter.SortDirection = "ASC" THEN SortKey(filter, r) < SortKey(filter, q)
                                       ELSE SortKey(filter, r) > SortKey(filter, q)
SetFilter(rows, filter) ==
    {s \in SetToSeqs(Selected(rows, filter)) : \A i, j \in DOMAIN s : i < j => ~Precedes(filter, s[j], s[i])}

Paginate(s, filter) ==
    LET offset == IF filter.Offset > 0 THEN filter.Offset ELSE 0
        capped == ~filter.NoLimit /\ MaxLimit > 0
        limit == IF filter.Limit <= 0 THEN (IF capped THEN MaxLimit ELSE Len(s))
                 ELSE IF capped /\ filter.Limit > MaxLimit THEN MaxLimit ELSE filter.Limit
    IN SubSeq(s, offset + 1, IF offset + limit < Len(s) THEN offset + limit ELSE Len(s))

-----------------------------------------------------------------------------
(* A request, one at a time.                                               *)

Idle == [stage |-> "idle"]

DbInit == dbTable \in SUBSET Rows /\ ask = Idle

(* List, or Exists, with a filter or with none.                            *)
FindWithFilter(filter, via, exists) ==
    LET used == IF filter = Nil THEN Nil ELSE ParseQuery(filter, via)
    IN /\ ask.stage = "idle"
       /\ ask' = [stage |-> IF used = Refused THEN "refused"
                            ELSE IF exists THEN "exists"
                            ELSE IF used.Count THEN "count" ELSE "find",
                  filter |-> filter, via |-> via, used |-> used, count |-> 0, wrote |-> FALSE]
       /\ UNCHANGED dbTable

StatementFails ==
    /\ ask.stage \in {"count", "find", "exists"} /\ ~IsStatement(ask.used)
    /\ ask' = [ask EXCEPT !.stage = "refused"]
    /\ UNCHANGED dbTable

CountRows ==
    /\ ask.stage = "count" /\ IsStatement(ask.used)
    /\ ask' = [ask EXCEPT !.stage = "find", !.count = Cardinality(Selected(dbTable, ask.used))]
    /\ UNCHANGED dbTable

(* The count is not below the number of rows that were read.               *)
FindRows ==
    /\ ask.stage = "find" /\ IsStatement(ask.used)
    /\ \E s \in SetFilter(dbTable, ask.used) :
         LET rows == Paginate(s, ask.used)
         IN ask' = [stage |-> "found", filter |-> ask.filter, via |-> ask.via, rows |-> rows,
                    count |-> IF Len(rows) > ask.count THEN Len(rows) ELSE ask.count, wrote |-> ask.wrote]
    /\ UNCHANGED dbTable

Exists ==
    /\ ask.stage = "exists" /\ IsStatement(ask.used)
    /\ ask' = [stage |-> "told", filter |-> ask.filter, via |-> ask.via, exists |-> Selected(dbTable, ask.used) # {}]
    /\ UNCHANGED dbTable

(* Another client creates or deletes a row between the two statements.     *)
OtherWrites(r) ==
    /\ ask.stage = "find" /\ ask.used.Count /\ ~ask.wrote
    /\ dbTable' = IF r \in dbTable THEN dbTable \ {r} ELSE dbTable \cup {r}
    /\ ask' = [ask EXCEPT !.wrote = TRUE]

DbNext ==
    \/ \E filter \in DbFilters \cup {Nil}, via \in {"direct", "api", "console"}, exists \in BOOLEAN :
         FindWithFilter(filter, via, exists)
    \/ StatementFails \/ CountRows \/ FindRows \/ Exists
    \/ \E r \in Rows : OtherWrites(r)

-----------------------------------------------------------------------------
(* What a filter means.                                                    *)
Means(filter, r) ==
    LET within(v, interval) ==
            /\ interval.From # 0 => v > interval.From \/ (v = interval.From /\ ~interval.FromOpen)
            /\ interval.To # 0 => v < interval.To \/ (v = interval.To /\ ~interval.ToOpen)
        bounded(interval) == interval.From # 0 \/ interval.To # 0
    IN /\ \A n \in DOMAIN filter.Fields : r[Column(n)] = filter.Fields[n]
       /\ \A n \in DOMAIN filter.FieldsIn : r[Column(n)] \in ToSet(filter.FieldsIn[n])
       /\ \A n \in DOMAIN filter.FieldsNotIn : r[Column(n)] \notin ToSet(filter.FieldsNotIn[n]) \cup {0}
       /\ \A n \in DOMAIN filter.Intervals :
            bounded(filter.Intervals[n]) => r[Column(n)] # 0 /\ within(r[Column(n)], filter.Intervals[n])
       /\ \A n \in DOMAIN filter.IntervalsOrNull :
            r[Column(n)] = 0 \/ within(r[Column(n)], filter.IntervalsOrNull[n])
       /\ \A b \in ToSet(filter.BetweenFields) :
            LET from == r[Column(b.FromField)]
                to == r[Column(b.ToField)]
            IN /\ from # 0 /\ to # 0
               /\ from < b.Value \/ (from = b.Value /\ ~b.FromOpen)
               /\ to > b.Value \/ (to = b.Value /\ ~b.ToOpen)
       /\ \A o \in ToSet(filter.OrFields) : \E f \in ToSet(o.Fields) : r[Column(f)] = o.Value

(* The filters that the code gives another meaning: what BetweenFields     *)
(* compares with the end of the range is "not below" (gorm_orm.go:157);    *)
(* the alternatives of OrFields set every other condition aside            *)
(* (gorm_orm.go:160-171); an interval with equal ends is never open        *)
(* (gorm_orm.go:99); nothing is outside an empty list (gorm_orm.go:145).   *)
(* Outside the process false is true (utils/conversions.go:218), and       *)
(* IntervalsOrNull is not sent (filter.go:144-217).                        *)
Misread(filter, via) ==
    \/ filter.BetweenFields # <<>>
    \/ /\ \E o \in ToSet(filter.OrFields) : Len(o.Fields) > 1
       /\ \/ Len(filter.OrFields) > 1
          \/ \E conditions \in {filter.Fields, filter.FieldsIn, filter.FieldsNotIn, filter.Intervals, filter.IntervalsOrNull} :
               DOMAIN conditions # {}
    \/ \E intervals \in {filter.Intervals, filter.IntervalsOrNull} : \E n \in DOMAIN intervals :
         LET i == intervals[n] IN i.From # 0 /\ i.From = i.To /\ (i.FromOpen \/ i.ToOpen)
    \/ \E n \in DOMAIN filter.FieldsNotIn : filter.FieldsNotIn[n] = <<>>
    \/ via # "direct" /\ \E n \in DOMAIN filter.Fields : TypeOf[Column(n)] = "Bool" /\ filter.Fields[n] = 1
    \/ via # "direct" /\ filter.IntervalsOrNull # NoConditions

(* A filter is answered with what it means, or refused: whether it is used *)
(* in the process or written as text, sent and read back (filter.go:144,   *)
(* filter_parser.go:115), the rows are the page that was asked for of the  *)
(* rows that fulfil it, in order; the count is that of all these rows, and *)
(* not below that of the page when rows are written between the two        *)
(* statements (gorm_orm.go:229-255).                                       *)
FilterIsAnswered ==
    LET filter == ask.filter
        want == {r \in dbTable : Means(filter, r)}
        rows == ask.rows
        offset == IF filter.Offset > 0 THEN filter.Offset ELSE 0
        capped == MaxLimit > 0 /\ filter # Nil /\ ~(filter.NoLimit /\ ask.via = "direct")
        left == IF Cardinality(want) < offset THEN 0 ELSE Cardinality(want) - offset
    IN /\ ask.stage = "told" /\ ~Misread(filter, ask.via) => ask.exists = (want # {})
       /\ ask.stage = "found" => ask.count >= Len(rows)
       /\ ask.stage = "found" /\ ~Misread(filter, ask.via) =>
            /\ ToSet(rows) \subseteq want /\ Cardinality(ToSet(rows)) = Len(rows)
            /\ Len(rows) <= left
            /\ filter.Limit > 0 => Len(rows) <= filter.Limit
            /\ capped => Len(rows) <= MaxLimit
            /\ Len(rows) = left \/ Len(rows) = filter.Limit \/ (capped /\ Len(rows) = MaxLimit)
            /\ \A i, j \in DOMAIN rows : i < j => ~Precedes(filter, rows[j], rows[i])
            /\ \A i \in DOMAIN rows :
                 Cardinality({r \in want : Precedes(filter, r, rows[i])}) < offset + i
            /\ filter.Count /\ ~ask.wrote => ask.count = Cardinality(want)
=============================================================================
