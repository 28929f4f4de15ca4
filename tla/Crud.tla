-------------------------------- MODULE Crud --------------------------------
(***************************************************************************)
(* The CRUD layer (pkg/crud/crud.go) over a database table.  A table is a  *)
(* set of rows, a row a record; the fields of a query or of an update are  *)
(* a record too.  Each operator is one statement of the database, hence    *)
(* atomic; what one call of the code does in two statements is two         *)
(* operators for the modules that use them.  Tracing and error wrapping    *)
(* are left out; a statement that fails is a step of the using module.     *)
(***************************************************************************)
EXTENDS Naturals, FiniteSets

\* A row has the values of all fields of a query.
HasFields(row, fields) == \A f \in DOMAIN fields : row[f] = fields[f]

\* Read: the rows a query finds; the code takes the first one.
Read(table, fields) == {r \in table : HasFields(r, fields)}

\* ReadByField, FindByField: the same for one field.
FindByField(table, field, value) == {r \in table : r[field] = value}

\* Exists
Exists(table, fields) == Read(table, fields) # {}

\* List with a filter that gives values to fields; no filter is the empty one.
List(table, fields) == Read(table, fields)
NoFilter == [f \in {} |-> 0]

\* Whether the unique indexes of the table, each a set of fields, admit a row beside the others.
Admits(others, indexes, row) ==
    \A index \in indexes : ~ \E r \in others : \A f \in index : r[f] = row[f]

\* Create: refused by a unique index, else the row is added.
CanCreate(table, indexes, row) == Admits(table, indexes, row)
Create(table, row) == table \union {row}

\* Update of one object by its id: a row that is gone is no error, nothing is written.
Updated(row, fields) ==
    [c \in DOMAIN row \union DOMAIN fields |-> IF c \in DOMAIN fields THEN fields[c] ELSE row[c]]
CanUpdate(table, indexes, id, fields) ==
    \A r \in FindByField(table, "id", id) : Admits(table \ {r}, indexes, Updated(r, fields))
Update(table, id, fields) ==
    {IF r.id = id THEN Updated(r, fields) ELSE r : r \in table}

\* UpdateMulti: all rows a query finds.
UpdateMulti(table, filter, fields) ==
    {IF HasFields(r, filter) THEN Updated(r, fields) ELSE r : r \in table}

\* Delete of an object that was read before, by its id.
Delete(table, id) == {r \in table : r.id # id}

\* DeleteByFields: all rows a query finds.
DeleteByFields(table, fields) == table \ Read(table, fields)
=============================================================================
