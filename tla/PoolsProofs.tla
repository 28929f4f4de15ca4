----------------------------- MODULE PoolsProofs -----------------------------
(***************************************************************************)
(* Proofs about Pools and PoolConsole: bindings keep their pools and       *)
(* services unless a binding is added during a deletion, and an            *)
(* application gets only services that were bound to its pool.             *)
(***************************************************************************)
EXTENDS PoolConsole, SequenceTheorems, TLAPS

-----------------------------------------------------------------------------
(* What is true of every state.                                            *)

Tables == {"pools", "services", "bindings"}
JobFields ==
    {"op", "target", "byName", "service", "role", "fields", "at", "pool", "object", "then"}

(* The tables; a pool and a service have an id.                            *)
DbOK ==
    /\ db = [t \in Tables |-> db[t]]
    /\ \A r \in db.pools \union db.services : "id" \in DOMAIN r

IsJob(j) ==
    /\ j = [f \in JobFields |-> j[f]]
    /\ j.then \in Seq(Calls)
    /\ "id" \notin DOMAIN j.fields
JobsOK ==
    /\ job = [a \in Admins |-> job[a]]
    /\ \A a \in Admins : job[a] = Idle \/ IsJob(job[a])

HasPool(id) == \E r \in db.pools : r.id = id
HasService(id) == \E r \in db.services : r.id = id

(* A binding is not added while a pool or a service is deleted.            *)
Separate == \A a, b \in Admins : ~ (job[a].op \in Adders /\ job[b].op \in Deleters)

(* AddServiceToPool has found the pool and the service that it binds.      *)
AdderKnows(a) ==
    job[a].op = "AddServiceToPool" =>
      /\ job[a].at \in {"service", "role", "create"} => HasPool(job[a].pool)
      /\ job[a].at \in {"role", "create"} => HasService(job[a].object)

(* A deletion that has found no binding will leave none behind.            *)
DeleterKnows(a) ==
    /\ At(a, "DeletePool", "delete") => \A b \in db.bindings : b.pool_id # job[a].object
    /\ At(a, "DeleteService", "delete") => \A b \in db.bindings : b.service_id # job[a].object

Bound == \A b \in db.bindings : HasPool(b.pool_id) /\ HasService(b.service_id)

BoundInv ==
    overlap \/ (Separate /\ Bound /\ \A a \in Admins : AdderKnows(a) /\ DeleterKnows(a))

Inv == DbOK /\ JobsOK /\ BoundInv

(* What was bound, and what an application holds.                          *)
StoreInv ==
    /\ \A b \in db.bindings : <<b.pool_id, b.role, b.service_id>> \in everBound
    /\ store = [f \in {"at", "todo", "pools"} |-> store[f]]
    /\ StoreHoldsOwnServices

-----------------------------------------------------------------------------
(* The statements of the database.                                         *)

LEMMA ExistsId ==
    ASSUME NEW T, NEW id
    PROVE  Exists(T, [id |-> id]) <=> \E r \in T : r.id = id
<1> DEFINE q == [id |-> id]
<1>1. DOMAIN q = {"id"} /\ q["id"] = id
  OBVIOUS
<1>2. ASSUME NEW r PROVE HasFields(r, q) <=> r.id = id
  BY <1>1 DEF HasFields
<1> QED
  BY <1>2 DEF Exists, Read

LEMMA NoReference ==
    ASSUME NEW T, NEW f, NEW id, ~ Exists(T, [g \in {f} |-> id])
    PROVE  \A r \in T : r[f] # id
<1> DEFINE q == [g \in {f} |-> id]
<1>1. DOMAIN q = {f} /\ q[f] = id
  OBVIOUS
<1>2. ASSUME NEW r PROVE HasFields(r, q) <=> r[f] = id
  BY <1>1 DEF HasFields
<1> QED
  BY <1>2 DEF Exists, Read

LEMMA UpdatedId ==
    ASSUME NEW r, NEW fields, "id" \in DOMAIN r, "id" \notin DOMAIN fields
    PROVE  "id" \in DOMAIN Updated(r, fields) /\ Updated(r, fields).id = r.id
BY DEF Updated

LEMMA NoDanglingIsBound == NoDanglingBinding <=> overlap \/ Bound
<1>1. ASSUME NEW b PROVE /\ Exists(db.pools, [id |-> b.pool_id]) <=> HasPool(b.pool_id)
                         /\ Exists(db.services, [id |-> b.service_id]) <=> HasService(b.service_id)
  BY ExistsId DEF HasPool, HasService
<1> QED
  BY <1>1 DEF NoDanglingBinding, Bound

LEMMA WritesDb ==
    ASSUME DbOK, NEW t \in Tables, NEW rows, Writes(t, rows)
    PROVE  /\ db' = [u \in Tables |-> db'[u]]
           /\ db'[t] = rows
           /\ \A u \in Tables \ {t} : db'[u] = db[u]
           /\ UNCHANGED <<store, connection>>
BY DEF DbOK, Writes

-----------------------------------------------------------------------------
(* The steps of a call.                                                    *)

LEMMA IdleOp == Idle.op = "none" /\ ~ (Idle.op \in Adders) /\ ~ (Idle.op \in Deleters)
BY DEF Idle, Adders, Deleters

LEMMA AtIsJob ==
    ASSUME JobsOK, NEW a \in Admins, job[a] # Idle
    PROVE  IsJob(job[a])
BY DEF JobsOK

LEMMA StartedIsJob ==
    ASSUME NEW call \in Calls, NEW then \in Seq(Calls)
    PROVE  /\ IsJob(Started(call, then))
           /\ Started(call, then).op = call.op
           /\ Started(call, then).at = "start"
<1> DEFINE j == Started(call, then)
<1>1. j = [f \in JobFields |-> j[f]]
  BY DEF Started, JobFields
<1>2. j.then = then /\ j.fields = call.fields /\ j.op = call.op /\ j.at = "start"
  BY DEF Started
<1> QED
  BY <1>1, <1>2, CommandsAssumption DEF IsJob

(* A call that begins, or ends with nothing to follow.                     *)
LEMMA JobSet ==
    ASSUME JobsOK, NEW a \in Admins, NEW j, j = Idle \/ IsJob(j),
           job' = [job EXCEPT ![a] = j]
    PROVE  /\ JobsOK'
           /\ job'[a] = j
           /\ \A b \in Admins \ {a} : job'[b] = job[b]
<1>1. job' = [b \in Admins |-> IF b = a THEN j ELSE job[b]]
  BY DEF JobsOK
<1>2. /\ job' = [b \in Admins |-> job'[b]]
      /\ job'[a] = j
      /\ \A b \in Admins \ {a} : job'[b] = job[b]
  BY <1>1
<1>3. ASSUME NEW b \in Admins PROVE job'[b] = Idle \/ IsJob(job'[b])
  BY <1>2 DEF JobsOK
<1>4. JobsOK'
  BY <1>2, <1>3 DEF JobsOK, Idle, IsJob
<1> QED
  BY <1>2, <1>4

(* Two calls of the two kinds are under way together only after an overlap. *)
LEMMA SeparateKept ==
    ASSUME Separate, NEW a \in Admins, ~ Overlaps(a, job'[a].op),
           \A b \in Admins \ {a} : job'[b] = job[b]
    PROVE  Separate'
<1> SUFFICES ASSUME NEW b \in Admins, NEW c \in Admins,
                    job'[b].op \in Adders, job'[c].op \in Deleters
             PROVE  FALSE
  BY DEF Separate, Adders, Deleters
<1>1. CASE b # a /\ c # a
  BY <1>1 DEF Separate
<1>2. CASE b = a /\ c # a
  BY <1>2 DEF Overlaps
<1>3. CASE b # a /\ c = a
  BY <1>3 DEF Overlaps
<1>4. CASE b = a /\ c = a
  BY <1>4 DEF Adders, Deleters
<1> QED
  BY <1>1, <1>2, <1>3, <1>4

(* What a call leaves when it returns, or when it begins.                  *)
Begun(a) ==
    /\ JobsOK'
    /\ overlap => overlap'
    /\ \A b \in Admins \ {a} : job'[b] = job[b]
    /\ job'[a] = Idle \/ job'[a].at = "start"
    /\ Separate => overlap' \/ Separate'

LEMMA StartBegins ==
    ASSUME JobsOK, NEW a \in Admins, NEW command \in Commands, Start(a, command)
    PROVE  Begun(a)
<1>1. command \in Seq(Calls) /\ command # <<>>
  BY CommandsAssumption
<1>2. Head(command) \in Calls /\ Tail(command) \in Seq(Calls)
  BY <1>1
<1> DEFINE j == Started(Head(command), Tail(command))
<1>3. IsJob(j) /\ j.op = Head(command).op /\ j.at = "start"
  BY <1>2, StartedIsJob
<1> HIDE DEF j
<1>4. job' = [job EXCEPT ![a] = j] /\ overlap' = (overlap \/ Overlaps(a, j.op))
  BY <1>3 DEF Start, j
<1>5. JobsOK' /\ job'[a] = j /\ \A b \in Admins \ {a} : job'[b] = job[b]
  BY <1>3, <1>4, JobSet
<1>6. ASSUME Separate, ~ overlap' PROVE Separate'
  BY <1>4, <1>5, <1>6, SeparateKept
<1> QED
  BY <1>3, <1>4, <1>5, <1>6 DEF Begun

LEMMA ReturnBegins ==
    ASSUME JobsOK, NEW a \in Admins, job[a] # Idle, NEW code, Return(a, code)
    PROVE  Begun(a)
<1> DEFINE more == job[a].then
<1>1. more \in Seq(Calls)
  BY AtIsJob DEF IsJob
<1>2. CASE code = "ok" /\ more # <<>>
  <2>1. Head(more) \in Calls /\ Tail(more) \in Seq(Calls)
    BY <1>1, <1>2
  <2> DEFINE j == Started(Head(more), Tail(more))
  <2>2. IsJob(j) /\ j.op = Head(more).op /\ j.at = "start"
    BY <2>1, StartedIsJob
  <2>3. job' = [job EXCEPT ![a] = j] /\ overlap' = (overlap \/ Overlaps(a, Head(more).op))
    BY <1>2 DEF Return
  <2> HIDE DEF j
  <2>4. JobsOK' /\ job'[a] = j /\ \A b \in Admins \ {a} : job'[b] = job[b]
    BY <2>2, <2>3, JobSet
  <2>5. ASSUME Separate, ~ overlap' PROVE Separate'
    <3>1. ~ Overlaps(a, job'[a].op)
      BY <2>2, <2>3, <2>4, <2>5
    <3> QED
      BY <2>4, <2>5, <3>1, SeparateKept
  <2> QED
    BY <2>2, <2>3, <2>4, <2>5 DEF Begun
<1>3. CASE ~ (code = "ok" /\ more # <<>>)
  <2>1. job' = [job EXCEPT ![a] = Idle] /\ overlap' = overlap
    BY <1>3 DEF Return
  <2>2. JobsOK' /\ job'[a] = Idle /\ \A b \in Admins \ {a} : job'[b] = job[b]
    BY <2>1, JobSet
  <2>3. ~ Overlaps(a, job'[a].op)
    BY <2>2, IdleOp DEF Overlaps
  <2> QED
    BY <2>1, <2>2, <2>3, SeparateKept DEF Begun
<1> QED
  BY <1>2, <1>3

(* A call that goes on is the same call at another statement.              *)
Goes(a, at) ==
    /\ JobsOK'
    /\ overlap' = overlap
    /\ \A b \in Admins \ {a} : job'[b] = job[b]
    /\ job'[a].op = job[a].op
    /\ job'[a].at = at
    /\ Separate => Separate'

LEMMA JobGoes ==
    ASSUME JobsOK, NEW a \in Admins, NEW at, NEW j, IsJob(j), j.op = job[a].op, j.at = at,
           job' = [job EXCEPT ![a] = j], overlap' = overlap
    PROVE  Goes(a, at) /\ job'[a] = j
<1>1. JobsOK' /\ job'[a] = j /\ \A b \in Admins \ {a} : job'[b] = job[b]
  BY JobSet
<1>2. \A b \in Admins : job'[b].op = job[b].op
  BY <1>1
<1>3. Separate => Separate'
  BY <1>2 DEF Separate
<1> QED
  BY <1>1, <1>3 DEF Goes

LEMMA GotoGoes ==
    ASSUME JobsOK, NEW a \in Admins, NEW at, job[a] # Idle, Goto(a, at)
    PROVE  /\ Goes(a, at)
           /\ job'[a].pool = job[a].pool
           /\ job'[a].object = job[a].object
<1> DEFINE j == [job[a] EXCEPT !.at = at]
<1>1. IsJob(job[a])
  BY AtIsJob
<1>2. /\ IsJob(j) /\ j.op = job[a].op /\ j.at = at
      /\ j.pool = job[a].pool /\ j.object = job[a].object
  BY <1>1 DEF IsJob, JobFields
<1>3. job' = [job EXCEPT ![a] = j] /\ overlap' = overlap
  BY DEF Goto
<1> HIDE DEF j
<1> QED
  BY <1>2, <1>3, JobGoes

LEMMA GotoWithGoes ==
    ASSUME JobsOK, NEW a \in Admins, NEW at, NEW id, job[a] # Idle, GotoWith(a, at, id)
    PROVE  /\ Goes(a, at)
           /\ job'[a].pool = job[a].pool
           /\ job'[a].object = id
<1> DEFINE j == [job[a] EXCEPT !.at = at, !.object = id]
<1>1. IsJob(job[a])
  BY AtIsJob
<1>2. /\ IsJob(j) /\ j.op = job[a].op /\ j.at = at
      /\ j.pool = job[a].pool /\ j.object = id
  BY <1>1 DEF IsJob, JobFields
<1>3. job' = [job EXCEPT ![a] = j] /\ overlap' = overlap
  BY DEF GotoWith, JobsOK
<1> HIDE DEF j
<1> QED
  BY <1>2, <1>3, JobGoes

LEMMA GotoWithPoolGoes ==
    ASSUME JobsOK, NEW a \in Admins, NEW at, NEW id, job[a] # Idle, GotoWithPool(a, at, id)
    PROVE  /\ Goes(a, at)
           /\ job'[a].pool = id
           /\ job'[a].object = job[a].object
<1> DEFINE j == [job[a] EXCEPT !.at = at, !.pool = id]
<1>1. IsJob(job[a])
  BY AtIsJob
<1>2. /\ IsJob(j) /\ j.op = job[a].op /\ j.at = at
      /\ j.pool = id /\ j.object = job[a].object
  BY <1>1 DEF IsJob, JobFields
<1>3. job' = [job EXCEPT ![a] = j] /\ overlap' = overlap
  BY DEF GotoWithPool, JobsOK
<1> HIDE DEF j
<1> QED
  BY <1>2, <1>3, JobGoes

-----------------------------------------------------------------------------
(* Steps that take no pool and no service away and add no binding.         *)

Kept ==
    /\ DbOK'
    /\ \A r \in db.pools : \E q \in db'.pools : q.id = r.id
    /\ \A r \in db.services : \E q \in db'.services : q.id = r.id
    /\ db'.bindings \subseteq db.bindings

LEMMA ReadsKept ==
    ASSUME DbOK, Reads
    PROVE  Kept
BY DEF Kept, Reads, DbOK

LEMMA OthersKnow ==
    ASSUME Kept, NEW b \in Admins, job'[b] = job[b]
    PROVE  (AdderKnows(b) => AdderKnows(b)') /\ (DeleterKnows(b) => DeleterKnows(b)')
<1>1. \A id : (HasPool(id) => HasPool(id)') /\ (HasService(id) => HasService(id)')
  BY DEF Kept, HasPool, HasService
<1>2. AdderKnows(b) => AdderKnows(b)'
  BY <1>1 DEF AdderKnows, HasPool, HasService
<1>3. DeleterKnows(b) => DeleterKnows(b)'
  BY DEF DeleterKnows, Kept, At
<1> QED
  BY <1>2, <1>3

LEMMA BoundKept ==
    ASSUME Kept, Bound
    PROVE  Bound'
BY DEF Kept, Bound, HasPool, HasService

LEMMA BegunInv ==
    ASSUME Inv, Kept, NEW a \in Admins, Begun(a)
    PROVE  Inv'
<1>1. DbOK' /\ JobsOK'
  BY DEF Kept, Begun
<1>2. CASE overlap'
  BY <1>1, <1>2 DEF Inv, BoundInv
<1>3. CASE ~ overlap'
  <2>1. ~ overlap
    BY <1>3 DEF Begun
  <2>2. Separate /\ Bound /\ \A b \in Admins : AdderKnows(b) /\ DeleterKnows(b)
    BY <2>1 DEF Inv, BoundInv
  <2>3. Separate'
    BY <1>3, <2>2 DEF Begun
  <2>4. Bound'
    BY <2>2, BoundKept
  <2>5. AdderKnows(a)' /\ DeleterKnows(a)'
    BY IdleOp DEF Begun, AdderKnows, DeleterKnows, At
  <2>6. ASSUME NEW b \in Admins \ {a} PROVE AdderKnows(b)' /\ DeleterKnows(b)'
    BY <2>2, OthersKnow DEF Begun
  <2> QED
    BY <1>1, <2>3, <2>4, <2>5, <2>6 DEF Inv, BoundInv
<1> QED
  BY <1>2, <1>3

LEMMA GoesInv ==
    ASSUME Inv, Kept, NEW a \in Admins, NEW at, Goes(a, at),
           overlap \/ (AdderKnows(a)' /\ DeleterKnows(a)')
    PROVE  Inv'
<1>1. DbOK' /\ JobsOK'
  BY DEF Kept, Goes
<1>2. CASE overlap
  BY <1>1, <1>2 DEF Inv, BoundInv, Goes
<1>3. CASE ~ overlap
  <2>1. Separate /\ Bound /\ \A b \in Admins : AdderKnows(b) /\ DeleterKnows(b)
    BY <1>3 DEF Inv, BoundInv
  <2>2. Separate' /\ Bound'
    BY <2>1, BoundKept DEF Goes
  <2>3. ASSUME NEW b \in Admins \ {a} PROVE AdderKnows(b)' /\ DeleterKnows(b)'
    BY <2>1, OthersKnow DEF Goes
  <2> QED
    BY <1>1, <1>3, <2>2, <2>3 DEF Inv, BoundInv
<1> QED
  BY <1>2, <1>3

(* A statement that neither an addition nor a deletion goes on to.         *)
LEMMA PlainGoes ==
    ASSUME NEW a \in Admins, NEW at, Goes(a, at),
           job[a].op # "AddServiceToPool",
           at # "delete" \/ job[a].op \notin {"DeletePool", "DeleteService"}
    PROVE  AdderKnows(a)' /\ DeleterKnows(a)'
BY DEF Goes, AdderKnows, DeleterKnows, At

LEMMA ReturnInv ==
    ASSUME Inv, Kept, NEW a \in Admins, job[a] # Idle, NEW code, Return(a, code)
    PROVE  Inv'
BY ReturnBegins, BegunInv DEF Inv

LEMMA WithTargetIdInv ==
    ASSUME Inv, NEW a \in Admins, NEW op, NEW table, NEW at, WithTargetId(a, op, table, at),
           op # "none", op # "AddServiceToPool",
           at # "delete" \/ op \notin {"DeletePool", "DeleteService"}
    PROVE  Inv'
<1>1. Kept
  BY ReadsKept DEF WithTargetId, Inv
<1>2. job[a].op = op /\ job[a] # Idle
  BY IdleOp DEF WithTargetId, At
<1>3. CASE TargetIds(a, table) = {}
  BY <1>1, <1>2, <1>3, ReturnInv DEF WithTargetId
<1>4. CASE TargetIds(a, table) # {}
  <2>1. PICK id \in TargetIds(a, table) : GotoWith(a, at, id)
    BY <1>4 DEF WithTargetId
  <2>2. Goes(a, at)
    BY <2>1, <1>2, GotoWithGoes DEF Inv
  <2> QED
    BY <1>1, <1>2, <2>2, PlainGoes, GoesInv
<1> QED
  BY <1>3, <1>4

-----------------------------------------------------------------------------
(* Pools and services.                                                     *)

LEMMA CreateKept ==
    ASSUME DbOK, NEW table \in {"pools", "services"}, NEW row, "id" \in DOMAIN row,
           Writes(table, Create(db[table], row))
    PROVE  Kept
<1>1. /\ db' = [u \in Tables |-> db'[u]]
      /\ db'[table] = db[table] \union {row}
      /\ \A u \in Tables \ {table} : db'[u] = db[u]
  BY WritesDb DEF Create, Tables
<1> QED
  BY <1>1 DEF Kept, DbOK, Tables

LEMMA AddObjectInv ==
    ASSUME Inv, NEW a \in Admins, NEW op \in {"AddPool", "AddService"},
           NEW table \in {"pools", "services"}, NEW conflict, AddObject(a, op, table, conflict)
    PROVE  Inv'
<1>0. DbOK /\ JobsOK
  BY DEF Inv
<1>1. job[a].op = op /\ job[a] # Idle
  BY IdleOp DEF AddObject, At
<1>2. CASE At(a, op, "start") /\ Reads /\ IF NameTaken(table, job[a].target)
                                           THEN Return(a, conflict)
                                           ELSE Goto(a, "create")
  <2>1. Kept
    BY <1>0, <1>2, ReadsKept
  <2>2. CASE Return(a, conflict)
    BY <1>1, <2>1, <2>2, ReturnInv
  <2>3. CASE Goto(a, "create")
    <3>1. Goes(a, "create")
      BY <1>0, <1>1, <2>3, GotoGoes
    <3>2. AdderKnows(a)' /\ DeleterKnows(a)'
      BY <1>1, <3>1, PlainGoes
    <3> QED
      BY <2>1, <3>1, <3>2, GoesInv
  <2> QED
    BY <1>2, <2>2, <2>3
<1>3. CASE Reads /\ Return(a, "db_error")
  BY <1>0, <1>1, <1>3, ReadsKept, ReturnInv
<1>4. ASSUME NEW row, row = [id |-> ObjectIds[next], name |-> job[a].target, active |-> TRUE],
             Writes(table, Create(db[table], row)), Return(a, "ok")
      PROVE  Inv'
  <2>1. "id" \in DOMAIN row
    BY <1>4
  <2>2. Kept
    BY <1>0, <1>4, <2>1, CreateKept
  <2> QED
    BY <1>1, <1>4, <2>2, ReturnInv
<1> QED
  BY <1>2, <1>3, <1>4 DEF AddObject

LEMMA UpdateKept ==
    ASSUME DbOK, NEW table \in {"pools", "services"}, NEW id, NEW fields, "id" \notin DOMAIN fields,
           Writes(table, Update(db[table], id, fields))
    PROVE  Kept
<1>1. /\ db' = [u \in Tables |-> db'[u]]
      /\ db'[table] = Update(db[table], id, fields)
      /\ \A u \in Tables \ {table} : db'[u] = db[u]
  BY WritesDb DEF Tables
<1>2. ASSUME NEW r \in db[table]
      PROVE  /\ "id" \in DOMAIN Updated(r, fields) /\ Updated(r, fields).id = r.id
             /\ "id" \in DOMAIN r
  BY UpdatedId DEF DbOK
<1>3. \A q \in db'[table] : "id" \in DOMAIN q
  BY <1>1, <1>2 DEF Update
<1>4. ASSUME NEW r \in db[table] PROVE \E q \in db'[table] : q.id = r.id
  <2> DEFINE q == IF r.id = id THEN Updated(r, fields) ELSE r
  <2>1. q \in db'[table] /\ q.id = r.id
    BY <1>1, <1>2 DEF Update
  <2> QED
    BY <2>1
<1> QED
  BY <1>1, <1>3, <1>4 DEF Kept, DbOK, Tables

LEMMA UpdateObjectInv ==
    ASSUME Inv, NEW a \in Admins, NEW op \in {"UpdatePool", "UpdateService"},
           NEW table \in {"pools", "services"}, NEW conflict, NEW missing,
           UpdateObject(a, op, table, conflict, missing)
    PROVE  Inv'
<1>0. DbOK /\ JobsOK
  BY DEF Inv
<1>1. job[a].op = op /\ job[a] # Idle
  BY IdleOp DEF UpdateObject, At
<1>2. ASSUME NEW code, Reads, Return(a, code) PROVE Inv'
  BY <1>0, <1>1, <1>2, ReadsKept, ReturnInv
<1>3. ASSUME NEW at, Kept, Goes(a, at) PROVE Inv'
  <2>1. AdderKnows(a)' /\ DeleterKnows(a)'
    BY <1>1, <1>3, PlainGoes
  <2> QED
    BY <1>3, <2>1, GoesInv
<1>4. ASSUME NEW at, Reads, Goto(a, at) PROVE Inv'
  BY <1>0, <1>1, <1>3, <1>4, GotoGoes, ReadsKept
<1>5. ASSUME NEW at, NEW id, Reads, GotoWith(a, at, id) PROVE Inv'
  BY <1>0, <1>1, <1>3, <1>5, GotoWithGoes, ReadsKept
<1>6. ASSUME Writes(table, Update(db[table], job[a].object, job[a].fields)), Goto(a, "reread")
      PROVE  Inv'
  <2>1. "id" \notin DOMAIN job[a].fields
    BY <1>0, <1>1, AtIsJob DEF IsJob
  <2>2. Kept
    BY <1>0, <1>6, <2>1, UpdateKept
  <2> QED
    BY <1>0, <1>1, <1>3, <1>6, <2>2, GotoGoes
<1> QED
  BY <1>2, <1>4, <1>5, <1>6 DEF UpdateObject

(* The deletion takes away only what nothing is bound to, and no addition  *)
(* that has found it is under way.                                         *)
LEMMA DeleteRowInv ==
    ASSUME Inv, NEW a \in Admins, job[a].op \in Deleters, job[a] # Idle, job[a].at = "delete",
           NEW table \in {"pools", "services"}, table = "pools" <=> job[a].op = "DeletePool",
           Writes(table, Delete(db[table], job[a].object)), Return(a, "ok")
    PROVE  Inv'
<1>0. DbOK /\ JobsOK
  BY DEF Inv
<1>1. /\ db' = [u \in Tables |-> db'[u]]
      /\ db'[table] = {r \in db[table] : r.id # job[a].object}
      /\ \A u \in Tables \ {table} : db'[u] = db[u]
  BY <1>0, WritesDb DEF Delete, Tables
<1>2. DbOK'
  BY <1>0, <1>1 DEF DbOK, Tables
<1>3. Begun(a)
  BY <1>0, ReturnBegins
<1>4. CASE overlap'
  BY <1>2, <1>3, <1>4 DEF Inv, BoundInv, Begun
<1>5. CASE ~ overlap'
  <2>1. ~ overlap
    BY <1>3, <1>5 DEF Begun
  <2>2. Separate /\ Bound /\ \A b \in Admins : AdderKnows(b) /\ DeleterKnows(b)
    BY <2>1 DEF Inv, BoundInv
  <2>3. Separate'
    BY <1>3, <1>5, <2>2 DEF Begun
  <2>4. db'.bindings = db.bindings
    BY <1>1 DEF Tables
  <2>5. Bound'
    <3>1. CASE table = "pools"
      <4>1. \A b \in db.bindings : b.pool_id # job[a].object
        BY <2>2, <3>1 DEF DeleterKnows, At
      <4>2. /\ db'.pools = {r \in db.pools : r.id # job[a].object}
            /\ db'.services = db.services
        BY <1>1, <3>1 DEF Tables
      <4> QED
        BY <2>2, <2>4, <4>1, <4>2 DEF Bound, HasPool, HasService
    <3>2. CASE table = "services"
      <4>0. job[a].op = "DeleteService"
        BY <3>2 DEF Deleters
      <4>1. \A b \in db.bindings : b.service_id # job[a].object
        BY <2>2, <4>0 DEF DeleterKnows, At
      <4>2. /\ db'.services = {r \in db.services : r.id # job[a].object}
            /\ db'.pools = db.pools
        BY <1>1, <3>2 DEF Tables
      <4> QED
        BY <2>2, <2>4, <4>1, <4>2 DEF Bound, HasPool, HasService
    <3> QED
      BY <3>1, <3>2
  <2>6. AdderKnows(a)' /\ DeleterKnows(a)'
    BY <1>3, IdleOp DEF Begun, AdderKnows, DeleterKnows, At
  <2>7. ASSUME NEW b \in Admins \ {a} PROVE AdderKnows(b)' /\ DeleterKnows(b)'
    <3>1. job'[b] = job[b]
      BY <1>3 DEF Begun
    <3>2. job[b].op # "AddServiceToPool"
      BY <2>2 DEF Separate, Adders
    <3> QED
      BY <2>2, <2>4, <3>1, <3>2 DEF AdderKnows, DeleterKnows, At
  <2> QED
    BY <1>2, <1>3, <2>3, <2>5, <2>6, <2>7 DEF Inv, BoundInv, Begun
<1> QED
  BY <1>4, <1>5

LEMMA DeletePoolInv ==
    ASSUME Inv, NEW a \in Admins, DeletePool(a)
    PROVE  Inv'
<1> DEFINE op == "DeletePool"
<1>0. DbOK /\ JobsOK
  BY DEF Inv
<1>1. CASE WithTargetId(a, op, "pools", "check")
  BY <1>1, WithTargetIdInv
<1>2. ASSUME At(a, op, "check"), Reads, Return(a, "pool_service_bindings_exist") PROVE Inv'
  <2>1. job[a] # Idle
    BY <1>2, IdleOp DEF At
  <2> QED
    BY <1>0, <1>2, <2>1, ReadsKept, ReturnInv
<1>3. ASSUME At(a, op, "check"), Reads, ~ Exists(db.bindings, [f \in {"pool_id"} |-> job[a].object]),
             Goto(a, "delete")
      PROVE  Inv'
  <2>1. job[a] # Idle /\ Kept
    BY <1>0, <1>3, IdleOp, ReadsKept DEF At
  <2>2. Goes(a, "delete") /\ job'[a].object = job[a].object
    BY <1>0, <1>3, <2>1, GotoGoes
  <2>3. \A b \in db.bindings : b["pool_id"] # job[a].object
    BY <1>3, NoReference
  <2>4. AdderKnows(a)' /\ DeleterKnows(a)'
    BY <1>3, <2>2, <2>3 DEF Goes, AdderKnows, DeleterKnows, At, Reads
  <2> QED
    BY <2>1, <2>2, <2>4, GoesInv
<1>4. ASSUME At(a, op, "delete"), Writes("pools", Delete(db["pools"], job[a].object)), Return(a, "ok")
      PROVE  Inv'
  <2>1. job[a] # Idle /\ job[a].op = "DeletePool" /\ job[a].at = "delete"
    BY <1>4, IdleOp DEF At
  <2> QED
    BY <1>4, <2>1, DeleteRowInv DEF Deleters
<1> QED
  BY <1>1, <1>2, <1>3, <1>4 DEF DeletePool, DeleteObject

LEMMA DeleteServiceInv ==
    ASSUME Inv, NEW a \in Admins, DeleteService(a)
    PROVE  Inv'
<1> DEFINE op == "DeleteService"
<1>0. DbOK /\ JobsOK
  BY DEF Inv
<1>1. CASE WithTargetId(a, op, "services", "check")
  BY <1>1, WithTargetIdInv
<1>2. ASSUME At(a, op, "check"), Reads, Return(a, "service_bound_to_pool") PROVE Inv'
  <2>1. job[a] # Idle
    BY <1>2, IdleOp DEF At
  <2> QED
    BY <1>0, <1>2, <2>1, ReadsKept, ReturnInv
<1>3. ASSUME At(a, op, "check"), Reads, ~ Exists(db.bindings, [f \in {"service_id"} |-> job[a].object]),
             Goto(a, "delete")
      PROVE  Inv'
  <2>1. job[a] # Idle /\ Kept
    BY <1>0, <1>3, IdleOp, ReadsKept DEF At
  <2>2. Goes(a, "delete") /\ job'[a].object = job[a].object
    BY <1>0, <1>3, <2>1, GotoGoes
  <2>3. \A b \in db.bindings : b["service_id"] # job[a].object
    BY <1>3, NoReference
  <2>4. AdderKnows(a)' /\ DeleterKnows(a)'
    BY <1>3, <2>2, <2>3 DEF Goes, AdderKnows, DeleterKnows, At, Reads
  <2> QED
    BY <2>1, <2>2, <2>4, GoesInv
<1>4. ASSUME At(a, op, "delete"), Writes("services", Delete(db["services"], job[a].object)),
             Return(a, "ok")
      PROVE  Inv'
  <2>1. job[a] # Idle /\ job[a].op = "DeleteService" /\ job[a].at = "delete"
    BY <1>4, IdleOp DEF At
  <2> QED
    BY <1>4, <2>1, DeleteRowInv DEF Deleters
<1> QED
  BY <1>1, <1>2, <1>3, <1>4 DEF DeleteService, DeleteObject

-----------------------------------------------------------------------------
(* Bindings.                                                               *)

LEMMA CreateBindingInv ==
    ASSUME Inv, NEW a \in Admins, At(a, "AddServiceToPool", "create"), NEW row,
           row.pool_id = job[a].pool, row.service_id = job[a].object,
           Writes("bindings", Create(db.bindings, row)), Return(a, "ok")
    PROVE  Inv'
<1>0. DbOK /\ JobsOK
  BY DEF Inv
<1>1. /\ db' = [u \in Tables |-> db'[u]]
      /\ db'.bindings = db.bindings \union {row}
      /\ db'.pools = db.pools /\ db'.services = db.services
  BY <1>0, WritesDb DEF Create, Tables
<1>2. DbOK'
  BY <1>0, <1>1 DEF DbOK
<1>3. Begun(a)
  BY <1>0, ReturnBegins, IdleOp DEF At
<1>4. CASE overlap'
  BY <1>2, <1>3, <1>4 DEF Inv, BoundInv, Begun
<1>5. CASE ~ overlap'
  <2>1. ~ overlap
    BY <1>3, <1>5 DEF Begun
  <2>2. Separate /\ Bound /\ \A b \in Admins : AdderKnows(b) /\ DeleterKnows(b)
    BY <2>1 DEF Inv, BoundInv
  <2>3. Separate'
    BY <1>3, <1>5, <2>2 DEF Begun
  <2>4. HasPool(row.pool_id) /\ HasService(row.service_id)
    BY <2>2 DEF AdderKnows, At
  <2>5. Bound'
    BY <1>1, <2>2, <2>4 DEF Bound, HasPool, HasService
  <2>6. AdderKnows(a)' /\ DeleterKnows(a)'
    BY <1>3, IdleOp DEF Begun, AdderKnows, DeleterKnows, At
  <2>7. ASSUME NEW b \in Admins \ {a} PROVE AdderKnows(b)' /\ DeleterKnows(b)'
    <3>1. job'[b] = job[b]
      BY <1>3 DEF Begun
    <3>2. ~ (job[b].op \in Deleters)
      BY <2>2 DEF Separate, Adders, At
    <3>3. DeleterKnows(b)'
      BY <3>1, <3>2 DEF DeleterKnows, At, Deleters
    <3>4. AdderKnows(b)'
      BY <1>1, <2>2, <3>1 DEF AdderKnows, HasPool, HasService
    <3> QED
      BY <3>3, <3>4
  <2> QED
    BY <1>2, <1>3, <2>3, <2>5, <2>6, <2>7 DEF Inv, BoundInv, Begun
<1> QED
  BY <1>4, <1>5

LEMMA AddServiceToPoolInv ==
    ASSUME Inv, NEW a \in Admins, AddServiceToPool(a)
    PROVE  Inv'
<1> DEFINE op == "AddServiceToPool"
<1>0. DbOK /\ JobsOK
  BY DEF Inv
<1>1. job[a].op = op /\ job[a] # Idle
  BY IdleOp DEF AddServiceToPool, At
<1>2. ASSUME NEW code, Reads, Return(a, code) PROVE Inv'
  BY <1>0, <1>1, <1>2, ReadsKept, ReturnInv
<1>3. ASSUME Reads, NEW r \in Target(a, "pools"), GotoWithPool(a, "service", r.id) PROVE Inv'
  <2>1. Kept
    BY <1>0, <1>3, ReadsKept
  <2>2. Goes(a, "service") /\ job'[a].pool = r.id
    BY <1>0, <1>1, <1>3, GotoWithPoolGoes
  <2>3. r \in db.pools /\ db' = db
    BY <1>3 DEF Target, FindByField, Reads
  <2>4. AdderKnows(a)' /\ DeleterKnows(a)'
    BY <1>1, <2>2, <2>3 DEF Goes, AdderKnows, DeleterKnows, At, HasPool
  <2> QED
    BY <2>1, <2>2, <2>4, GoesInv
<1>4. ASSUME At(a, op, "service"), Reads, NEW r \in FindByField(db.services, FieldName(a), job[a].service),
             GotoWith(a, "role", r.id)
      PROVE  Inv'
  <2>1. Kept
    BY <1>0, <1>4, ReadsKept
  <2>2. Goes(a, "role") /\ job'[a].pool = job[a].pool /\ job'[a].object = r.id
    BY <1>0, <1>1, <1>4, GotoWithGoes
  <2>3. r \in db.services /\ db' = db
    BY <1>4 DEF FindByField, Reads
  <2>4. overlap \/ HasPool(job[a].pool)
    BY <1>4 DEF Inv, BoundInv, AdderKnows, At
  <2>5. overlap \/ (AdderKnows(a)' /\ DeleterKnows(a)')
    BY <1>1, <2>2, <2>3, <2>4 DEF Goes, AdderKnows, DeleterKnows, At, HasPool, HasService
  <2> QED
    BY <2>1, <2>2, <2>5, GoesInv
<1>5. ASSUME At(a, op, "role"), Reads, Goto(a, "create") PROVE Inv'
  <2>1. Kept
    BY <1>0, <1>5, ReadsKept
  <2>2. Goes(a, "create") /\ job'[a].pool = job[a].pool /\ job'[a].object = job[a].object
    BY <1>0, <1>1, <1>5, GotoGoes
  <2>3. overlap \/ (HasPool(job[a].pool) /\ HasService(job[a].object))
    BY <1>5 DEF Inv, BoundInv, AdderKnows, At
  <2>4. overlap \/ (AdderKnows(a)' /\ DeleterKnows(a)')
    BY <1>1, <1>5, <2>2, <2>3 DEF Goes, AdderKnows, DeleterKnows, At, HasPool, HasService, Reads
  <2> QED
    BY <2>1, <2>2, <2>4, GoesInv
<1>6. ASSUME At(a, op, "create"), NEW row,
             row = [id |-> ObjectIds[next], pool_id |-> job[a].pool, role |-> job[a].role,
                    service_id |-> job[a].object],
             Writes("bindings", Create(db.bindings, row)), Return(a, "ok")
      PROVE  Inv'
  <2>1. row.pool_id = job[a].pool /\ row.service_id = job[a].object
    BY <1>6
  <2> QED
    BY <1>6, <2>1, CreateBindingInv
<1>7. CASE /\ At(a, op, "start") /\ Reads
           /\ IF Target(a, "pools") = {}
              THEN Return(a, "pool_not_found")
              ELSE \E r \in Target(a, "pools") : GotoWithPool(a, "service", r.id)
  BY <1>2, <1>3, <1>7
<1>8. CASE /\ At(a, op, "service") /\ Reads
           /\ LET found == FindByField(db.services, FieldName(a), job[a].service) IN
              IF found = {}
              THEN Return(a, "service_not_found")
              ELSE \E r \in found : GotoWith(a, "role", r.id)
  BY <1>2, <1>4, <1>8
<1>9. CASE /\ At(a, op, "role") /\ Reads
           /\ IF Exists(db.bindings, [pool_id |-> job[a].pool, role |-> job[a].role])
              THEN Return(a, "service_role_conflict")
              ELSE Goto(a, "create")
  BY <1>2, <1>5, <1>9
<1> QED
  BY <1>2, <1>6, <1>7, <1>8, <1>9 DEF AddServiceToPool

LEMMA FewerBindings ==
    ASSUME DbOK, NEW rows \in SUBSET db.bindings, Writes("bindings", rows)
    PROVE  Kept
<1>1. /\ db' = [u \in Tables |-> db'[u]]
      /\ db'.bindings = rows
      /\ db'.pools = db.pools /\ db'.services = db.services
  BY WritesDb DEF Tables
<1> QED
  BY <1>1 DEF Kept, DbOK

LEMMA RemoveServiceFromPoolInv ==
    ASSUME Inv, NEW a \in Admins, RemoveServiceFromPool(a)
    PROVE  Inv'
<1> DEFINE op == "RemoveServiceFromPool"
<1>0. DbOK /\ JobsOK
  BY DEF Inv
<1>1. CASE WithTargetId(a, op, "pools", "read")
  BY <1>1, WithTargetIdInv
<1>2. ASSUME At(a, op, "read"), Reads, Return(a, "ok") PROVE Inv'
  BY <1>0, <1>2, IdleOp, ReadsKept, ReturnInv DEF At
<1>3. ASSUME At(a, op, "read"), Reads, NEW id, GotoWith(a, "delete", id) PROVE Inv'
  <2>1. job[a].op = op /\ job[a] # Idle /\ Kept
    BY <1>0, <1>3, IdleOp, ReadsKept DEF At
  <2>2. Goes(a, "delete")
    BY <1>0, <1>3, <2>1, GotoWithGoes
  <2>3. AdderKnows(a)' /\ DeleterKnows(a)'
    BY <2>1, <2>2, PlainGoes
  <2> QED
    BY <2>1, <2>2, <2>3, GoesInv
<1>4. ASSUME At(a, op, "delete"), Writes("bindings", Delete(db.bindings, job[a].object)),
             Return(a, "ok")
      PROVE  Inv'
  <2>1. Delete(db.bindings, job[a].object) \in SUBSET db.bindings
    BY DEF Delete
  <2>2. Kept
    BY <1>0, <1>4, <2>1, FewerBindings
  <2>3. job[a] # Idle
    BY <1>4, IdleOp DEF At
  <2> QED
    BY <1>4, <2>2, <2>3, ReturnInv
<1>5. CASE /\ At(a, op, "read") /\ Reads
           /\ LET found == Read(db.bindings, [pool_id |-> job[a].object, role |-> job[a].role]) IN
              IF found = {}
              THEN Return(a, "ok")
              ELSE \E r \in found : GotoWith(a, "delete", r.id)
  BY <1>2, <1>3, <1>5
<1> QED
  BY <1>1, <1>4, <1>5 DEF RemoveServiceFromPool

LEMMA RemoveAllInv ==
    ASSUME Inv, NEW a \in Admins, NEW table, NEW reference,
           NEW op \in {"RemoveAllServicesFromPool", "RemoveServiceFromAllPools"},
           RemoveAll(a, op, table, reference)
    PROVE  Inv'
<1>1. CASE WithTargetId(a, op, table, "delete")
  BY <1>1, WithTargetIdInv
<1>2. ASSUME NEW fields, At(a, op, "delete"),
             Writes("bindings", DeleteByFields(db.bindings, fields)), Return(a, "ok")
      PROVE  Inv'
  <2>1. DeleteByFields(db.bindings, fields) \in SUBSET db.bindings
    BY DEF DeleteByFields
  <2>2. Kept
    BY <1>2, <2>1, FewerBindings DEF Inv
  <2>3. job[a] # Idle
    BY <1>2, IdleOp DEF At
  <2> QED
    BY <1>2, <2>2, <2>3, ReturnInv
<1> QED
  BY <1>1, <1>2 DEF RemoveAll

-----------------------------------------------------------------------------

(* A call of an administrator that only reads, and ends.                   *)
LEMMA OnlyReadsInv ==
    ASSUME Inv, NEW a \in Admins, job[a] # Idle, Reads, NEW code, Return(a, code)
    PROVE  Inv'
BY ReadsKept, ReturnInv DEF Inv

LEMMA StartInv ==
    ASSUME Inv, NEW a \in Admins, NEW command \in Commands, Start(a, command)
    PROVE  Inv'
BY ReadsKept, StartBegins, BegunInv DEF Inv, Start

LEMMA AdminStepInv ==
    ASSUME Inv, NEW a \in Admins, AdminStep(a)
    PROVE  Inv'
<1>1. CASE \E command \in Commands : Start(a, command)
  BY <1>1, StartInv
<1>2. CASE AddPool(a)
  BY <1>2, AddObjectInv DEF AddPool
<1>3. CASE UpdatePool(a)
  BY <1>3, UpdateObjectInv DEF UpdatePool
<1>4. CASE DeletePool(a)
  BY <1>4, DeletePoolInv
<1>5. CASE FindPool(a) \/ GetPools(a) \/ FindService(a) \/ GetServices(a)
  BY <1>5, OnlyReadsInv, IdleOp DEF FindPool, GetPools, FindService, GetServices, At
<1>6. CASE AddService(a)
  BY <1>6, AddObjectInv DEF AddService
<1>7. CASE UpdateService(a)
  BY <1>7, UpdateObjectInv DEF UpdateService
<1>8. CASE DeleteService(a)
  BY <1>8, DeleteServiceInv
<1>9. CASE AddServiceToPool(a)
  BY <1>9, AddServiceToPoolInv
<1>10. CASE RemoveServiceFromPool(a)
  BY <1>10, RemoveServiceFromPoolInv
<1>11. CASE RemoveAllServicesFromPool(a) \/ RemoveServiceFromAllPools(a)
  BY <1>11, RemoveAllInv DEF RemoveAllServicesFromPool, RemoveServiceFromAllPools
<1>12. CASE GetPoolBindings(a)
  BY <1>12, WithTargetIdInv, OnlyReadsInv, IdleOp DEF GetPoolBindings, At
<1>13. CASE GetServiceBindings(a)
  BY <1>13, WithTargetIdInv, OnlyReadsInv, IdleOp DEF GetServiceBindings, At
<1>14. CASE DbFails(a)
  BY <1>14, OnlyReadsInv DEF DbFails
<1> QED
  BY <1>1, <1>2, <1>3, <1>4, <1>5, <1>6, <1>7, <1>8, <1>9, <1>10, <1>11, <1>12, <1>13, <1>14
     DEF AdminStep

LEMMA SameControllerInv ==
    ASSUME Inv, UNCHANGED Controller
    PROVE  Inv'
BY DEF Inv, Controller, DbOK, JobsOK, IsJob, BoundInv, Separate, Bound, AdderKnows, DeleterKnows,
       HasPool, HasService, At

LEMMA AppStepController ==
    ASSUME AppStep
    PROVE  UNCHANGED Controller
BY DEF AppStep, ReadPools, NothingToLoad, StoreFails, LoadServices, ConnectDatabaseService

LEMMA InitInv == PoolsInit => Inv
<1> SUFFICES ASSUME PoolsInit PROVE Inv
  OBVIOUS
<1>1. DbOK
  <2> DEFINE n == CHOOSE n \in Names : TRUE
             pool == [id |-> ObjectIds[1], name |-> n, active |-> TRUE]
             service == [id |-> ObjectIds[2], name |-> n, active |-> TRUE]
  <2>1. "id" \in DOMAIN pool /\ "id" \in DOMAIN service
    OBVIOUS
  <2>2. db = [pools |-> {pool}, services |-> {service}, bindings |-> {}]
    BY DEF PoolsInit
  <2> HIDE DEF pool, service
  <2> QED
    BY <2>1, <2>2 DEF DbOK, Tables
<1>2. JobsOK
  BY DEF PoolsInit, JobsOK
<1>3. \A a \in Admins : job[a] = Idle
  BY DEF PoolsInit
<1>4. db.bindings = {}
  BY DEF PoolsInit
<1>5. Separate /\ Bound
  BY <1>3, <1>4, IdleOp DEF Separate, Bound
<1>6. \A a \in Admins : AdderKnows(a) /\ DeleterKnows(a)
  BY <1>3, IdleOp DEF AdderKnows, DeleterKnows, At
<1> QED
  BY <1>1, <1>2, <1>5, <1>6 DEF Inv, BoundInv

LEMMA StepInv == Inv /\ [ConsoleNext]_poolVars => Inv'
<1> SUFFICES ASSUME Inv, [ConsoleNext]_poolVars PROVE Inv'
  OBVIOUS
<1>1. ASSUME NEW a \in Admins, AdminStep(a) PROVE Inv'
  BY <1>1, AdminStepInv
<1>2. CASE AppStep
  BY <1>2, AppStepController, SameControllerInv
<1>3. ASSUME NEW a \in Admins, RoleRequired(a) PROVE Inv'
  BY <1>3, OnlyReadsInv, IdleOp DEF RoleRequired, At
<1>4. CASE UNCHANGED poolVars
  BY <1>4, SameControllerInv DEF poolVars, Controller
<1> QED
  BY <1>1, <1>2, <1>3, <1>4 DEF ConsoleNext, PoolsNext

(* DeletePool and DeleteService look at the bindings and AddServiceToPool  *)
(* at the pool and the service, in statements of their own: without a      *)
(* binding and a deletion that overlap, every binding has its pool and its *)
(* service, whatever fails and however many administrators there are.      *)
THEOREM BindingsNeverDangle == ConsoleSpec => []NoDanglingBinding
<1>1. Inv => NoDanglingBinding
  BY NoDanglingIsBound DEF Inv, BoundInv
<1> QED
  BY <1>1, InitInv, StepInv, PTL DEF ConsoleSpec

-----------------------------------------------------------------------------
(* The pool store of an application.                                       *)

(* Only AddServiceToPool adds a binding, and the history keeps all.        *)
LEMMA AdminStepBound ==
    ASSUME DbOK, NEW a \in Admins, AdminStep(a) \/ RoleRequired(a)
    PROVE  /\ UNCHANGED <<store, connection>>
           /\ everBound \subseteq everBound'
           /\ \A b \in db'.bindings :
                b \in db.bindings \/ <<b.pool_id, b.role, b.service_id>> \in everBound'
<1> DEFINE Goal == /\ UNCHANGED <<store, connection>>
                   /\ everBound \subseteq everBound'
                   /\ \A b \in db'.bindings :
                        b \in db.bindings \/ <<b.pool_id, b.role, b.service_id>> \in everBound'
<1>1. ASSUME Reads PROVE Goal
  BY <1>1 DEF Reads
<1>2. ASSUME NEW table \in {"pools", "services"}, NEW rows, Writes(table, rows), UNCHANGED everBound
      PROVE  Goal
  <2>1. db'.bindings = db.bindings /\ UNCHANGED <<store, connection>>
    BY <1>2, WritesDb DEF Tables
  <2> QED
    BY <1>2, <2>1
<1>3. ASSUME NEW rows \in SUBSET db.bindings, Writes("bindings", rows), UNCHANGED everBound
      PROVE  Goal
  <2>1. db'.bindings = rows /\ UNCHANGED <<store, connection>>
    BY <1>3, WritesDb DEF Tables
  <2> QED
    BY <1>3, <2>1
<1>4. ASSUME NEW row, Writes("bindings", Create(db.bindings, row)),
             everBound' = everBound \union {<<row.pool_id, row.role, row.service_id>>}
      PROVE  Goal
  <2>1. db'.bindings = db.bindings \union {row} /\ UNCHANGED <<store, connection>>
    BY <1>4, WritesDb DEF Create, Tables
  <2> QED
    BY <1>4, <2>1
<1>5. \A fields : DeleteByFields(db.bindings, fields) \in SUBSET db.bindings
  BY DEF DeleteByFields
<1>6. \A id : Delete(db.bindings, id) \in SUBSET db.bindings
  BY DEF Delete
<1> SUFFICES Goal
  OBVIOUS
<1> HIDE DEF Goal
<1>7. CASE \E command \in Commands : Start(a, command)
  BY <1>1, <1>7 DEF Start
<1>8. CASE FindPool(a) \/ GetPools(a) \/ FindService(a) \/ GetServices(a)
             \/ GetPoolBindings(a) \/ GetServiceBindings(a) \/ DbFails(a) \/ RoleRequired(a)
  BY <1>1, <1>8 DEF FindPool, GetPools, FindService, GetServices, GetPoolBindings,
                    GetServiceBindings, DbFails, RoleRequired, WithTargetId
<1>9. CASE AddPool(a) \/ AddService(a)
  BY <1>1, <1>2, <1>9 DEF AddPool, AddService, AddObject
<1>10. CASE UpdatePool(a) \/ UpdateService(a)
  BY <1>1, <1>2, <1>10 DEF UpdatePool, UpdateService, UpdateObject
<1>11. CASE DeletePool(a) \/ DeleteService(a)
  BY <1>1, <1>2, <1>11 DEF DeletePool, DeleteService, DeleteObject, WithTargetId
<1>12. CASE AddServiceToPool(a)
  BY <1>1, <1>4, <1>12 DEF AddServiceToPool
<1>13. CASE RemoveServiceFromPool(a)
  BY <1>1, <1>3, <1>6, <1>13 DEF RemoveServiceFromPool, WithTargetId
<1>14. CASE RemoveAllServicesFromPool(a) \/ RemoveServiceFromAllPools(a)
  BY <1>1, <1>3, <1>5, <1>14 DEF RemoveAllServicesFromPool, RemoveServiceFromAllPools, RemoveAll,
                                 WithTargetId
<1> QED
  BY <1>7, <1>8, <1>9, <1>10, <1>11, <1>12, <1>13, <1>14 DEF AdminStep

LEMMA AdminStepStore ==
    ASSUME DbOK, StoreInv, NEW a \in Admins, AdminStep(a) \/ RoleRequired(a)
    PROVE  StoreInv'
<1>1. /\ UNCHANGED <<store, connection>>
      /\ everBound \subseteq everBound'
      /\ \A b \in db'.bindings :
           b \in db.bindings \/ <<b.pool_id, b.role, b.service_id>> \in everBound'
  BY AdminStepBound
<1> QED
  BY <1>1 DEF StoreInv, StoreHoldsOwnServices

(* The join finds a service by the ids of a binding.                       *)
LEMMA JoinedIsBound ==
    ASSUME StoreInv, NEW id, NEW b \in PoolBindings(id)
    PROVE  <<id, b.role, b.service.id>> \in everBound
<1>1. b \in Bindings /\ b.pool.id = id
  BY DEF PoolBindings
<1>2. PICK t \in db.bindings \X db.pools \X db.services :
             /\ t[1].pool_id = t[2].id /\ t[1].service_id = t[3].id
             /\ b = [pool |-> t[2], service |-> t[3], role |-> t[1].role]
  BY <1>1 DEF Bindings
<1>3. b.pool = t[2] /\ b.service = t[3] /\ b.role = t[1].role /\ t[1] \in db.bindings
  BY <1>2
<1>4. <<t[1].pool_id, t[1].role, t[1].service_id>> \in everBound
  BY <1>3 DEF StoreInv
<1> QED
  BY <1>1, <1>2, <1>3, <1>4

LEMMA AppStepStore ==
    ASSUME StoreInv, AppStep
    PROVE  StoreInv'
<1>1. UNCHANGED Controller
  BY AppStepController
<1>2. \A b \in db'.bindings : <<b.pool_id, b.role, b.service_id>> \in everBound'
  BY <1>1 DEF StoreInv, Controller
<1>3. CASE ReadPools \/ NothingToLoad \/ StoreFails
  <2>1. /\ store' = [f \in {"at", "todo", "pools"} |-> store'[f]]
        /\ store'.pools = store.pools /\ connection' = connection
    BY <1>3 DEF ReadPools, NothingToLoad, StoreFails, StoreInv
  <2> QED
    BY <1>1, <1>2, <2>1 DEF StoreInv, StoreHoldsOwnServices, Controller
<1>4. ASSUME NEW p \in store.todo, LoadServices(p) PROVE StoreInv'
  <2> DEFINE new == [pool |-> p, services |-> PoolBindings(p.id)]
  <2>1. /\ store' = [f \in {"at", "todo", "pools"} |-> store'[f]]
        /\ store'.pools = store.pools \union {new} /\ connection' = connection
    BY <1>4 DEF LoadServices, StoreInv
  <2>2. \A b \in new.services : <<new.pool.id, b.role, b.service.id>> \in everBound
    BY JoinedIsBound
  <2> HIDE DEF new
  <2> QED
    BY <1>1, <1>2, <2>1, <2>2 DEF StoreInv, StoreHoldsOwnServices, Controller
<1>5. ASSUME NEW l \in store.pools, NEW r \in Roles, NEW new \in BOOLEAN,
             ConnectDatabaseService(l, r, new)
      PROVE  StoreInv'
  <2>1. store' = store
    BY <1>5 DEF ConnectDatabaseService
  <2>2. connection'.services \subseteq {<<l.pool.id, b.role, b.service.id>> : b \in l.services}
    BY <1>5 DEF ConnectDatabaseService
  <2>3. connection'.services \subseteq everBound
    BY <2>2 DEF StoreInv, StoreHoldsOwnServices
  <2> QED
    BY <1>1, <1>2, <2>1, <2>3 DEF StoreInv, StoreHoldsOwnServices, Controller
<1> QED
  BY <1>3, <1>4, <1>5 DEF AppStep

(* PoolStoreBase.Init reads the pools and then the services of each, in    *)
(* statements of their own; whatever administrators rename, rebind or      *)
(* delete meanwhile, the application loads, and connects to, only services *)
(* that were bound to that pool under that role.                           *)
THEOREM StoresHoldOwnServices == ConsoleSpec => []StoreHoldsOwnServices
<1>1. PoolsInit => StoreInv
  BY DEF PoolsInit, StoreInv, StoreHoldsOwnServices
<1>2. DbOK /\ StoreInv /\ [ConsoleNext]_poolVars => StoreInv'
  <2> SUFFICES ASSUME DbOK, StoreInv, [ConsoleNext]_poolVars PROVE StoreInv'
    OBVIOUS
  <2>1. ASSUME NEW a \in Admins, AdminStep(a) \/ RoleRequired(a) PROVE StoreInv'
    BY <2>1, AdminStepStore
  <2>2. CASE UNCHANGED poolVars
    BY <2>2 DEF poolVars, StoreInv, StoreHoldsOwnServices
  <2> QED
    BY <2>1, <2>2, AppStepStore DEF ConsoleNext, PoolsNext
<1>3. Inv => DbOK
  BY DEF Inv
<1>4. StoreInv => StoreHoldsOwnServices
  BY DEF StoreInv
<1> QED
  BY <1>1, <1>2, <1>3, <1>4, InitInv, StepInv, PTL DEF ConsoleSpec
=============================================================================
