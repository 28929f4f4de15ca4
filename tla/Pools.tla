-------------------------------- MODULE Pools --------------------------------
(***************************************************************************)
(* Pools, services and the bindings of services to pools (pkg/pool).       *)
(*                                                                         *)
(* The tables of the database are changed by the operations of             *)
(* PoolControllerBase, each of them a sequence of statements that the      *)
(* statements of other administrators come between; there is no            *)
(* transaction.  An application that starts reads its pools with           *)
(* PoolStoreBase.Init and then connects to the database service of a pool  *)
(* from what it has read.                                                  *)
(*                                                                         *)
(* A call names its pool or service by id or by name (idIsName).  The      *)
(* operation log and the descriptive fields are left out.                  *)
(***************************************************************************)
EXTENDS Crud, Sequences

CONSTANTS
    Admins,      \* the callers of the controller
    ObjectIds,   \* the ids that new objects get, in this order
    Names,       \* names of pools and of services
    Roles,       \* roles of services in a pool
    PoolNames,   \* POOL_NAME of the application is one of these, "" for none
    MaxCalls,    \* bound: calls that are started
    Commands     \* the sequences of calls an administrator may ask for

Calls == UNION {{command[i] : i \in DOMAIN command} : command \in Commands}

\* ValidateMap in front of every update, at the console and in the API: the id is not among
\* the fields of PoolBaseData, PoolServiceBaseData and PoolServiceBaseEssentials.
ASSUME CommandsAssumption ==
    /\ \A command \in Commands : command \in Seq(Calls) /\ command # <<>>
    /\ \A call \in Calls : "id" \notin DOMAIN call.fields

VARIABLES
    db,          \* the tables pools, services and bindings
    next,        \* number of the next object id
    job,         \* the call that each administrator has under way
    answer,      \* what the last call of each administrator returned
    calls,       \* number of calls started so far
    store,       \* the pool store of the application
    connection,  \* the last attempt to connect to a database service
    overlap,     \* history: a binding was added while a pool or service was deleted
    everBound    \* history: what was ever bound, as <<pool, role, service>>

poolVars == <<db, next, job, answer, calls, store, connection, overlap, everBound>>

Idle == [op |-> "none"]
NoId == ""

\* The unique indexes of the tables: the gorm tags of the models.
Indexes == [pools |-> {{"name"}}, services |-> {{"name"}}, bindings |-> {{"pool_id", "role"}}]

-----------------------------------------------------------------------------
(* Steps of a call *)

At(a, op, at) == job[a].op = op /\ job[a].at = at

Started(call, then) ==
    [op |-> call.op, target |-> call.target, byName |-> call.byName, service |-> call.service,
     role |-> call.role, fields |-> call.fields, at |-> "start", pool |-> NoId, object |-> NoId,
     then |-> then]

\* The call goes on with the statement `at`.
Goto(a, at) ==
    /\ job' = [job EXCEPT ![a].at = at]
    /\ UNCHANGED <<answer, calls, overlap>>

\* The same with the id of the object, or of the pool, that the call has found.
GotoWith(a, at, id) ==
    /\ job' = [job EXCEPT ![a].at = at, ![a].object = id]
    /\ UNCHANGED <<answer, calls, overlap>>
GotoWithPool(a, at, id) ==
    /\ job' = [job EXCEPT ![a].at = at, ![a].pool = id]
    /\ UNCHANGED <<answer, calls, overlap>>

Adders   == {"AddServiceToPool"}
Deleters == {"DeletePool", "DeleteService"}

\* Whether a call begins while a call of the other kind is under way.
Overlaps(a, op) ==
    \E b \in Admins \ {a} : \/ op \in Adders /\ job[b].op \in Deleters
                            \/ op \in Deleters /\ job[b].op \in Adders

\* The call returns; a command that has another call to make goes on after a success.
Return(a, code) ==
    LET more == job[a].then IN
    /\ answer' = [answer EXCEPT ![a] = code]
    /\ IF code = "ok" /\ more # <<>>
       THEN /\ job' = [job EXCEPT ![a] = Started(Head(more), Tail(more))]
            /\ overlap' = (overlap \/ Overlaps(a, Head(more).op))
       ELSE /\ job' = [job EXCEPT ![a] = Idle]
            /\ UNCHANGED overlap
    /\ UNCHANGED calls

Reads == UNCHANGED <<db, next, store, connection, everBound>>
Writes(table, rows) == db' = [db EXCEPT ![table] = rows] /\ UNCHANGED <<store, connection>>

\* fieldName: a target is a name or an id.
FieldName(a) == IF job[a].byName THEN "name" ELSE "id"

\* FindPool, FindService: the object a target names, if any.
Target(a, table) == FindByField(db[table], FieldName(a), job[a].target)

\* PoolId, ServiceId: an id is taken as it is, without a look at the database.
TargetIds(a, table) ==
    IF job[a].byName THEN {r.id : r \in Target(a, table)} ELSE {job[a].target}

\* A target that no object has by name ends the call, and is no error.
WithTargetId(a, op, table, at) ==
    /\ At(a, op, "start")
    /\ Reads
    /\ IF TargetIds(a, table) = {}
       THEN Return(a, "ok")
       ELSE \E id \in TargetIds(a, table) : GotoWith(a, at, id)

-----------------------------------------------------------------------------
(* Objects: the same statements for pools and for services *)

\* CheckPoolNameUnique, CheckServiceNameUnique
NameTaken(table, name) == Exists(db[table], [name |-> name])

AddObject(a, op, table, conflict) ==
    \/ /\ At(a, op, "start")
       /\ Reads
       /\ IF NameTaken(table, job[a].target)
          THEN Return(a, conflict)
          ELSE Goto(a, "create")
    \/ /\ At(a, op, "create")
       /\ LET row == [id |-> ObjectIds[next], name |-> job[a].target, active |-> TRUE] IN
          IF CanCreate(db[table], Indexes[table], row)
          THEN /\ Writes(table, Create(db[table], row))
               /\ next' = next + 1
               /\ Return(a, "ok")
               /\ UNCHANGED everBound
          ELSE Reads /\ Return(a, "db_error")

UpdateObject(a, op, table, conflict, missing) ==
    \/ /\ At(a, op, "start")
       /\ Reads
       /\ IF "name" \in DOMAIN job[a].fields /\ NameTaken(table, job[a].fields.name)
          THEN Return(a, conflict)
          ELSE Goto(a, "find")
    \/ /\ At(a, op, "find")
       /\ Reads
       /\ IF Target(a, table) = {}
          THEN Return(a, missing)
          ELSE \E r \in Target(a, table) : GotoWith(a, "update", r.id)
    \/ /\ At(a, op, "update")
       /\ IF CanUpdate(db[table], Indexes[table], job[a].object, job[a].fields)
          THEN /\ Writes(table, Update(db[table], job[a].object, job[a].fields))
               /\ UNCHANGED <<next, everBound>>
               /\ Goto(a, "reread")
          ELSE Reads /\ Return(a, "db_error")
    \/ /\ At(a, op, "reread")
       /\ Reads
       /\ Return(a, IF Exists(db[table], [id |-> job[a].object]) THEN "ok" ELSE missing)

\* The read before the deletion by id changes nothing that another call can see.
DeleteObject(a, op, table, reference, bound) ==
    \/ WithTargetId(a, op, table, "check")
    \/ /\ At(a, op, "check")
       /\ Reads
       /\ IF Exists(db.bindings, [f \in {reference} |-> job[a].object])
          THEN Return(a, bound)
          ELSE Goto(a, "delete")
    \/ /\ At(a, op, "delete")
       /\ Writes(table, Delete(db[table], job[a].object))
       /\ UNCHANGED <<next, everBound>>
       /\ Return(a, "ok")

\* Mutant: the bindings are not looked at.
DeleteUnchecked(a) ==
    \/ WithTargetId(a, "DeletePool", "pools", "delete")
    \/ /\ At(a, "DeletePool", "delete")
       /\ Writes("pools", Delete(db.pools, job[a].object))
       /\ UNCHANGED <<next, everBound>>
       /\ Return(a, "ok")

AddPool(a)       == AddObject(a, "AddPool", "pools", "pool_name_conflict")
UpdatePool(a)    == UpdateObject(a, "UpdatePool", "pools", "pool_name_conflict", "pool_not_found")
DeletePool(a)    == DeleteObject(a, "DeletePool", "pools", "pool_id", "pool_service_bindings_exist")
AddService(a)    == AddObject(a, "AddService", "services", "service_name_conflict")
UpdateService(a) == UpdateObject(a, "UpdateService", "services", "service_name_conflict", "service_not_found")
DeleteService(a) == DeleteObject(a, "DeleteService", "services", "service_id", "service_bound_to_pool")

\* FindPool and FindService return no object and no error for an unknown target, and leave
\* the code of the error in the context.
FindPool(a) ==
    /\ At(a, "FindPool", "start") /\ Reads
    /\ Return(a, IF Target(a, "pools") = {} THEN "pool_not_found" ELSE "ok")
FindService(a) ==
    /\ At(a, "FindService", "start") /\ Reads
    /\ Return(a, IF Target(a, "services") = {} THEN "service_not_found" ELSE "ok")

\* GetPools and GetServices read the whole table.
GetPools(a) == At(a, "GetPools", "start") /\ Reads /\ Return(a, "ok")
GetServices(a) == At(a, "GetServices", "start") /\ Reads /\ Return(a, "ok")

-----------------------------------------------------------------------------
(* Bindings *)

AddServiceToPool(a) ==
    \/ /\ At(a, "AddServiceToPool", "start")
       /\ Reads
       /\ IF Target(a, "pools") = {}
          THEN Return(a, "pool_not_found")
          ELSE \E r \in Target(a, "pools") : GotoWithPool(a, "service", r.id)
    \/ /\ At(a, "AddServiceToPool", "service")
       /\ Reads
       /\ LET found == FindByField(db.services, FieldName(a), job[a].service) IN
          IF found = {}
          THEN Return(a, "service_not_found")
          ELSE \E r \in found : GotoWith(a, "role", r.id)
    \/ /\ At(a, "AddServiceToPool", "role")
       /\ Reads
       /\ IF Exists(db.bindings, [pool_id |-> job[a].pool, role |-> job[a].role])
          THEN Return(a, "service_role_conflict")
          ELSE Goto(a, "create")
    \/ /\ At(a, "AddServiceToPool", "create")
       /\ LET row == [id |-> ObjectIds[next], pool_id |-> job[a].pool, role |-> job[a].role,
                      service_id |-> job[a].object]
          IN  IF CanCreate(db.bindings, Indexes.bindings, row)
              THEN /\ Writes("bindings", Create(db.bindings, row))
                   /\ next' = next + 1
                   /\ everBound' = everBound \union {<<row.pool_id, row.role, row.service_id>>}
                   /\ Return(a, "ok")
              ELSE Reads /\ Return(a, "db_error")

\* The binding is read and then deleted by its id: one that was replaced meanwhile stays.
RemoveServiceFromPool(a) ==
    \/ WithTargetId(a, "RemoveServiceFromPool", "pools", "read")
    \/ /\ At(a, "RemoveServiceFromPool", "read")
       /\ Reads
       /\ LET found == Read(db.bindings, [pool_id |-> job[a].object, role |-> job[a].role]) IN
          IF found = {}
          THEN Return(a, "ok")
          ELSE \E r \in found : GotoWith(a, "delete", r.id)
    \/ /\ At(a, "RemoveServiceFromPool", "delete")
       /\ Writes("bindings", Delete(db.bindings, job[a].object))
       /\ UNCHANGED <<next, everBound>>
       /\ Return(a, "ok")

RemoveAll(a, op, table, reference) ==
    \/ WithTargetId(a, op, table, "delete")
    \/ /\ At(a, op, "delete")
       /\ Writes("bindings", DeleteByFields(db.bindings, [f \in {reference} |-> job[a].object]))
       /\ UNCHANGED <<next, everBound>>
       /\ Return(a, "ok")

RemoveAllServicesFromPool(a) == RemoveAll(a, "RemoveAllServicesFromPool", "pools", "pool_id")
RemoveServiceFromAllPools(a) == RemoveAll(a, "RemoveServiceFromAllPools", "services", "service_id")

\* The join of the three tables: a binding whose pool or service is gone is not in it.
Bindings ==
    {[pool |-> t[2], service |-> t[3], role |-> t[1].role] :
        t \in {t \in db.bindings \X db.pools \X db.services :
                  t[1].pool_id = t[2].id /\ t[1].service_id = t[3].id}}
PoolBindings(id) == {b \in Bindings : b.pool.id = id}

GetPoolBindings(a) ==
    \/ WithTargetId(a, "GetPoolBindings", "pools", "join")
    \/ At(a, "GetPoolBindings", "join") /\ Reads /\ Return(a, "ok")
GetServiceBindings(a) ==
    \/ WithTargetId(a, "GetServiceBindings", "services", "join")
    \/ At(a, "GetServiceBindings", "join") /\ Reads /\ Return(a, "ok")

\* Any statement may fail; the call returns the error and makes no other one.
DbFails(a) ==
    /\ job[a] # Idle
    /\ Reads
    /\ Return(a, "db_error")

Start(a, command) ==
    /\ job[a] = Idle
    /\ calls < MaxCalls
    /\ calls' = calls + 1
    /\ job' = [job EXCEPT ![a] = Started(Head(command), Tail(command))]
    /\ overlap' = (overlap \/ Overlaps(a, Head(command).op))
    /\ answer' = [answer EXCEPT ![a] = "none"]
    /\ Reads

-----------------------------------------------------------------------------
(* The pool store of an application, and its connections *)

Controller == <<db, next, job, answer, calls, overlap, everBound>>

\* Init with ENABLE_POOLS and any POOL_NAME: the pool of that name, or all pools, are read first.
ReadPools ==
    /\ store.at = "start"
    /\ \E name \in PoolNames :
         LET found == IF name = "" THEN List(db.pools, NoFilter) ELSE FindByField(db.pools, "name", name)
         IN store' = IF name # "" /\ found = {} THEN [store EXCEPT !.at = "failed"]
                     ELSE [store EXCEPT !.at = "loading", !.todo = found]
    /\ UNCHANGED <<Controller, connection>>

\* Mutant: the services are looked up by the name of the pool.
LoadServicesByName(p) ==
    /\ store.at = "loading"
    /\ p \in store.todo
    /\ store' = [store EXCEPT !.todo = @ \ {p},
                   !.pools = @ \union {[pool |-> p, services |-> {b \in Bindings : b.pool.name = p.name}]},
                   !.at = IF store.todo = {p} THEN "ready" ELSE @]
    /\ UNCHANGED <<Controller, connection>>

\* loadServices: the services of one pool, found by the id of the pool, in a statement of
\* their own; SetServices keeps one for a role.
LoadServices(p) ==
    /\ store.at = "loading"
    /\ p \in store.todo
    /\ store' = [store EXCEPT !.todo = @ \ {p},
                              !.pools = @ \union {[pool |-> p, services |-> PoolBindings(p.id)]},
                              !.at = IF store.todo = {p} THEN "ready" ELSE @]
    /\ UNCHANGED <<Controller, connection>>

\* There is no pool in the database and none was asked for.
NothingToLoad ==
    /\ store.at = "loading" /\ store.todo = {}
    /\ store' = [store EXCEPT !.at = "ready"]
    /\ UNCHANGED <<Controller, connection>>

\* A statement of Init fails, and the application does not start.
StoreFails ==
    /\ store.at \in {"start", "loading"}
    /\ store' = [store EXCEPT !.at = "failed"]
    /\ UNCHANGED <<Controller, connection>>

\* ConnectDatabaseService: the service of the role in the pool as it was loaded must be
\* active; a new database is created through a connection of its own.
ConnectDatabaseService(loaded, role, newDb) ==
    LET found == {b \in loaded.services : b.role = role}
        outcome == IF found = {} THEN {"no_service_with_role"}
                   ELSE IF \A b \in found : ~ b.service.active THEN {"service_not_active"}
                   ELSE {"invalid_service_configuration", "service_initialization_failed", "ok"}
                        \union (IF newDb THEN {"create_service_database_failed"} ELSE {})
    IN  /\ store.at = "ready"
        /\ loaded \in store.pools
        /\ \E r \in outcome :
              connection' = [result |-> r,
                             services |-> IF r = "ok" THEN {<<loaded.pool.id, role, b.service.id>> : b \in found} ELSE {}]
        /\ UNCHANGED <<Controller, store>>

-----------------------------------------------------------------------------

PoolsInit ==
    /\ db = [pools |-> {[id |-> ObjectIds[1], name |-> CHOOSE n \in Names : TRUE, active |-> TRUE]},
             services |-> {[id |-> ObjectIds[2], name |-> CHOOSE n \in Names : TRUE, active |-> TRUE]},
             bindings |-> {}]
    /\ next = 3
    /\ job = [a \in Admins |-> Idle]
    /\ answer = [a \in Admins |-> "none"]
    /\ calls = 0
    /\ store = [at |-> "start", todo |-> {}, pools |-> {}]
    /\ connection = [result |-> "none", services |-> {}]
    /\ overlap = FALSE
    /\ everBound = {}

AdminStep(a) ==
    \/ \E command \in Commands : Start(a, command)
    \/ AddPool(a) \/ UpdatePool(a) \/ DeletePool(a) \/ FindPool(a) \/ GetPools(a)
    \/ AddService(a) \/ UpdateService(a) \/ DeleteService(a) \/ FindService(a) \/ GetServices(a)
    \/ AddServiceToPool(a) \/ RemoveServiceFromPool(a)
    \/ RemoveAllServicesFromPool(a) \/ RemoveServiceFromAllPools(a)
    \/ GetPoolBindings(a) \/ GetServiceBindings(a)
    \/ DbFails(a)

AppStep ==
    \/ ReadPools \/ NothingToLoad \/ StoreFails
    \/ \E p \in store.todo : LoadServices(p)
    \/ \E l \in store.pools, r \in Roles, new \in BOOLEAN : ConnectDatabaseService(l, r, new)

PoolsNext == (\E a \in Admins : AdminStep(a)) \/ AppStep

PoolsSpec == PoolsInit /\ [][PoolsNext]_poolVars

-----------------------------------------------------------------------------

\* "Can't delete pool with services", "Can't delete service bound to pool": unless a binding is
\* added while a pool or a service is being deleted, every binding has its pool and its service.
NoDanglingBinding ==
    overlap \/ \A b \in db.bindings : /\ Exists(db.pools, [id |-> b.pool_id])
                                      /\ Exists(db.services, [id |-> b.service_id])

\* Whatever is renamed, rebound or deleted while an application starts, what it loads for a pool,
\* and what it connects to, was bound to that pool under that role.
StoreHoldsOwnServices ==
    /\ \A l \in store.pools : \A b \in l.services : <<l.pool.id, b.role, b.service.id>> \in everBound
    /\ connection.services \subseteq everBound
=============================================================================
