-------------------------- MODULE TenancyController --------------------------
(***************************************************************************)
(* The operations of the tenancy controller                                 *)
(* (src/pkg/multitenancy/tenancy_manager/tenancy_controller.go) by           *)
(* concurrent administrators, composed with the caches of the servers.       *)
(*                                                                           *)
(* An operation reads the row, queries the table for duplicates, writes, and *)
(* publishes a notification: separate statements with no transaction around  *)
(* them.  A refused operation ends with an error and no further effect.      *)
(***************************************************************************)
EXTENDS TenancyManager

CONSTANTS
    Admin,        \* processes that call the controller
    Existing,     \* tenancies in the database at the start
    MaxOps        \* bound on the number of operations

ASSUME ControllerAssumption ==
    /\ Existing \subseteq Tenancy
    /\ MaxOps \in Nat

VARIABLES
    admin,        \* admin[a]: the operation in progress
    used,         \* ids that were generated
    ops,          \* operations begun
    overlapped,   \* history: tenancies with an operation that was under way
                  \* at the same time as another, before both had written
    byName,       \* history: tenancies added with the name of their pool
    missed,       \* history: missed[s]: tenancies that s may not know of
    crossed       \* history: crossed[s]: tenancies that s may load twice at
                  \* the same time

adminVars == <<admin, used, ops>>
history == <<overlapped, byName, missed, crossed>>
vars == <<tables, managerVars, adminVars, history>>

NoOp == [at |-> "idle"]
AnyPool == "any"

\* A query of CheckDuplicatePath: rows of a pool with a value in one column.
Query == [pool: Pool \cup {AnyPool}, column: {"path", "shadow"}, value: Path]

\* The two queries of CheckDuplicatePath.
\* Faulty variant: the shadow paths are not searched.
CheckPathOnly(pool, p) == <<[pool |-> pool, column |-> "path", value |-> p]>>

CheckDuplicatePath(pool, p) ==
    << [pool |-> pool, column |-> "path", value |-> p],
       [pool |-> pool, column |-> "shadow", value |-> p] >>

\* Add passes the pool as the caller named it to the queries, which compare it
\* with the ids in the table: a name matches no row.
Matches(t, q) == rows[t].pool = q.pool /\ rows[t][q.column] = q.value

-----------------------------------------------------------------------------
(* What is under way at the same time.                                     *)

\* The operations that have yet to write, and those on one tenancy.
Writers == {a \in Admin : admin[a].at \notin {"idle", "publish"}}
About(t) == {a \in Admin : admin[a] # NoOp /\ admin[a].id = t}

\* The reader of pool p in s has a notification about t, or loads it.
LoadedId(s, l) == IF loader[s][l].at = "find" THEN loader[s][l].id
                                              ELSE loader[s][l].tenancy.id
Loading(s, l, t) == loader[s][l].at # "idle" /\ LoadedId(s, l) = t
Works(s, p, t) ==
    \/ \E i \in DOMAIN channel[s][p] : channel[s][p][i].id = t
    \/ Loading(s, p, t)

\* An operation on t begins: others may be under way, and servers may start.
Begin(a, t) ==
    /\ admin[a] = NoOp
    /\ ops < MaxOps
    /\ ops' = ops + 1
    /\ overlapped' = IF Writers = {} THEN overlapped
                     ELSE overlapped \cup {t} \cup {admin[b].id : b \in Writers}
    /\ missed' = [s \in Server |->
           IF About(t) # {} /\ stage[s] # "down" THEN missed[s] \cup {t}
                                                ELSE missed[s]]
    /\ crossed' = [s \in Server |->
           IF stage[s] \in {"subscribed", "loading"} THEN crossed[s] \cup {t}
                                                   ELSE crossed[s]]

-----------------------------------------------------------------------------
(* First step of the operations on an existing tenancy: the row is read.   *)

\* PublishOp addresses the pool of the row that was read, or of the new row.
Notify(t, pool) == [pool |-> pool, msg |-> [id |-> t, delete |-> FALSE]]
NotifyDelete(t, pool) == [pool |-> pool, msg |-> [id |-> t, delete |-> TRUE]]

Update(a, t, fields, queries, notes) ==
    /\ Begin(a, t)
    /\ t \in DOMAIN rows
    /\ admin' = [admin EXCEPT ![a] =
           [at |-> "update", id |-> t, fields |-> fields,
            queries |-> queries, notes |-> notes]]
    /\ UNCHANGED <<tables, managerVars, used, byName>>

SetPath(a, t, p) ==
    t \in DOMAIN rows /\
    Update(a, t, [path |-> p], CheckDuplicatePath(rows[t].pool, p),
           <<Notify(t, rows[t].pool)>>)

SetShadowPath(a, t, p) ==
    t \in DOMAIN rows /\
    Update(a, t, [shadow |-> p], CheckDuplicatePath(rows[t].pool, p),
           <<Notify(t, rows[t].pool)>>)

\* The check of duplicate roles only refuses, so its outcome is left open.
SetRole(a, t, v) ==
    t \in DOMAIN rows /\
    Update(a, t, [attr |-> v], <<>>, <<Notify(t, rows[t].pool)>>)

SetCustomer(a, t, v) ==
    t \in DOMAIN rows /\
    Update(a, t, [attr |-> v], <<>>, <<Notify(t, rows[t].pool)>>)

SetPathBlocked(a, t, v) ==
    t \in DOMAIN rows /\
    Update(a, t, [attr |-> v], <<>>, <<Notify(t, rows[t].pool)>>)

Activate(a, t) ==
    t \in DOMAIN rows /\
    Update(a, t, [active |-> TRUE], <<>>, <<Notify(t, rows[t].pool)>>)

Deactivate(a, t) ==
    t \in DOMAIN rows /\
    Update(a, t, [active |-> FALSE], <<>>, <<Notify(t, rows[t].pool)>>)

\* The database is tried before the update; a tenancy that is not active
\* has no pool to try and is refused, like one of an inactive pool.
SetDbRole(a, t, v) ==
    /\ t \in DOMAIN rows
    /\ Connected([id |-> t, row |-> rows[t]])
    /\ InitTenancy([id |-> t, row |-> rows[t]])
    /\ Update(a, t, [attr |-> v], <<>>, <<Notify(t, rows[t].pool)>>)

\* Faulty variant: the old pool is told after the new one.
ChangePoolOrDbReversed(a, t, pool, d) ==
    /\ t \in DOMAIN rows
    /\ rows[t].active => pool \in ActivePool
    /\ InitTenancy([id |-> t, row |-> [rows[t] EXCEPT !.pool = pool, !.db = d]])
    /\ Update(a, t, [pool |-> pool, db |-> d],
              IF pool = rows[t].pool THEN <<>>
              ELSE CheckDuplicatePath(pool, rows[t].path)
                   \o CheckDuplicatePath(pool, rows[t].shadow),
              IF pool = rows[t].pool THEN <<Notify(t, pool)>>
              ELSE <<Notify(t, pool), NotifyDelete(t, rows[t].pool)>>)

\* An active tenancy is tried at its new place.  The servers of the old pool
\* are told to unload it before those of the new pool are told to load it.
ChangePoolOrDb(a, t, pool, d) ==
    /\ t \in DOMAIN rows
    /\ rows[t].active => pool \in ActivePool
    /\ InitTenancy([id |-> t, row |-> [rows[t] EXCEPT !.pool = pool, !.db = d]])
    /\ Update(a, t, [pool |-> pool, db |-> d],
              IF pool = rows[t].pool THEN <<>>
              ELSE CheckDuplicatePath(pool, rows[t].path)
                   \o CheckDuplicatePath(pool, rows[t].shadow),
              IF pool = rows[t].pool THEN <<Notify(t, pool)>>
              ELSE <<NotifyDelete(t, rows[t].pool), Notify(t, pool)>>)

\* Operations that write another table, or delete the row.
Effect(a, t, kind, notes) ==
    /\ Begin(a, t)
    /\ t \in DOMAIN rows
    /\ admin' = [admin EXCEPT ![a] =
           [at |-> kind, id |-> t, queries |-> <<>>, notes |-> notes]]
    /\ UNCHANGED <<tables, managerVars, used, byName>>

Delete(a, t) ==
    t \in DOMAIN rows /\ Effect(a, t, "delete", <<NotifyDelete(t, rows[t].pool)>>)

AddIpAddress(a, t) ==
    t \in DOMAIN rows /\ Effect(a, t, "add_ip", <<Notify(t, rows[t].pool)>>)

DeleteIpAddress(a, t) ==
    t \in DOMAIN rows /\ Effect(a, t, "delete_ip", <<Notify(t, rows[t].pool)>>)

-----------------------------------------------------------------------------
(* Add: a new id, the duplicate queries, then the database is claimed.     *)

\* The pool is given by its id or by its name, and must be active.
Add(a, row, by) ==
    LET asked == IF by = "id" THEN row.pool ELSE AnyPool IN
    /\ row.pool \in ActivePool
    /\ \E t \in Tenancy \ used :
          /\ Begin(a, t)
          /\ used' = used \cup {t}
          /\ byName' = IF by = "id" THEN byName ELSE byName \cup {t}
          /\ admin' = [admin EXCEPT ![a] =
                 [at |-> "metas", id |-> t, fields |-> row,
                  queries |-> CheckDuplicatePath(asked, row.path)
                              \o CheckDuplicatePath(asked, row.shadow),
                  notes |-> <<Notify(t, row.pool)>>]]
    /\ UNCHANGED <<tables, managerVars>>

\* The new id is not in any database, so any owner found there is foreign.
ReadMetas(a) ==
    /\ admin[a].at = "metas"
    /\ admin[a].queries = <<>>
    /\ admin' = [admin EXCEPT ![a] =
           IF metas[admin[a].fields.db] = {} THEN [@ EXCEPT !.at = "claim"]
                                             ELSE NoOp]
    /\ UNCHANGED <<tables, managerVars, used, ops, history>>

ClaimDatabase(a) ==
    /\ admin[a].at = "claim"
    /\ metas' = [metas EXCEPT ![admin[a].fields.db] = @ \cup {admin[a].id}]
    /\ admin' = [admin EXCEPT ![a].at = "create"]
    /\ UNCHANGED <<rows, ips, managerVars, used, ops, history>>

-----------------------------------------------------------------------------
(* The later steps, common to the operations.                              *)

\* One query of CheckDuplicatePath; a match, the tenancy's own row included,
\* refuses the operation.
RunQuery(a) ==
    /\ admin[a].at \in {"update", "metas"}
    /\ admin[a].queries # <<>>
    /\ admin' = [admin EXCEPT ![a] =
           IF \E t \in DOMAIN rows : Matches(t, Head(admin[a].queries)) THEN NoOp
           ELSE [admin[a] EXCEPT !.queries = Tail(admin[a].queries)]]
    /\ UNCHANGED <<tables, managerVars, used, ops, history>>

\* The unique index on the path column holds across pools.
PathFree(t, fields) ==
    "path" \in DOMAIN fields =>
        \A u \in DOMAIN rows \ {t} : rows[u].path # fields.path

ToPublish(a) ==
    admin' = [admin EXCEPT ![a] =
        [at |-> "publish", id |-> admin[a].id, notes |-> admin[a].notes]]

\* The row with the fields of an update written over it.
Updated(row, fields) ==
    [c \in DOMAIN row |-> IF c \in DOMAIN fields THEN fields[c] ELSE row[c]]

\* An update of a row that was deleted meanwhile changes no row and succeeds.
UpdateRow(a) ==
    LET t == admin[a].id  fields == admin[a].fields IN
    /\ admin[a].at = "update"
    /\ admin[a].queries = <<>>
    /\ IF PathFree(t, fields) \/ t \notin DOMAIN rows
       THEN /\ rows' = [u \in DOMAIN rows |->
                           IF u = t THEN Updated(rows[u], fields) ELSE rows[u]]
            /\ ToPublish(a)
       ELSE /\ admin' = [admin EXCEPT ![a] = NoOp]
            /\ UNCHANGED rows
    /\ UNCHANGED <<ips, metas, managerVars, used, ops, history>>

\* When the row is refused the claim on the database stays.
CreateRow(a) ==
    LET t == admin[a].id  row == admin[a].fields IN
    /\ admin[a].at = "create"
    /\ IF PathFree(t, row)
       THEN /\ rows' = [u \in DOMAIN rows \cup {t} |->
                           IF u = t THEN row ELSE rows[u]]
            /\ ToPublish(a)
       ELSE /\ admin' = [admin EXCEPT ![a] = NoOp]
            /\ UNCHANGED rows
    /\ UNCHANGED <<ips, metas, managerVars, used, ops, history>>

DeleteRow(a) ==
    /\ admin[a].at = "delete"
    /\ rows' = [u \in DOMAIN rows \ {admin[a].id} |-> rows[u]]
    /\ ToPublish(a)
    /\ UNCHANGED <<ips, metas, managerVars, used, ops, history>>

CreateIp(a) ==
    /\ admin[a].at = "add_ip"
    /\ ips' = ips \cup {admin[a].id}
    /\ ToPublish(a)
    /\ UNCHANGED <<rows, metas, managerVars, used, ops, history>>

DeleteIp(a) ==
    /\ admin[a].at = "delete_ip"
    /\ ips' = ips \ {admin[a].id}
    /\ ToPublish(a)
    /\ UNCHANGED <<rows, metas, managerVars, used, ops, history>>

\* A server misses what is lost on the way to it, and what concerns an
\* inactive pool.  It may cross what it is told while another of its readers
\* still has to do with the tenancy.
PublishOp(a) ==
    LET t == admin[a].id  note == Head(admin[a].notes) IN
    /\ admin[a].at = "publish"
    /\ \E lost \in SUBSET {s \in Server : Subscribed(s, note.pool)} :
          /\ lost # {} => faults < MaxFaults
          /\ faults' = IF lost = {} THEN faults ELSE faults + 1
          /\ Publish(note.pool, note.msg, lost)
          /\ missed' = [s \in Server |->
                 IF s \in lost \/ (Follows(s, note.pool) /\ note.pool \notin ActivePool)
                 THEN missed[s] \cup {t} ELSE missed[s]]
    /\ crossed' = [s \in Server |->
           IF /\ Subscribed(s, note.pool)
              /\ \E p \in Pool \ {note.pool} : Works(s, p, t)
           THEN crossed[s] \cup {t} ELSE crossed[s]]
    /\ admin' = [admin EXCEPT ![a] =
           IF Len(admin[a].notes) = 1 THEN NoOp
           ELSE [at |-> "publish", id |-> t, notes |-> Tail(admin[a].notes)]]
    /\ UNCHANGED <<tables, stage, todo, loader, indexes, starts, failed,
                   used, ops, overlapped, byName>>

-----------------------------------------------------------------------------
(* Specification.                                                          *)

\* Distinct tenancies of a pool share no path, whether path or shadow path,
\* but for the excepted ones.
PathsApart(table, excepted) ==
    \A t, u \in DOMAIN table \ excepted :
        t # u /\ table[t].pool = table[u].pool
        => {table[t].path, table[t].shadow}
           \cap {table[u].path, table[u].shadow} = {}

\* New tenancies are active.  Attributes are interchangeable, so one stands
\* for all those a tenancy may be created with.
NewRow == [pool: Pool, path: Path, shadow: Path, active: {TRUE},
           db: Database, attr: {CHOOSE v \in Attr : TRUE}]

Init ==
    /\ rows \in {table \in [Existing -> NewRow] :
           /\ PathsApart(table, {})
           /\ \A t, u \in Existing :
                 t # u => table[t].path # table[u].path
                          /\ table[t].db # table[u].db}
    /\ ips = {}
    /\ metas = [d \in Database |-> {t \in Existing : rows[t].db = d}]
    /\ ManagerInit
    /\ admin = [a \in Admin |-> NoOp]
    /\ used = Existing
    /\ ops = 0
    /\ overlapped = {}
    /\ byName = {}
    /\ missed = [s \in Server |-> {}]
    /\ crossed = [s \in Server |-> {}]

Operation(a, t) ==
    \/ \E p \in Path : SetPath(a, t, p) \/ SetShadowPath(a, t, p)
    \/ \E v \in Attr : \/ SetRole(a, t, v)
                       \/ SetCustomer(a, t, v)
                       \/ SetPathBlocked(a, t, v)
                       \/ SetDbRole(a, t, v)
    \/ \E p \in Pool, d \in Database : ChangePoolOrDb(a, t, p, d)
    \/ Activate(a, t)
    \/ Deactivate(a, t)
    \/ Delete(a, t)
    \/ AddIpAddress(a, t)
    \/ DeleteIpAddress(a, t)

AdminStep(a) ==
    \/ \E t \in Tenancy : Operation(a, t)
    \/ \E row \in NewRow, by \in {"id", "name"} : Add(a, row, by)
    \/ RunQuery(a)
    \/ ReadMetas(a)
    \/ ClaimDatabase(a)
    \/ UpdateRow(a)
    \/ CreateRow(a)
    \/ DeleteRow(a)
    \/ CreateIp(a)
    \/ DeleteIp(a)
    \/ PublishOp(a)

\* A server that starts reads everything anew, and may cross what is under way.
Start(s) ==
    /\ Subscribe(s)
    /\ crossed' = [crossed EXCEPT ![s] = {t \in Tenancy : About(t) # {}}]
    /\ UNCHANGED <<overlapped, byName, missed>>

Stop(s) ==
    /\ Close(s) \/ BootFails(s)
    /\ missed' = [missed EXCEPT ![s] = {}]
    /\ crossed' = [crossed EXCEPT ![s] = {}]
    /\ UNCHANGED <<overlapped, byName>>

Run(s) ==
    /\ \/ ListTenancies(s)
       \/ LoadNext(s)
       \/ InitDone(s)
       \/ \E l \in Loader : LoaderStep(s, l)
       \/ \E p \in Pool : LoadFails(s, p) \/ Handle(s, p)
    /\ UNCHANGED history

ServerStep(s) == Start(s) \/ Stop(s) \/ Run(s)

Next ==
    \/ \E a \in Admin : AdminStep(a)
    \/ \E s \in Server : ServerStep(s) /\ UNCHANGED <<tables, adminVars>>

Spec == Init /\ [][Next]_vars

-----------------------------------------------------------------------------
(* Properties.                                                             *)

\* An object found by path or by shadow path is the very object cached under
\* its id, stored under its own path: UnloadTenancy leaves nothing behind, so
\* a renamed, moved or deleted tenancy is not served under its old path.
\* The exception is a tenancy that two goroutines of the server may load at
\* the same time (crossed): the load between unlocking and locking again is
\* not protected, so the later store leaves the paths of the earlier one.
NoDanglingPath ==
    \A s \in Server : stage[s] # "down" =>
        \A p \in Path :
            /\ LET object == tenanciesByPath[s][p] IN
               object # None /\ object.id \notin crossed[s]
               => object.row.path = p /\ tenanciesById[s][object.id] = object
            /\ LET object == tenanciesByShadowPath[s][p] IN
               object # None /\ object.id \notin crossed[s]
               => object.row.shadow = p /\ tenanciesById[s][object.id] = object

\* Nothing that could still change the cache of s is in progress.
Settled(s) ==
    /\ stage[s] = "up"
    /\ \A a \in Admin : admin[a] = NoOp
    /\ \A p \in Pool : channel[s][p] = <<>>
    /\ \A l \in Loader : loader[s][l] = Idle

\* Once the notifications are handled, a server holds exactly the tenancies
\* of its pools, as they are in the database: no change of a controller is
\* missed and no tenancy that moved away or was deleted stays.  The exceptions
\* are a tenancy whose last load failed (failed); one of which a notification
\* was lost, went to an inactive pool or may be out of order because two
\* administrators worked on it at once (missed); and one that two goroutines
\* of the server may load at the same time, one from older data (crossed).
CacheConverges ==
    \A s \in Server : Settled(s) =>
        \A t \in Tenancy \ (failed[s] \cup missed[s] \cup crossed[s]) :
            tenanciesById[s][t] =
                IF t \in DOMAIN rows /\ rows[t].pool \in Subs[s]
                THEN [id |-> t, row |-> rows[t]] ELSE None

\* Two tenancies have nothing in common that a request is told apart by: no
\* two of a pool can be addressed by the same path, which the duplicate checks
\* of Add, SetPath, SetShadowPath and ChangePoolOrDb are for, and the owner
\* recorded in a database is the only tenancy that any server has connected
\* to it and serves as active (tenancy_manager.go:403-433, 547-567).  The
\* exceptions are the tenancies of operations that were between check and
\* write at the same time (overlapped) and, for the paths, those added with
\* the name of their pool, for which the checks search no row (byName).
TenanciesApart ==
    /\ PathsApart(rows, overlapped \cup byName)
    /\ \A s \in Server, t \in Tenancy :
          LET object == tenanciesById[s][t] IN
          object # None /\ Connected(object) =>
             /\ t \in metas[object.row.db]
             /\ t \notin overlapped => metas[object.row.db] \subseteq {t} \cup overlapped
=============================================================================
