--------------------------- MODULE TenancyManager ---------------------------
(***************************************************************************)
(* The tenancy cache of one or more server processes                        *)
(* (src/pkg/multitenancy/tenancy_manager/tenancy_manager.go).  Each server   *)
(* indexes the tenancies of its pools by id, by path and by shadow path.     *)
(* It subscribes to one notification channel per pool, loads every tenancy   *)
(* from the shared database at start, and then follows the notifications     *)
(* that the controllers publish after each change.                           *)
(*                                                                           *)
(* A tenancy object in an index is the database row as it was read, together *)
(* with its id.  Roles, customers, the role of the database service and the  *)
(* path blocks are one field, attr: the cache copies them and no property    *)
(* tells them apart.  Which pools are active is what the processes read when *)
(* they started.                                                             *)
(***************************************************************************)
EXTENDS Integers, Sequences, FiniteSets, Functions, TLC

CONSTANTS
    Tenancy,      \* tenancy ids; each is given to at most one tenancy
    Path,         \* paths and shadow paths
    Pool,         \* pools
    ActivePool,   \* the active ones: only these have a publisher, a subscriber
                  \* and databases that are connected to
    Database,     \* names of tenancy databases, on a server all pools share
    Attr,         \* the abstracted fields of a row
    Server,       \* server processes, each with one manager
    None,         \* no entry in an index
    Subs,         \* the pools a server follows: its own one, or all
    MaxStarts,    \* bound on the starts of all servers
    MaxFaults     \* bound on failed loads and notifications that are lost

ASSUME SubsAssumption == Subs \in [Server -> SUBSET Pool]
ASSUME PoolAssumption == ActivePool \subseteq Pool
ASSUME BoundsAssumption == MaxStarts \in Nat /\ MaxFaults \in Nat

Boot == "boot"

VARIABLES
    rows,         \* table tenancies: a function from the existing ids
    ips,          \* table of IP addresses: ids of the tenancies that have one
    metas,        \* owners recorded inside each tenancy database
    channel,      \* channel[s][p]: notifications of pool p not yet read by s
    stage,        \* stage[s]: where Init of the manager stands
    todo,         \* todo[s]: rows listed at start and not yet loaded
    loader,       \* loader[s][l]: the load in progress of a reader or of Init
    tenanciesById,
    tenanciesByPath,
    tenanciesByShadowPath,
    tenancyIpAddresses, \* paths under which the addresses are known
    starts, faults,     \* counters of the bounds
    failed        \* history: loads that failed and left the tenancy unloaded

tables == <<rows, ips, metas>>
indexes == <<tenanciesById, tenanciesByPath, tenanciesByShadowPath,
             tenancyIpAddresses>>
managerVars == <<channel, stage, todo, loader, indexes, starts, faults, failed>>

Row == [pool: Pool, path: Path, shadow: Path, active: BOOLEAN,
        db: Database, attr: Attr]
Object == [id: Tenancy, row: Row]
ASSUME NamesAssumption == None \notin Object /\ Boot \notin Pool /\ Attr # {}
Notification == [id: Tenancy, delete: BOOLEAN]

\* The readers of a server and its Init goroutine all load tenancies.
Loader == Pool \cup {Boot}
Idle == [at |-> "idle"]
LoaderState == {Idle} \cup [at: {"find"}, id: Tenancy]
                      \cup [at: {"init"}, tenancy: Object]
                      \cup [at: {"store"}, tenancy: Object, ip: BOOLEAN]

\* A server is told of a pool when it subscribed to it, which it can only do
\* for an active pool, and its process runs.
Follows(s, p) == stage[s] # "down" /\ p \in Subs[s]
Subscribed(s, p) == Follows(s, p) /\ p \in ActivePool

-----------------------------------------------------------------------------
(* Indexes.                                                                *)

EmptyIndexes(s) ==
    /\ tenanciesById' = [tenanciesById EXCEPT ![s] = [t \in Tenancy |-> None]]
    /\ tenanciesByPath' = [tenanciesByPath EXCEPT ![s] = [p \in Path |-> None]]
    /\ tenanciesByShadowPath' =
           [tenanciesByShadowPath EXCEPT ![s] = [p \in Path |-> None]]
    /\ tenancyIpAddresses' = [tenancyIpAddresses EXCEPT ![s] = {}]

\* Faulty variant: the shadow path stays in its index.
UnloadKeepsShadow(s, t) ==
    LET object == tenanciesById[s][t] IN
    IF object = None THEN UNCHANGED indexes ELSE
    /\ tenanciesById' = [tenanciesById EXCEPT ![s][t] = None]
    /\ tenanciesByPath' = [tenanciesByPath EXCEPT ![s][object.row.path] = None]
    /\ tenancyIpAddresses' = [tenancyIpAddresses EXCEPT
           ![s] = @ \ {object.row.path, object.row.shadow}]
    /\ UNCHANGED tenanciesByShadowPath

\* UnloadTenancy removes what the cached object was stored under, whoever
\* the entries belong to now.
UnloadTenancy(s, t) ==
    LET object == tenanciesById[s][t] IN
    IF object = None THEN UNCHANGED indexes ELSE
    /\ tenanciesById' = [tenanciesById EXCEPT ![s][t] = None]
    /\ tenanciesByPath' = [tenanciesByPath EXCEPT ![s][object.row.path] = None]
    /\ tenanciesByShadowPath' =
           [tenanciesByShadowPath EXCEPT ![s][object.row.shadow] = None]
    /\ tenancyIpAddresses' = [tenancyIpAddresses EXCEPT
           ![s] = @ \ {object.row.path, object.row.shadow}]

\* The locked part of LoadTenancyFromData.
KeepTenancy(s, object, ip) ==
    /\ tenanciesById' = [tenanciesById EXCEPT ![s][object.id] = object]
    /\ tenanciesByPath' = [tenanciesByPath EXCEPT ![s][object.row.path] = object]
    /\ tenanciesByShadowPath' =
           [tenanciesByShadowPath EXCEPT ![s][object.row.shadow] = object]
    /\ tenancyIpAddresses' = [tenancyIpAddresses EXCEPT
           ![s] = IF ip THEN @ \cup {object.row.path, object.row.shadow} ELSE @]

-----------------------------------------------------------------------------
(* Loading one tenancy: Find, Init of the tenancy, then the locked store.  *)

\* TenancyBase.Init: an active tenancy of an active pool is connected to its
\* database and must own it.  The others are kept without a database.
Connected(object) == object.row.active /\ object.row.pool \in ActivePool
InitTenancy(object) ==
    Connected(object) => object.id \in metas[object.row.db]

FindTenancy(s, l) ==
    LET t == loader[s][l].id IN
    /\ loader[s][l].at = "find"
    /\ t \in DOMAIN rows
    /\ loader' = [loader EXCEPT ![s][l] =
           [at |-> "init", tenancy |-> [id |-> t, row |-> rows[t]]]]
    /\ UNCHANGED <<channel, stage, todo, indexes, starts, faults, failed>>

\* A failure to list the addresses is noted and the tenancy is kept without.
HasAddress(t) == t \in ips \cap DOMAIN rows
InitLoaded(s, l) ==
    LET object == loader[s][l].tenancy IN
    /\ loader[s][l].at = "init"
    /\ InitTenancy(object)
    /\ \E ip \in {HasAddress(object.id), FALSE} :
          /\ faults' = IF ip = HasAddress(object.id) THEN faults ELSE faults + 1
          /\ faults' <= MaxFaults
          /\ loader' = [loader EXCEPT ![s][l] =
                 [at |-> "store", tenancy |-> object, ip |-> ip]]
    /\ UNCHANGED <<channel, stage, todo, indexes, starts, failed>>

StoreLoaded(s, l) ==
    LET object == loader[s][l].tenancy IN
    /\ loader[s][l].at = "store"
    /\ KeepTenancy(s, object, loader[s][l].ip)
    /\ loader' = [loader EXCEPT ![s][l] = Idle]
    /\ failed' = [failed EXCEPT ![s] = @ \ {object.id}]
    /\ UNCHANGED <<channel, stage, todo, starts, faults>>

\* The notification of a deleted tenancy other than OpDelete: Find reports
\* that there is no such tenancy and the handler returns the error.
FindMissing(s, l) ==
    /\ loader[s][l].at = "find"
    /\ loader[s][l].id \notin DOMAIN rows
    /\ loader' = [loader EXCEPT ![s][l] = Idle]
    /\ UNCHANGED <<channel, stage, todo, indexes, starts, faults, failed>>

\* Init of the tenancy fails, because the database is foreign or because
\* something it needs is not available; a failing Find ends the same way.
InitFails(s, l) ==
    /\ loader[s][l].at = "init"
    /\ \/ /\ ~InitTenancy(loader[s][l].tenancy)
          /\ UNCHANGED faults
       \/ /\ faults < MaxFaults
          /\ faults' = faults + 1

\* A reader drops the notification ...
LoadFails(s, p) ==
    /\ InitFails(s, p)
    /\ loader' = [loader EXCEPT ![s][p] = Idle]
    /\ failed' = [failed EXCEPT ![s] = @ \cup {loader[s][p].tenancy.id}]
    /\ UNCHANGED <<channel, stage, todo, indexes, starts>>

\* ... and at start the error is fatal: the process ends with all it has.
BootFails(s) ==
    /\ InitFails(s, Boot)
    /\ stage' = [stage EXCEPT ![s] = "down"]
    /\ EmptyIndexes(s)
    /\ channel' = [channel EXCEPT ![s] = [p \in Pool |-> <<>>]]
    /\ todo' = [todo EXCEPT ![s] = {}]
    /\ loader' = [loader EXCEPT ![s] = [l \in Loader |-> Idle]]
    /\ failed' = [failed EXCEPT ![s] = {}]
    /\ UNCHANGED starts

-----------------------------------------------------------------------------
(* Notifications.                                                          *)

\* TenancyNotificationHandler.Handle, in the reader goroutine of one pool:
\* unload, and load again unless the tenancy was deleted.
Handle(s, p) ==
    LET msg == Head(channel[s][p]) IN
    /\ loader[s][p] = Idle
    /\ channel[s][p] # <<>>
    /\ channel' = [channel EXCEPT ![s][p] = Tail(@)]
    /\ UnloadTenancy(s, msg.id)
    /\ loader' = [loader EXCEPT ![s][p] =
           IF msg.delete THEN Idle ELSE [at |-> "find", id |-> msg.id]]
    /\ failed' = [failed EXCEPT ![s] = @ \ {msg.id}]
    /\ UNCHANGED <<stage, todo, starts, faults>>

\* PublishPools, whose errors nobody looks at: the servers that subscribed to
\* the pool get the message, but for some that lose it.  A process with a self
\* pool has no publisher for another one and all lose it; a publisher may fail
\* or its connection be down; and the broker keeps nothing for a subscriber
\* that is disconnected.
Publish(p, msg, lost) ==
    channel' = [s \in Server |->
        IF Subscribed(s, p) /\ s \notin lost
        THEN [channel[s] EXCEPT ![p] = Append(@, msg)]
        ELSE channel[s]]

-----------------------------------------------------------------------------
(* Life cycle of a manager.                                                *)

\* A new process subscribes before it reads the database.
Subscribe(s) ==
    /\ stage[s] = "down"
    /\ starts < MaxStarts
    /\ starts' = starts + 1
    /\ stage' = [stage EXCEPT ![s] = "subscribed"]
    /\ EmptyIndexes(s)
    /\ loader' = [loader EXCEPT ![s] = [l \in Loader |-> Idle]]
    /\ failed' = [failed EXCEPT ![s] = {}]
    /\ UNCHANGED <<channel, todo, faults>>

\* LoadTenancies: the rows of the server's pools are listed in one query ...
ListTenancies(s) ==
    /\ stage[s] = "subscribed"
    /\ stage' = [stage EXCEPT ![s] = "loading"]
    /\ todo' = [todo EXCEPT ![s] =
           {[id |-> t, row |-> rows[t]] :
               t \in {u \in DOMAIN rows : rows[u].pool \in Subs[s]}}]
    /\ UNCHANGED <<channel, loader, indexes, starts, faults, failed>>

\* ... and loaded one after the other, from the rows as they were listed.
LoadNext(s) ==
    /\ stage[s] = "loading"
    /\ loader[s][Boot] = Idle
    /\ \E object \in todo[s] :
          /\ todo' = [todo EXCEPT ![s] = @ \ {object}]
          /\ loader' = [loader EXCEPT ![s][Boot] =
                           [at |-> "init", tenancy |-> object]]
    /\ UNCHANGED <<channel, stage, indexes, starts, faults, failed>>

InitDone(s) ==
    /\ stage[s] = "loading"
    /\ todo[s] = {}
    /\ loader[s][Boot] = Idle
    /\ stage' = [stage EXCEPT ![s] = "up"]
    /\ UNCHANGED <<channel, todo, loader, indexes, starts, faults, failed>>

\* Close empties the indexes and unsubscribes.  A load in progress goes on.
Close(s) ==
    /\ stage[s] = "up"
    /\ EmptyIndexes(s)
    /\ stage' = [stage EXCEPT ![s] = "down"]
    /\ channel' = [channel EXCEPT ![s] = [p \in Pool |-> <<>>]]
    /\ UNCHANGED <<todo, loader, starts, faults, failed>>

ManagerInit ==
    /\ channel = [s \in Server |-> [p \in Pool |-> <<>>]]
    /\ stage = [s \in Server |-> "down"]
    /\ todo = [s \in Server |-> {}]
    /\ loader = [s \in Server |-> [l \in Loader |-> Idle]]
    /\ tenanciesById = [s \in Server |-> [t \in Tenancy |-> None]]
    /\ tenanciesByPath = [s \in Server |-> [p \in Path |-> None]]
    /\ tenanciesByShadowPath = [s \in Server |-> [p \in Path |-> None]]
    /\ tenancyIpAddresses = [s \in Server |-> {}]
    /\ starts = 0
    /\ faults = 0
    /\ failed = [s \in Server |-> {}]

LoaderStep(s, l) ==
    \/ FindTenancy(s, l)
    \/ FindMissing(s, l)
    \/ InitLoaded(s, l)
    \/ StoreLoaded(s, l)

=============================================================================
