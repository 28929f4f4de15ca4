----------------------------- MODULE RemoteApi -----------------------------
(***************************************************************************)
(* Callers that share one client of a controller's REST API, the server    *)
(* that serves it, and the console commands that call the controller of    *)
(* the same interface locally.  A client method looks up the names it was  *)
(* given, builds the resource of its request from a prototype that the     *)
(* whole client shares, and sends the request; the server routes it to an  *)
(* endpoint, which calls the controller.                                   *)
(*                                                                         *)
(* CloneChain copies the configuration of the prototype, and with it the   *)
(* pointer to the id: the clone's SetId writes the id of the prototype,    *)
(* and RebuildPaths reads it back, with no lock in between.                *)
(***************************************************************************)
EXTENDS PoolApi, TenancyApi, UserApi, AdminConsole

CONSTANTS
    Apis,         \* of {"pools", "tenancies", "users", "customers"}
    Callers,      \* goroutines that share the client
    Interferers   \* callers that only find objects by id: they meet the others at the prototype

ASSUME CallersAssumption == Interferers \subseteq Callers /\ IsFiniteSet(Callers)

VARIABLES
    api,        \* the API of this behaviour
    wrapper,    \* type -> the id in the prototype's ResourceId
    pc, call,   \* caller -> its place in the call, the call it asked for
    ids,        \* caller -> type -> the id it looked up
    seen,       \* caller -> the id that CloneChain read
    path,       \* caller -> the path of its request
    served,     \* caller -> what the controller was asked, or how the call ended without it
    overlapped  \* caller -> another caller was building a resource of the same type meanwhile

vars == <<api, wrapper, pc, call, ids, seen, path, served, overlapped>>

Controller ==
    [pools |-> PoolController, tenancies |-> TenancyController, users |-> UserController("user", {"tenancy"}),
     customers |-> CustomerController]
Client ==
    [pools |-> PoolClient, tenancies |-> TenancyClient,
     users |-> UserClient(UserCollection("user", "users", {"tenancy"}), UserResource("user", "users", {"tenancy"})),
     customers |-> CustomerClient(UserCollection("customer", "customers", {}), UserResource("customer", "customers", {}))]
Service(r) ==
    CASE api = "pools"     -> PoolService(r)
      [] api = "tenancies" -> TenancyService(r)
      [] api = "users"     -> UserService(r, "user", "users", {"tenancy"})
      [] api = "customers" -> CustomerService(r)
Types == {"pool", "service", "tenancy", "user", "customer"}
Kinds == [pools |-> {"pool", "service"}, tenancies |-> {"tenancy"}, users |-> {"user"}, customers |-> {"customer"}]

\* The objects of the database: two of every kind, by name.
Directory(kind) ==
    IF kind = "tenancy" THEN (<<"customer", "role1">> :> "id1") @@ (<<"customer", "role2">> :> "id2")
                        ELSE ("name1" :> "id1") @@ ("name2" :> "id2")
Ids == {"id1", "id2"}
UnknownName(kind) == IF kind = "tenancy" THEN <<"customer", "none">> ELSE "none"
ById(id) == [byName |-> FALSE, key |-> id]
ByName(name) == [byName |-> TRUE, key |-> name]
Targets(kind) == {ById(id) : id \in Ids} \union {ByName(n) : n \in DOMAIN Directory(kind) \union {UnknownName(kind)}}

ArgValues(name) == IF name = "blocked" THEN {"true", "false"} ELSE {name}
Args(names) == {f \in [names -> UNION {ArgValues(n) : n \in names}] : \A n \in names : f[n] \in ArgValues(n)}

NoCall == [via |-> "none", op |-> "none", target |-> <<>>, args |-> <<>>]
NoReply == [op |-> "none", args |-> <<>>]

\* The object that a target means to the look-up, or nothing.
LookUp(kind, target) ==
    IF ~target.byName THEN {target.key}
    ELSE IF target.key \in DOMAIN Directory(kind) THEN {Directory(kind)[target.key]} ELSE {}

----------------------------------------------------------------------------
Init ==
    /\ api \in Apis
    /\ wrapper = [t \in Types |-> ""]
    /\ pc = [c \in Callers |-> "idle"]
    /\ call = [c \in Callers |-> NoCall]
    /\ ids = [c \in Callers |-> <<>>]
    /\ seen = [c \in Callers |-> ""]
    /\ path = [c \in Callers |-> <<>>]
    /\ served = [c \in Callers |-> NoReply]
    /\ overlapped = [c \in Callers |-> FALSE]

MethodOf(c) == Client[api][call[c].op]
\* The type of the prototype that the method clones; the other parameters of its path are set
\* on resources of its own.
SharedTypes(c) == IdTypes(MethodOf(c).resource) \intersect Kinds[api]
Goto(c, place) == pc' = [pc EXCEPT ![c] = place]
Reply(c, reply) == served' = [served EXCEPT ![c] = reply] /\ Goto(c, "done")

\* A caller calls a method of the client.
CallClient(c) ==
    /\ pc[c] = "idle"
    /\ \E op \in DOMAIN Controller[api] :
         LET signature == Controller[api][op]
         IN \E target \in [signature.targets -> UNION {Targets(k) : k \in signature.targets}],
               args \in Args(signature.args) :
              /\ \A k \in signature.targets : target[k] \in Targets(k)
              /\ \A k, l \in signature.targets : target[k].byName = target[l].byName
              /\ c \in Interferers => Client[api][op].listed /\ \A k \in signature.targets : ~target[k].byName
              /\ call' = [call EXCEPT ![c] = [via |-> "client", op |-> op, target |-> target, args |-> args]]
    /\ Goto(c, "resolve")
    /\ UNCHANGED <<api, wrapper, ids, seen, path, served, overlapped>>

\* poolId, serviceId, TenancyId, GetUserId: a name costs a list request; an unknown one ends
\* the call.  A method that only reads the object returns what the list gave.
ResolveIds(c) ==
    /\ pc[c] = "resolve"
    /\ LET targets == call[c].target
           unknown == {k \in DOMAIN targets : LookUp(k, targets[k]) = {}}
           found == [k \in DOMAIN targets \ unknown |-> CHOOSE id \in LookUp(k, targets[k]) : TRUE]
       IN IF unknown # {} THEN Reply(c, NotFound) /\ UNCHANGED ids
          ELSE /\ ids' = [ids EXCEPT ![c] = found]
               /\ IF MethodOf(c).listed /\ \E k \in DOMAIN targets : targets[k].byName
                  THEN Reply(c, [op |-> call[c].op, args |-> found @@ call[c].args])
                  ELSE UNCHANGED served /\ Goto(c, IF SharedTypes(c) = {} THEN "send" ELSE "clone")
    /\ UNCHANGED <<api, wrapper, call, seen, path, overlapped>>

Building(c) == pc[c] \in {"restore", "set", "rebuild"}

\* CloneChain reads the id of the prototype...
CloneChain(c) ==
    /\ pc[c] = "clone"
    /\ \E t \in SharedTypes(c) :
         LET others == {d \in Callers \ {c} : Building(d) /\ t \in SharedTypes(d)}
         IN /\ seen' = [seen EXCEPT ![c] = wrapper[t]]
            /\ overlapped' = [d \in Callers |-> overlapped[d] \/ (others # {} /\ d \in others \union {c})]
    /\ Goto(c, "restore")
    /\ UNCHANGED <<api, wrapper, call, ids, path, served>>

\* ...and sets it on the clone, which is the prototype's own.
RestoreId(c) ==
    /\ pc[c] = "restore"
    /\ \E t \in SharedTypes(c) : wrapper' = [wrapper EXCEPT ![t] = seen[c]]
    /\ Goto(c, "set")
    /\ UNCHANGED <<api, call, ids, seen, path, served, overlapped>>

\* SetId: the value first.
SetId(c) ==
    /\ pc[c] = "set"
    /\ \E t \in SharedTypes(c) : wrapper' = [wrapper EXCEPT ![t] = ids[c][t]]
    /\ Goto(c, "rebuild")
    /\ UNCHANGED <<api, call, ids, seen, path, served, overlapped>>

\* SetId: then the paths, from the value that is there now.
RebuildPathsNever(c) ==
    /\ pc[c] = "rebuild"
    /\ path' = [path EXCEPT ![c] = ActualPath(MethodOf(c).resource, [t \in SharedTypes(c) |-> seen[c]] @@ call[c].args)]
    /\ Goto(c, "send")
    /\ UNCHANGED <<api, wrapper, call, ids, seen, served, overlapped>>
RebuildSharedPaths(c) ==
    /\ pc[c] = "rebuild"
    /\ LET built == ActualPath(MethodOf(c).resource, [t \in SharedTypes(c) |-> wrapper[t]] @@ call[c].args)
       IN path' = [d \in Callers |-> IF d = c \/ pc[d] = "send" THEN built ELSE path[d]]
    /\ Goto(c, "send")
    /\ UNCHANGED <<api, wrapper, call, ids, seen, served, overlapped>>
RebuildPaths(c) ==
    /\ pc[c] = "rebuild"
    /\ path' = [path EXCEPT ![c] = ActualPath(MethodOf(c).resource, [t \in SharedTypes(c) |-> wrapper[t]] @@ call[c].args)]
    /\ Goto(c, "send")
    /\ UNCHANGED <<api, wrapper, call, ids, seen, served, overlapped>>

\* The request: the router picks the endpoint, whose handler calls the controller.
Dispatch(verb, sentPath, body) ==
    LET blank   == [ids |-> <<>>, body |-> <<>>]
        requestPath == Redirected(sentPath)
        routes  == {r \in Service(blank) : r.verb = verb /\ Matches(r.resource, requestPath)}
        best    == {r \in routes : \A s \in routes : Literals(s.resource) <= Literals(r.resource)}
        route   == CHOOSE r \in best : TRUE
        request == [ids |-> ResourceIds(route.resource, requestPath), body |-> body]
    IN IF routes = {} THEN NotFound
       ELSE (CHOOSE r \in Service(request) : r.verb = verb /\ r.resource = route.resource).call

Send(c) ==
    /\ pc[c] = "send"
    /\ LET method == MethodOf(c)
           requestPath == IF SharedTypes(c) = {} THEN ActualPath(method.resource, call[c].args) ELSE path[c]
       IN Reply(c, Dispatch(method.verb, requestPath, Message(ids[c] @@ call[c].args, method.body)))
    /\ UNCHANGED <<api, wrapper, call, ids, seen, path, overlapped>>

----------------------------------------------------------------------------
(* The consoles. *)

Commands(o) ==
    CASE api = "tenancies" -> TenancyCommands(o)
      [] api = "users"     -> UserCommands(o)
      [] api = "customers" -> CustomerCommands(o)

\* What the description of a command says it does, and the option that carries an argument.
UserMeaning ==
    [add |-> "Add", password |-> "SetPassword", phone |-> "SetPhone", email |-> "SetEmail", block |-> "SetBlocked",
     unblock |-> "SetBlocked", list |-> "FindUsers", show |-> "Find"]
Meaning ==
    [tenancies |-> [add |-> "Add", show |-> "Find", list |-> "List", activate |-> "Activate",
                    deactivate |-> "Deactivate", customer |-> "SetCustomer", role |-> "SetRole", path |-> "SetPath",
                    shadow_path |-> "SetShadowPath", pool_db |-> "ChangePoolOrDb", delete |-> "Delete",
                    ip_add |-> "AddIpAddress", ip_delete |-> "DeleteIpAddress", ip_list |-> "ListIpAddresses",
                    db_role |-> "SetDbRole", block_path |-> "SetPathBlocked"],
     users |-> UserMeaning,
     customers |-> UserMeaning @@ [name |-> "SetName", description |-> "SetDescription"]]
OptionOf(command, arg) ==
    CASE command = "role" -> "new_role" [] command = "db_role" -> "db_role"
      [] command = "customer" -> "target_customer" [] OTHER -> arg

\* Without a password and a phone for customers; block and unblock carry their own value.
AskedArgs(command, op) ==
    (Controller[api][op].args \ {"tenancy"})
    \ (IF api = "customers" /\ command = "add" THEN {"password", "phone"} ELSE {})

SelectorOptions(kind, target) ==
    IF kind # "tenancy" THEN "login" :> target.key
    ELSE IF target.byName THEN [customer |-> target.key[1], role |-> target.key[2]] ELSE "id" :> target.key

\* A command is typed with the options its description asks for; a confirmation is answered YES.
RunCommand(c) ==
    /\ pc[c] = "idle" /\ c \notin Interferers
    /\ api # "pools"
    /\ \E command \in DOMAIN Meaning[api], kind \in Kinds[api] :
         LET op == Meaning[api][command]
         IN \E target \in Targets(kind), args \in Args(AskedArgs(command, op)) :
              LET selector == IF Controller[api][op].targets = {} THEN <<>> ELSE SelectorOptions(kind, target)
                  options  == [n \in {OptionOf(command, a) : a \in DOMAIN args} |->
                                  args[CHOOSE a \in DOMAIN args : OptionOf(command, a) = n]]
                  result   == Commands(selector @@ options @@ [answer |-> "YES"])[command]
                  found    == IF result.target.key = "" THEN {""} ELSE LookUp(kind, result.target)
                  asked    == IF Controller[api][op].targets = {} THEN <<>> ELSE kind :> target
              IN /\ kind # "tenancy" => target.byName
                 /\ Controller[api][op].targets = {} => target = CHOOSE t \in Targets(kind) : t.byName
                 /\ command = "block" => args["blocked"] = "true"
                 /\ command = "unblock" => args["blocked"] = "false"
                 /\ call' = [call EXCEPT ![c] = [via |-> "console", op |-> op, target |-> asked, args |-> args]]
                 /\ Reply(c, IF result.op = "cancelled" THEN [op |-> "cancelled", args |-> <<>>]
                             ELSE IF found = {} THEN NotFound
                             ELSE [op |-> result.op,
                                   args |-> (IF found = {""} THEN <<>> ELSE kind :> CHOOSE id \in found : TRUE)
                                            @@ result.args])
    /\ UNCHANGED <<api, wrapper, ids, seen, path, overlapped>>

\* The caller is ready for its next call.
Finish(c) ==
    /\ pc[c] = "done"
    /\ call' = [call EXCEPT ![c] = NoCall]
    /\ ids' = [ids EXCEPT ![c] = <<>>]
    /\ seen' = [seen EXCEPT ![c] = ""]
    /\ path' = [path EXCEPT ![c] = <<>>]
    /\ served' = [served EXCEPT ![c] = NoReply]
    /\ overlapped' = [overlapped EXCEPT ![c] = FALSE]
    /\ Goto(c, "idle")
    /\ UNCHANGED <<api, wrapper>>

Next ==
    \E c \in Callers :
        \/ CallClient(c) \/ ResolveIds(c) \/ CloneChain(c) \/ RestoreId(c) \/ SetId(c) \/ RebuildPaths(c)
        \/ Send(c) \/ RunCommand(c) \/ Finish(c)

Spec == Init /\ [][Next]_vars

----------------------------------------------------------------------------
\* The call that the interface means: its operation on the objects named.
Asked(c) == [k \in DOMAIN call[c].target |-> CHOOSE id \in LookUp(k, call[c].target[k]) : TRUE] @@ call[c].args

\* The operations that this code does not carry out as asked, as <<"client" or "console", API,
\* operation>>.
KnownGaps ==
    {<<"client", "tenancies", "SetDbRole">>, <<"client", "customers", "SetName">>,
     <<"client", "customers", "SetDescription">>, <<"console", "tenancies", "SetRole">>,
     <<"console", "tenancies", "Delete">>, <<"console", "tenancies", "AddIpAddress">>,
     <<"console", "tenancies", "DeleteIpAddress">>, <<"console", "users", "Find">>,
     <<"console", "customers", "Find">>}

(* Every call of the client and every command, through name look-up, path  *)
(* building, routing and endpoint, reaches the controller as the same      *)
(* operation on the same objects with the same arguments, or ends with     *)
(* not_found when a name is unknown - unless two callers were building a   *)
(* resource of the same type at once.                                      *)
ServedAsAsked ==
    \A c \in Callers :
        (pc[c] = "done" /\ ~overlapped[c] /\ <<call[c].via, api, call[c].op>> \notin KnownGaps) =>
            IF \E k \in DOMAIN call[c].target : LookUp(k, call[c].target[k]) = {}
            THEN served[c] = NotFound
            ELSE /\ served[c].op = call[c].op
                 /\ \A n \in DOMAIN Asked(c) : n \in DOMAIN served[c].args /\ served[c].args[n] = Asked(c)[n]

(* A call that met another one never changes what it does, only to which   *)
(* object: the operation and the other arguments still arrive.  The one    *)
(* exception is a prototype that had no id yet when the calls met: its     *)
(* path ends in an empty segment, and the request is redirected to the     *)
(* collection or not found.  Even then it modifies nothing it did not      *)
(* mean to: only a GET is answered by another operation                    *)
(* (pkg/api/resource.go:176-216, rest_api_client.go:80-82).                *)
RaceKeepsOperation ==
    \A c \in Callers :
        (pc[c] = "done" /\ overlapped[c] /\ <<call[c].via, api, call[c].op>> \notin KnownGaps) =>
            \/ /\ served[c].op = call[c].op
               /\ \A n \in DOMAIN call[c].args : served[c].args[n] = call[c].args[n]
            \/ /\ path[c][Len(path[c])] = ""
               /\ served[c] = NotFound \/ MethodOf(c).verb = "GET"
=============================================================================
