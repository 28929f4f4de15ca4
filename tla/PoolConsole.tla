----------------------------- MODULE PoolConsole -----------------------------
(***************************************************************************)
(* The console commands for pools (pkg/pool/pool_console): each handler    *)
(* turns its options into calls of the pool controller, always by names,   *)
(* and stops at the first call that returns an error.  What is printed is  *)
(* left out.                                                               *)
(***************************************************************************)
EXTENDS Pools

CONSTANTS Fields    \* the values UpdatePool and UpdateService may be given: records of fields

Call(op, target, service, role, fields) ==
    [op |-> op, target |-> target, byName |-> TRUE, service |-> service, role |-> role,
     fields |-> fields]
Simple(op, target) == Call(op, target, "", "", NoFilter)

\* validator.ValidateMap: only fields of the model, and the one for services has no name.
PoolBaseData == {"name", "active"}
PoolServiceBaseData == {"active"}
Validated(fields, model) == DOMAIN fields \subseteq model

AddPoolCmd(name)        == <<Simple("AddPool", name)>>
DeletePoolCmd(name)     == <<Simple("DeletePool", name)>>
ListPoolsCmd            == <<Simple("GetPools", "")>>
ShowPoolCmd(name)       == <<Simple("FindPool", name)>>
EnablePoolCmd(name)     == <<Call("UpdatePool", name, "", "", [active |-> TRUE])>>
DisablePoolCmd(name)    == <<Call("UpdatePool", name, "", "", [active |-> FALSE])>>
UpdatePoolCmd(name, fields) ==
    IF Validated(fields, PoolBaseData) THEN <<Call("UpdatePool", name, "", "", fields)>> ELSE <<>>

DeleteServiceCmd(name)  == <<Simple("DeleteService", name)>>
ListServicesCmd         == <<Simple("GetServices", "")>>
ShowServiceCmd(name)    == <<Simple("FindService", name)>>
EnableServiceCmd(name)  == <<Call("UpdateService", name, "", "", [active |-> TRUE])>>
DisableServiceCmd(name) == <<Call("UpdateService", name, "", "", [active |-> FALSE])>>
UpdateServiceCmd(name, fields) ==
    IF Validated(fields, PoolServiceBaseData)
    THEN <<Call("UpdateService", name, "", "", fields)>> ELSE <<>>

AddServiceToPoolCmd(pool, service, role) == <<Call("AddServiceToPool", pool, service, role, NoFilter)>>
RemoveServiceFromPoolCmd(pool, role)     == <<Call("RemoveServiceFromPool", pool, "", role, NoFilter)>>
RemoveAllServicesFromPoolCmd(pool)       == <<Simple("RemoveAllServicesFromPool", pool)>>
RemoveServiceFromAllPoolsCmd(service)    == <<Simple("RemoveServiceFromAllPools", service)>>
ListPoolServicesCmd(pool)                == <<Simple("GetPoolBindings", pool)>>
ListServicePoolsCmd(service)             == <<Simple("GetServiceBindings", service)>>

\* The service is added first; a pool without a role is an error only then.
AddServiceCmd(name, pool, role) ==
    <<Simple("AddService", name)>>
      \o (IF pool = "" THEN <<>>
          ELSE IF role = "" THEN <<Simple("RoleRequired", "")>>
          ELSE AddServiceToPoolCmd(pool, name, role))

\* LoadHandlers: all commands, with every option they take.
ConsoleCommands ==
    {ListPoolsCmd, ListServicesCmd}
    \union UNION {{AddPoolCmd(n), DeletePoolCmd(n), ShowPoolCmd(n), EnablePoolCmd(n), DisablePoolCmd(n),
                   DeleteServiceCmd(n), ShowServiceCmd(n), EnableServiceCmd(n), DisableServiceCmd(n),
                   RemoveAllServicesFromPoolCmd(n), RemoveServiceFromAllPoolsCmd(n),
                   ListPoolServicesCmd(n), ListServicePoolsCmd(n)} : n \in Names}
    \union {AddServiceCmd(n, p, r) : n \in Names, p \in Names \union {""}, r \in Roles \union {""}}
    \union {UpdatePoolCmd(n, f) : n \in Names, f \in Fields}
    \union {UpdateServiceCmd(n, f) : n \in Names, f \in Fields}
    \union {AddServiceToPoolCmd(p, s, r) : p \in Names, s \in Names, r \in Roles}
    \union {RemoveServiceFromPoolCmd(p, r) : p \in Names, r \in Roles}

\* AddService without a role for the pool that was given.
RoleRequired(a) == At(a, "RoleRequired", "start") /\ Reads /\ Return(a, "role_required")

ConsoleNext == PoolsNext \/ \E a \in Admins : RoleRequired(a)

ConsoleSpec == PoolsInit /\ [][ConsoleNext]_poolVars
=============================================================================
