------------------------------- MODULE MCPools -------------------------------
(***************************************************************************)
(* Two administrators at their consoles, or calling by id as the endpoints *)
(* of the API do, and an application that starts meanwhile.                *)
(***************************************************************************)
EXTENDS PoolConsole, TLC

MCObjectIds == <<"o1", "o2", "o3", "o4", "o5", "o6", "o7", "o8">>

MCFields == {[name |-> n] : n \in Names} \union {[no_such_field |-> 1]}

\* The endpoints call the controller with ids.
ById(op, id, service, role, fields) ==
    <<[op |-> op, target |-> id, byName |-> FALSE, service |-> service, role |-> role,
       fields |-> fields]>>

\* Each administrator makes the changes and the reads once by name and, for the
\* first objects, by id; only the endpoint renames a service.
MCCommands ==
    (ConsoleCommands \ {<<>>})
      \union {ById("DeletePool", "o1", "", "", NoFilter), ById("DeleteService", "o2", "", "", NoFilter)}
      \union {ById("AddServiceToPool", "o1", "o2", r, NoFilter) : r \in Roles}
      \union {ById("UpdateService", "o2", "", "", [name |-> n]) : n \in Names}

AdminSymmetry == Permutations(Admins)
=============================================================================
