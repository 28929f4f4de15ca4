---------------------------- MODULE AdminConsole ----------------------------
(***************************************************************************)
(* The console commands for tenancies, users (administrators) and          *)
(* customers: what each handler's Execute asks of the local controller     *)
(* for the options o it was given.  An option that was not given is "".    *)
(* The comment names the option struct the handler parses (its Data).      *)
(***************************************************************************)
EXTENDS Resources

Option(o, n) == IF n \in DOMAIN o THEN o[n] ELSE ""
Options(o, names) == [n \in names |-> Option(o, n)]

\* A call of the controller: the object by its id or by its name.
Run(op, target, args) == [op |-> op, target |-> target, args |-> args]
Nothing == [byName |-> FALSE, key |-> ""]
Cancelled == Run("cancelled", Nothing, <<>>)

----------------------------------------------------------------------------
(* tenancy_console: a tenancy is selected by id, or by customer and role.  *)

PrepareId(id, customer, role) ==
    IF id # "" THEN [byName |-> FALSE, key |-> id] ELSE [byName |-> TRUE, key |-> <<customer, role>>]
Selected(o) == PrepareId(Option(o, "id"), Option(o, "customer"), Option(o, "role"))

ActivateCmd(o)       == Run("Activate", Selected(o), <<>>)
DeactivateCmd(o)     == Run("Deactivate", Selected(o), <<>>)
AddTenancyCmd(o)     == Run("Add", Nothing, Options(o, {"data"}))
ChangePoolOrDbCmd(o) == Run("ChangePoolOrDb", Selected(o), Options(o, {"pool_id", "dbname"}))
CustomerCmd(o)       == Run("SetCustomer", Selected(o), [customer_id |-> Option(o, "target_customer")])
DbRoleCmd(o)         == Run("SetDbRole", Selected(o), [role |-> Option(o, "db_role")])
FindTenancyCmd(o)    == Run("Find", Selected(o), <<>>)
ListTenanciesCmd(o)  == Run("List", Nothing, Options(o, {"filter"}))
ListIpAddressesCmd(o) == Run("ListIpAddresses", Nothing, Options(o, {"filter"}))
PathCmd(o)           == Run("SetPath", Selected(o), Options(o, {"path"}))
SetPathBlockedCmd(o) == Run("SetPathBlocked", Selected(o), Options(o, {"block", "mode"}))
\* Role: the role is also taken for the customer.
RoleCmd(o) ==
    Run("SetRole", PrepareId(Option(o, "id"), Option(o, "role"), Option(o, "role")), [role |-> Option(o, "new_role")])
\* ShadowPath: the default from --path is computed and not used.
ShadowPathCmd(o) == Run("SetShadowPath", Selected(o), Options(o, {"shadow_path"}))
\* Delete: the answer is compared together with its newline.
ReadString == [YES |-> "YES\n", no |-> "no\n"]
DeleteTenancyCmd(o) ==
    IF ReadString[o.answer] = "YES" THEN Run("Delete", Selected(o), Options(o, {"with_database"})) ELSE Cancelled
\* The two handlers inherit Data of FindHandler: the options for the address are not parsed.
IpAddressCmd(op, o)   == Run(op, Selected(o), [ip |-> "", tag |-> ""])
AddIpAddressCmd(o)    == IpAddressCmd("AddIpAddress", o)
DeleteIpAddressCmd(o) == IpAddressCmd("DeleteIpAddress", o)

TenancyCommands(o) ==
    [add |-> AddTenancyCmd(o), show |-> FindTenancyCmd(o), list |-> ListTenanciesCmd(o),
     activate |-> ActivateCmd(o), deactivate |-> DeactivateCmd(o), customer |-> CustomerCmd(o),
     role |-> RoleCmd(o), path |-> PathCmd(o), shadow_path |-> ShadowPathCmd(o),
     pool_db |-> ChangePoolOrDbCmd(o), delete |-> DeleteTenancyCmd(o), ip_add |-> AddIpAddressCmd(o),
     ip_delete |-> DeleteIpAddressCmd(o), ip_list |-> ListIpAddressesCmd(o), db_role |-> DbRoleCmd(o),
     block_path |-> SetPathBlockedCmd(o)]

----------------------------------------------------------------------------
(* user_console and customer_console: a user is selected by login, which   *)
(* HandlerBase.Context validates first.                                    *)

ByLogin(o) == [byName |-> TRUE, key |-> Option(o, "login")]

AddWithPhoneCmd(o)  == Run("Add", Nothing, Options(o, {"login", "password", "phone"}))
AddNoPasswordCmd(o) == Run("Add", Nothing, [login |-> Option(o, "login"), password |-> "00000000"])
PasswordCmd(o)      == Run("SetPassword", ByLogin(o), Options(o, {"password"}))
PhoneCmd(o)         == Run("SetPhone", ByLogin(o), Options(o, {"phone"}))
EmailCmd(o)         == Run("SetEmail", ByLogin(o), Options(o, {"email"}))
BlockCmd(o)         == Run("SetBlocked", ByLogin(o), [blocked |-> "true"])
UnblockCmd(o)       == Run("SetBlocked", ByLogin(o), [blocked |-> "false"])
ListUsersCmd(o)     == Run("FindUsers", Nothing, Options(o, {"filter"}))
\* Show: the command is built with the handler of list.
ShowUserCmd(o)      == ListUsersCmd(o)
NameCmd(o)          == Run("SetName", ByLogin(o), Options(o, {"name"}))
DescriptionCmd(o)   == Run("SetDescription", ByLogin(o), Options(o, {"description"}))

UserCommands(o) ==
    [add |-> AddWithPhoneCmd(o), password |-> PasswordCmd(o), phone |-> PhoneCmd(o), email |-> EmailCmd(o),
     block |-> BlockCmd(o), unblock |-> UnblockCmd(o), list |-> ListUsersCmd(o), show |-> ShowUserCmd(o)]
CustomerCommands(o) ==
    [add |-> AddNoPasswordCmd(o), password |-> PasswordCmd(o), phone |-> PhoneCmd(o), email |-> EmailCmd(o),
     block |-> BlockCmd(o), unblock |-> UnblockCmd(o), list |-> ListUsersCmd(o), show |-> ShowUserCmd(o),
     name |-> NameCmd(o), description |-> DescriptionCmd(o)]
=============================================================================
