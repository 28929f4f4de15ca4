----------------------------- MODULE TenancyApi -----------------------------
(***************************************************************************)
(* The REST API of the tenancy controller (tenancy_api/tenancy_client and  *)
(* tenancy_api/tenancy_service) and the commands of tenancy_console.       *)
(***************************************************************************)
EXTENDS Resources

TenancyController ==
    [Add |-> Signature({}, {"data"}), List |-> Signature({}, {"filter"}), Exists |-> Signature({}, {"fields"}),
     Find |-> Signature({"tenancy"}, {}), Delete |-> Signature({"tenancy"}, {"with_database"}),
     Activate |-> Signature({"tenancy"}, {}), Deactivate |-> Signature({"tenancy"}, {}),
     SetPath |-> Signature({"tenancy"}, {"path"}), SetShadowPath |-> Signature({"tenancy"}, {"shadow_path"}),
     SetRole |-> Signature({"tenancy"}, {"role"}), SetCustomer |-> Signature({"tenancy"}, {"customer_id"}),
     ChangePoolOrDb |-> Signature({"tenancy"}, {"pool_id", "dbname"}),
     AddIpAddress |-> Signature({"tenancy"}, {"ip", "tag"}),
     DeleteIpAddress |-> Signature({"tenancy"}, {"ip", "tag"}),
     ListIpAddresses |-> Signature({}, {"filter"}), SetDbRole |-> Signature({"tenancy"}, {"role"}),
     SetPathBlocked |-> Signature({"tenancy"}, {"block", "mode"})]

TenanciesResource   == PrepareCollectionAndNameResource("tenancy", "tenancies").collection
TenancyResource     == PrepareCollectionAndNameResource("tenancy", "tenancies").object
IpAddressesResource == AddChild(NewResource("tenancies"), NewResource("ip-address"))
ExistsResource      == AddChild(TenanciesResource, NewResource("exists"))

\* OperationAsResource, and the resource of a TenancyUpdateEndpoint.
OperationResource(name) == AddChild(TenancyResource, NewResource(name))

----------------------------------------------------------------------------
(* tenancy_client *)

AddTenancy      == Method("Add", TenanciesResource, {"data"})
ListTenancies   == Method("List", TenanciesResource, {"filter"})
TenancyExists   == Method("Exists", ExistsResource, {"fields"})
FindTenancy     == ListedMethod("Find", TenancyResource)
DeleteTenancy   == Method("Delete", TenancyResource, {"with_database"})
SetActive(active) == [Method("Update", OperationResource("active"), {}) EXCEPT !.body = active]
SetPath         == Method("Update", OperationResource("path"), {"path"})
SetShadowPath   == Method("Update", OperationResource("shadow-path"), {"shadow_path"})
SetRole         == Method("Update", OperationResource("role"), {"role"})
SetCustomer     == Method("Update", OperationResource("customer"), {"customer_id"})
ChangePoolOrDb  == Method("UpdatePartial", OperationResource("pool-db"), {"pool_id", "dbname"})
AddIpAddress    == Method("Add", OperationResource("ip-address"), {"ip", "tag"})
DeleteIpAddress == Method("Update", OperationResource("ip-address"), {"ip", "tag"})
ListIpAddresses == Method("List", IpAddressesResource, {"filter"})
SetDbRole       == Method("Update", OperationResource("db_role"), {"role"})
SetPathBlocked  == Method("UpdatePartial", OperationResource("block-path"), {"block", "mode"})

TenancyClient ==
    [Add |-> AddTenancy, List |-> ListTenancies, Exists |-> TenancyExists, Find |-> FindTenancy,
     Delete |-> DeleteTenancy, Activate |-> SetActive({"active"}), Deactivate |-> SetActive({}),
     SetPath |-> SetPath, SetShadowPath |-> SetShadowPath, SetRole |-> SetRole,
     SetCustomer |-> SetCustomer, ChangePoolOrDb |-> ChangePoolOrDb, AddIpAddress |-> AddIpAddress,
     DeleteIpAddress |-> DeleteIpAddress, ListIpAddresses |-> ListIpAddresses, SetDbRole |-> SetDbRole,
     SetPathBlocked |-> SetPathBlocked]

----------------------------------------------------------------------------
(* tenancy_service *)

AddEndpoint(r)             == Invoke("Add", r, {}, {"data"})
ListEndpoint(r)            == Invoke("List", r, {}, {"filter"})
ExistsEndpoint(r)          == Invoke("Exists", r, {}, {"fields"})
FindEndpoint(r)            == Invoke("Find", r, {"tenancy"}, {})
DeleteEndpoint(r)          == Invoke("Delete", r, {"tenancy"}, {"with_database"})
SetActiveEndpoint(r) ==
    Invoke(IF "active" \in DOMAIN r.body THEN "Activate" ELSE "Deactivate", r, {"tenancy"}, {})
SetPathEndpoint(r)         == Invoke("SetPath", r, {"tenancy"}, {"path"})
SetShadowPathEndpoint(r)   == Invoke("SetShadowPath", r, {"tenancy"}, {"shadow_path"})
SetRoleEndpoint(r)         == Invoke("SetRole", r, {"tenancy"}, {"role"})
SetCustomerEndpoint(r)     == Invoke("SetCustomer", r, {"tenancy"}, {"customer_id"})
ChangePoolOrDbEndpoint(r)  == Invoke("ChangePoolOrDb", r, {"tenancy"}, {"pool_id", "dbname"})
AddIpAddressEndpoint(r)    == Invoke("AddIpAddress", r, {"tenancy"}, {"ip", "tag"})
DeleteIpAddressEndpoint(r) == Invoke("DeleteIpAddress", r, {"tenancy"}, {"ip", "tag"})
ListIpAddressesEndpoint(r) == Invoke("ListIpAddresses", r, {}, {"filter"})
SetDbRoleEndpoint(r)       == Invoke("SetDbRole", r, {"tenancy"}, {"role"})
SetPathBlockedEndpoint(r)  == Invoke("SetPathBlocked", r, {"tenancy"}, {"block", "mode"})

\* NewTenancyService: every endpoint but SetDbRole is added to the service.
TenancyService(r) ==
    {Route("Add", TenanciesResource, AddEndpoint(r)),
     Route("List", TenanciesResource, ListEndpoint(r)),
     Route("Exists", ExistsResource, ExistsEndpoint(r)),
     Route("Find", TenancyResource, FindEndpoint(r)),
     Route("Delete", TenancyResource, DeleteEndpoint(r)),
     Route("Update", OperationResource("active"), SetActiveEndpoint(r)),
     Route("Update", OperationResource("path"), SetPathEndpoint(r)),
     Route("Update", OperationResource("shadow-path"), SetShadowPathEndpoint(r)),
     Route("Update", OperationResource("role"), SetRoleEndpoint(r)),
     Route("Update", OperationResource("customer"), SetCustomerEndpoint(r)),
     Route("UpdatePartial", OperationResource("pool-db"), ChangePoolOrDbEndpoint(r)),
     Route("Add", OperationResource("ip-address"), AddIpAddressEndpoint(r)),
     Route("Update", OperationResource("ip-address"), DeleteIpAddressEndpoint(r)),
     Route("UpdatePartial", OperationResource("block-path"), SetPathBlockedEndpoint(r)),
     Route("List", IpAddressesResource, ListIpAddressesEndpoint(r))}
=============================================================================
