------------------------------ MODULE PoolApi ------------------------------
(***************************************************************************)
(* The REST API of the pool controller: pool_api/pool_client and           *)
(* pool_api/pool_service, one definition for each client method and each   *)
(* endpoint.                                                               *)
(***************************************************************************)
EXTENDS Resources

PoolController ==
    [AddPool |-> Signature({}, {"data"}), GetPools |-> Signature({}, {"filter"}),
     FindPool |-> Signature({"pool"}, {}), UpdatePool |-> Signature({"pool"}, {"fields"}),
     DeletePool |-> Signature({"pool"}, {}),
     AddService |-> Signature({}, {"data"}), GetServices |-> Signature({}, {"filter"}),
     FindService |-> Signature({"service"}, {}), UpdateService |-> Signature({"service"}, {"fields"}),
     DeleteService |-> Signature({"service"}, {}),
     AddServiceToPool |-> Signature({"pool", "service"}, {"role"}),
     RemoveServiceFromPool |-> Signature({"pool"}, {"role"}),
     RemoveAllServicesFromPool |-> Signature({"pool"}, {}),
     RemoveServiceFromAllPools |-> Signature({"service"}, {}),
     GetPoolBindings |-> Signature({"pool"}, {}), GetServiceBindings |-> Signature({"service"}, {})]

PoolsResource    == PrepareCollectionAndNameResource("pool", "pools").collection
PoolResource     == PrepareCollectionAndNameResource("pool", "pools").object
ServicesResource == AddChild(NewResource("pools"), NewResource("service"))
ServiceResource  == AddChild(NewResource("pools"), NamedResource("service"))
ResourceForPoolServices == AddChild(PoolResource, NewResource("service"))
ResourceForServicePools == AddChild(ServiceResource, NewResource("pool"))

----------------------------------------------------------------------------
(* pool_client *)

AddPool       == Method("Add", PoolsResource, {"data"})
GetPools      == Method("List", PoolsResource, {"filter"})
FindPool      == ListedMethod("Find", PoolResource)
UpdatePool    == Method("UpdatePartial", PoolResource, {"fields"})
DeletePool    == Method("Delete", PoolResource, {})
AddService    == Method("Add", ServicesResource, {"data"})
GetServices   == Method("List", ServicesResource, {"filter"})
FindService   == ListedMethod("Find", ServiceResource)
UpdateService == Method("UpdatePartial", ServiceResource, {"fields"})
DeleteService == Method("Delete", ServiceResource, {})
AddServiceToPool          == Method("Bind", ResourceForPoolServices, {"service", "role"})
RemoveServiceFromPool     == Method("Unbind", AddChild(ResourceForPoolServices, IdResource("role")), {})
RemoveAllServicesFromPool == Method("Unbind", ResourceForPoolServices, {})
RemoveServiceFromAllPools == Method("Unbind", ResourceForServicePools, {})
GetPoolBindings           == Method("List", ResourceForPoolServices, {})
GetServiceBindings        == Method("List", ResourceForServicePools, {})

PoolClient ==
    [AddPool |-> AddPool, GetPools |-> GetPools, FindPool |-> FindPool, UpdatePool |-> UpdatePool,
     DeletePool |-> DeletePool, AddService |-> AddService, GetServices |-> GetServices,
     FindService |-> FindService, UpdateService |-> UpdateService, DeleteService |-> DeleteService,
     AddServiceToPool |-> AddServiceToPool, RemoveServiceFromPool |-> RemoveServiceFromPool,
     RemoveAllServicesFromPool |-> RemoveAllServicesFromPool,
     RemoveServiceFromAllPools |-> RemoveServiceFromAllPools,
     GetPoolBindings |-> GetPoolBindings, GetServiceBindings |-> GetServiceBindings]

----------------------------------------------------------------------------
(* pool_service *)

AddPoolEndpoint(r)       == Invoke("AddPool", r, {}, {"data"})
ListPoolsEndpoint(r)     == Invoke("GetPools", r, {}, {"filter"})
FindPoolEndpoint(r)      == Invoke("FindPool", r, {"pool"}, {})
UpdatePoolEndpoint(r)    == Invoke("UpdatePool", r, {"pool"}, {"fields"})
DeletePoolEndpoint(r)    == Invoke("DeletePool", r, {"pool"}, {})
AddServiceEndpoint(r)    == Invoke("AddService", r, {}, {"data"})
ListServicesEndpoint(r)  == Invoke("GetServices", r, {}, {"filter"})
FindServiceEndpoint(r)   == Invoke("FindService", r, {"service"}, {})
UpdateServiceEndpoint(r) == Invoke("UpdateService", r, {"service"}, {"fields"})
DeleteServiceEndpoint(r) == Invoke("DeleteService", r, {"service"}, {})
AddServiceToPoolEndpoint(r)          == Invoke("AddServiceToPool", r, {"pool"}, {"service", "role"})
RemoveServiceFromPoolEndpoint(r)     == Invoke("RemoveServiceFromPool", r, {"pool", "role"}, {})
RemoveAllServicesFromPoolEndpoint(r) == Invoke("RemoveAllServicesFromPool", r, {"pool"}, {})
RemoveServiceFromAllPoolsEndpoint(r) == Invoke("RemoveServiceFromAllPools", r, {"service"}, {})
ListPoolServicesEndpoint(r)          == Invoke("GetPoolBindings", r, {"pool"}, {})
ListServicePoolsEndpoint(r)          == Invoke("GetServiceBindings", r, {"service"}, {})

PoolService(r) ==
    {Route("Add", PoolsResource, AddPoolEndpoint(r)),
     Route("List", PoolsResource, ListPoolsEndpoint(r)),
     Route("Find", PoolResource, FindPoolEndpoint(r)),
     Route("UpdatePartial", PoolResource, UpdatePoolEndpoint(r)),
     Route("Delete", PoolResource, DeletePoolEndpoint(r)),
     Route("List", ResourceForPoolServices, ListPoolServicesEndpoint(r)),
     Route("Bind", ResourceForPoolServices, AddServiceToPoolEndpoint(r)),
     Route("Unbind", ResourceForPoolServices, RemoveAllServicesFromPoolEndpoint(r)),
     Route("Unbind", AddChild(ResourceForPoolServices, IdResource("role")), RemoveServiceFromPoolEndpoint(r)),
     Route("Add", ServicesResource, AddServiceEndpoint(r)),
     Route("List", ServicesResource, ListServicesEndpoint(r)),
     Route("Find", ServiceResource, FindServiceEndpoint(r)),
     Route("UpdatePartial", ServiceResource, UpdateServiceEndpoint(r)),
     Route("Delete", ServiceResource, DeleteServiceEndpoint(r)),
     Route("List", ResourceForServicePools, ListServicePoolsEndpoint(r)),
     Route("Unbind", ResourceForServicePools, RemoveServiceFromAllPoolsEndpoint(r))}
=============================================================================
