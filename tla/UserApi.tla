------------------------------ MODULE UserApi ------------------------------
(***************************************************************************)
(* The REST API of users and customers: user_api, and customer_api with    *)
(* its two more setters.  The client of users is attached to a tenancy     *)
(* resource (SetTenancy), whose id is then the tenancy of every request;   *)
(* the one of customers is not: so both forms of Users and Setter are      *)
(* there.                                                                  *)
(***************************************************************************)
EXTENDS Resources

UserSetters == [SetPhone |-> "phone", SetEmail |-> "email", SetBlocked |-> "blocked", SetPassword |-> "password"]
CustomerSetters == [SetName |-> "name", SetDescription |-> "description"]

UserController(type, scope) ==
    [Add |-> Signature({}, scope \union {"login", "password", "phone"}),
     FindUsers |-> Signature({}, scope \union {"filter"}), Find |-> Signature({type}, scope)]
    @@ [op \in DOMAIN UserSetters |-> Signature({type}, scope \union {UserSetters[op]})]
CustomerController ==
    UserController("customer", {})
    @@ [op \in DOMAIN CustomerSetters |-> Signature({"customer"}, {CustomerSetters[op]})]

InTenancy(scope) == IF "tenancy" \in scope THEN NewTenancyResource("tenancy") ELSE <<>>
UserCollection(type, service, scope) ==
    AddChild(InTenancy(scope), PrepareCollectionAndNameResource(type, service).collection)
UserResource(type, service, scope) ==
    AddChild(InTenancy(scope), PrepareCollectionAndNameResource(type, service).object)

----------------------------------------------------------------------------
(* user_client and customer_api_client *)

AddUser(collection)   == Method("Add", collection, {"login", "password", "phone"})
FindUsers(collection) == Method("List", collection, {"filter"})
FindUser(object)      == ListedMethod("Find", object)

\* UserOperation: the field is a resource below the user.
UserOperation(object, field) == Method("Update", AddChild(object, NewResource(field)), {field})
SetPhone(object)       == UserOperation(object, "phone")
SetEmail(object)       == UserOperation(object, "email")
SetBlocked(object)     == UserOperation(object, "blocked")
SetPassword(object)    == UserOperation(object, "password")
SetName(object)        == UserOperation(object, "name")
SetDescription(object) == UserOperation(object, "description")

UserClient(collection, object) ==
    [Add |-> AddUser(collection), FindUsers |-> FindUsers(collection), Find |-> FindUser(object),
     SetPhone |-> SetPhone(object), SetEmail |-> SetEmail(object), SetBlocked |-> SetBlocked(object),
     SetPassword |-> SetPassword(object)]
CustomerClient(collection, object) ==
    UserClient(collection, object) @@ [SetName |-> SetName(object), SetDescription |-> SetDescription(object)]

----------------------------------------------------------------------------
(* user_service and customer_api_service *)

\* Users and Setter: the controller of the request's tenancy, if there is one.
AddUserEndpoint(r, scope)           == Invoke("Add", r, scope, {"login", "password", "phone"})
ListUsersEndpoint(r, scope)         == Invoke("FindUsers", r, scope, {"filter"})
FindUserEndpoint(r, type, scope)    == Invoke("Find", r, scope \union {type}, {})
SetPhoneEndpoint(r, type, scope)    == Invoke("SetPhone", r, scope \union {type}, {"phone"})
SetEmailEndpoint(r, type, scope)    == Invoke("SetEmail", r, scope \union {type}, {"email"})
SetBlockedEndpoint(r, type, scope)  == Invoke("SetBlocked", r, scope \union {type}, {"blocked"})
SetPasswordEndpoint(r, type, scope) == Invoke("SetPassword", r, scope \union {type}, {"password"})

UserService(r, type, service, scope) ==
    LET collection == UserCollection(type, service, scope)
        object == UserResource(type, service, scope)
        field(name) == AddChild(object, NewResource(name))
    IN {Route("List", collection, ListUsersEndpoint(r, scope)),
        Route("Add", collection, AddUserEndpoint(r, scope)),
        Route("Find", object, FindUserEndpoint(r, type, scope)),
        Route("Update", field("phone"), SetPhoneEndpoint(r, type, scope)),
        Route("Update", field("email"), SetEmailEndpoint(r, type, scope)),
        Route("Update", field("blocked"), SetBlockedEndpoint(r, type, scope)),
        Route("Update", field("password"), SetPasswordEndpoint(r, type, scope))}

\* customer_api_service.Setter: outside a tenancy, the Controller of the service, a field that
\* NewServiceExtended leaves nil.
ControllerIsSet == FALSE
CustomerSetter(call) == IF ControllerIsSet THEN call ELSE Crash
SetNameEndpoint(r) == CustomerSetter(Invoke("SetName", r, {"customer"}, {"name"}))
\* The handler of the description calls SetName.
SetDescriptionEndpoint(r) ==
    CustomerSetter([op   |-> "SetName",
                    args |-> [customer |-> Parameter(r.ids, "customer"),
                              name |-> Parameter(r.body, "description")]])

CustomerService(r) ==
    LET object == UserResource("customer", "customers", {})
    IN UserService(r, "customer", "customers", {})
       \union {Route("Update", AddChild(object, NewResource("name")), SetNameEndpoint(r)),
               Route("Update", AddChild(object, NewResource("description")), SetDescriptionEndpoint(r))}
=============================================================================
