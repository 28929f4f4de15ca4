----------------------------- MODULE Resources -----------------------------
(***************************************************************************)
(* API resources (pkg/api).  A resource is the chain of segments from the  *)
(* service down to itself: a segment is its type, and it is a parameter    *)
(* when the resource has an id.  The path prototype that a server routes   *)
(* is the chain; the actual path that a client requests has the ids in     *)
(* place of the parameters.                                                *)
(***************************************************************************)
EXTENDS Sequences, Functions, FiniteSets, TLC

Absent == "absent"

NewResource(type) == <<[type |-> type, hasId |-> FALSE]>>
IdResource(type)  == <<[type |-> type, hasId |-> TRUE]>>

\* A named resource is the only child of its group, of the same type.
NamedResource(type) == NewResource(type) \o IdResource(type)

AddChild(resource, child) == resource \o child

\* Service "<type>s" with the collection and the object.
PrepareCollectionAndNameResource(type, service) ==
    [collection |-> AddChild(NewResource(service), NewResource(type)),
     object     |-> AddChild(NewResource(service), NamedResource(type))]

NewTenancyResource(type) == NamedResource(type)

\* RebuildPaths: parameters are replaced by the ids.
ActualPath(resource, ids) ==
    [i \in DOMAIN resource |-> IF resource[i].hasId THEN ids[resource[i].type] ELSE resource[i].type]

IdTypes(resource) == {resource[i].type : i \in {j \in DOMAIN resource : resource[j].hasId}}

\* The parameters of a routed path (gin's Param, Request.GetResourceId).
ResourceIds(resource, path) ==
    [t \in IdTypes(resource) |->
        path[CHOOSE i \in DOMAIN resource : resource[i].hasId /\ resource[i].type = t]]

\* The router (external, gin): a literal segment goes before a parameter.  A parameter in the
\* middle takes an empty segment, the last one does not: such a path is redirected, with its
\* verb, to the path without it (RedirectTrailingSlash), which is routed or not found.
Matches(resource, path) ==
    /\ Len(resource) = Len(path)
    /\ \A i \in DOMAIN path : resource[i].hasId \/ resource[i].type = path[i]
Redirected(path) == IF path[Len(path)] = "" THEN SubSeq(path, 1, Len(path) - 1) ELSE path
Literals(resource) == Cardinality({i \in DOMAIN resource : ~resource[i].hasId})

\* access_control.Access2HttpMethod of the constructors of operations.
Verb == [Post |-> "POST", Create |-> "POST", Add |-> "POST", Bind |-> "POST",
         Find |-> "GET", Get |-> "GET", Read |-> "GET", Exists |-> "GET", Check |-> "GET", List |-> "GET",
         Delete |-> "DELETE", Unbind |-> "DELETE", Update |-> "PUT", UpdatePartial |-> "PATCH"]

\* An operation of a controller's interface: the objects it names and its other arguments.
Signature(targets, args) == [targets |-> targets, args |-> args]

\* A method of a client: what it sends where; with listed, the object that the look-up by name
\* found is the answer and nothing more is sent.
Method(verb, resource, body) ==
    [verb |-> Verb[verb], resource |-> resource, body |-> body, listed |-> FALSE]
ListedMethod(verb, resource) == [Method(verb, resource, {}) EXCEPT !.listed = TRUE]

\* Client.Exec: the message is put into the body (or the query, for GET); a field that is no
\* argument is a flag.
Message(args, names) == [n \in names |-> IF n \in DOMAIN args THEN args[n] ELSE "true"]

Parameter(f, n) == IF n \in DOMAIN f THEN f[n] ELSE Absent

\* An endpoint's HandleRequest: the controller is called with ids of the path and fields of
\* the message.
Invoke(op, request, ids, fields) ==
    [op   |-> op,
     args |-> [n \in ids |-> Parameter(request.ids, n)] @@ [n \in fields |-> Parameter(request.body, n)]]

Route(verb, resource, call) == [verb |-> Verb[verb], resource |-> resource, call |-> call]
Crash == [op |-> "crash", args |-> <<>>]
NotFound == [op |-> "not_found", args |-> <<>>]
=============================================================================
